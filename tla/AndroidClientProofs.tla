------------------------ MODULE AndroidClientProofs ------------------------
(***************************************************************************)
(* The native runtime keeps its types and never holds a content key that   *)
(* the current authorization did not grant, for any number of threads,     *)
(* requests and bindings and any lifetimes.  Both together are inductive:  *)
(* an activation ends the old epoch and its leases in one critical         *)
(* section, and a lease is stored in the same critical section that        *)
(* compares the epoch and the binding with those of its snapshot.          *)
(*                                                                         *)
(* Then the Android client, for any number of calls, bindings and          *)
(* announcements.  A call changes nothing but its own record and what      *)
(* native code and the preferences let it change, so that every step is    *)
(* one of NativeRuntime's or leaves its state alone; what holds of native  *)
(* code for any caller then holds for this one.  Late answers are turned   *)
(* away because epochs grow with every revocation, and keys are never lost *)
(* because a call keeps the answer that names them.                        *)
(***************************************************************************)
EXTENDS AndroidClient, FiniteSetTheorems, TLAPS

(***************************************************************************)
(* NativeRuntime.                                                          *)
(***************************************************************************)

\* A validation that goes on has a request.
ValidationsHaveRequests ==
    \A t \in Threads :
        local[t].phase \in {"consumed", "admitted"} => local[t].request.nonce # None

NativeInv == NativeTypeOK /\ LeasesBelongToAuthorization /\ ValidationsHaveRequests

LEMMA NativeInitial == NativeInit => NativeInv
BY NativeLimits
DEF NativeInit, NativeInv, NativeTypeOK, LeasesBelongToAuthorization, NoRequest, Nowhere,
    Request, Local, Kinds, ValidationsHaveRequests

\* What ClearAuthorization leaves.
LEMMA ClearingKeepsInv ==
    ASSUME NativeInv, ClearAuthorization, now' = now, local' \in [Threads -> Local],
           ValidationsHaveRequests'
    PROVE  NativeInv'
BY NativeLimits
DEF NativeInv, NativeTypeOK, LeasesBelongToAuthorization, ClearAuthorization, NoRequest,
    Request, Kinds

\* A thread that returns keeps nothing.
LEMMA ReturnTyped ==
    ASSUME NativeInv, NEW t \in Threads, Return(t)
    PROVE  local' \in [Threads -> Local] /\ ValidationsHaveRequests'
BY NativeLimits
DEF NativeInv, NativeTypeOK, Return, Nowhere, NoRequest, Request, Local,
    ValidationsHaveRequests

\* Steps that change the leases at most by removing some.
LEMMA FewerLeases ==
    ASSUME NativeInv, leases' \subseteq leases, UNCHANGED <<active, epoch>>
    PROVE  leases' \in SUBSET Lease /\ LeasesBelongToAuthorization'
BY DEF NativeInv, NativeTypeOK, LeasesBelongToAuthorization

LEMMA BeginKeepsInv ==
    ASSUME NativeInv, NEW kind \in Kinds, NEW n \in Nonces, BeginRequest(kind, n)
    PROVE  NativeInv'
<1>1. [nonce |-> n, created |-> now, epoch |-> epoch, generation |-> 0] \in Request
  BY DEF NativeInv, NativeTypeOK, Request
<1> QED
  BY <1>1 DEF NativeInv, NativeTypeOK, LeasesBelongToAuthorization, ValidationsHaveRequests,
             BeginRequest

LEMMA BeginModelKeepsInv ==
    ASSUME NativeInv, NEW n \in Nonces, BeginModelRequest(n)
    PROVE  NativeInv'
<1>1. CASE ClearAuthorization
  BY <1>1, ClearingKeepsInv
  DEF NativeInv, NativeTypeOK, ValidationsHaveRequests, BeginModelRequest
<1>2. CASE Authorized
  <2>1. [nonce |-> n, created |-> now, epoch |-> epoch, generation |-> generation + 1]
           \in Request
    BY DEF NativeInv, NativeTypeOK, Request
  <2> QED
    BY <1>2, <2>1
    DEF NativeInv, NativeTypeOK, LeasesBelongToAuthorization, ValidationsHaveRequests,
        BeginModelRequest
<1> QED
  BY <1>1, <1>2 DEF BeginModelRequest

LEMMA ConsumeKeepsInv ==
    ASSUME NativeInv, NEW t \in Threads, NEW kind \in Kinds, Consume(t, kind)
    PROVE  NativeInv'
<1>1. NoRequest \in Request /\ pending[kind] \in Request
  BY NativeLimits DEF NativeInv, NativeTypeOK, NoRequest, Request
<1>2. pending' \in [Kinds -> Request] /\ local' \in [Threads -> Local]
  BY <1>1 DEF NativeInv, NativeTypeOK, Consume, Nowhere, Local
<1>3. ValidationsHaveRequests'
  BY <1>1 DEF NativeInv, NativeTypeOK, Consume, Nowhere, Usable, ValidationsHaveRequests
<1> QED
  BY <1>2, <1>3 DEF NativeInv, NativeTypeOK, LeasesBelongToAuthorization, Consume

\* Verdicts that clear the state or leave it alone.
LEMMA ReturningKeepsInv ==
    ASSUME NativeInv, NEW t \in Threads,
           \/ Reject(t) \/ AcceptStale(t) \/ SnapshotFails(t) \/ StoreStale(t)
           \/ \E b \in Bindings : AcceptUnbind(t, b)
    PROVE  NativeInv'
<1>1. Return(t) /\ now' = now
  BY DEF Reject, AcceptStale, SnapshotFails, StoreStale, AcceptUnbind
<1>2. local' \in [Threads -> Local] /\ ValidationsHaveRequests'
  BY <1>1, ReturnTyped
<1>3. ClearAuthorization \/ UNCHANGED state
  BY DEF Reject, AcceptStale, SnapshotFails, StoreStale, AcceptUnbind
<1>4. CASE ClearAuthorization
  BY <1>1, <1>2, <1>4, ClearingKeepsInv
<1>5. CASE UNCHANGED state
  BY <1>1, <1>2, <1>5 DEF NativeInv, NativeTypeOK, LeasesBelongToAuthorization, state
<1> QED
  BY <1>3, <1>4, <1>5

LEMMA AcceptKeepsInv ==
    ASSUME NativeInv, NEW t \in Threads, NEW b \in Bindings, NEW ttl \in AuthorizationTtls,
           AcceptActivation(t, b, ttl) \/ AcceptVerification(t, b, ttl)
    PROVE  NativeInv'
<1>1. Return(t) /\ now' = now
  BY DEF AcceptActivation, AcceptVerification
<1>2. local' \in [Threads -> Local] /\ ValidationsHaveRequests'
  BY <1>1, ReturnTyped
<1>3. now + ttl \in Nat
  BY NativeLimits DEF NativeInv, NativeTypeOK
<1>4. CASE AcceptActivation(t, b, ttl)
  <2>1. pending' \in [Kinds -> Request]
    BY <1>4, NativeLimits DEF AcceptActivation, NoRequest, Request
  <2> QED
    BY <1>1, <1>2, <1>3, <1>4, <2>1
    DEF NativeInv, NativeTypeOK, LeasesBelongToAuthorization, AcceptActivation
<1>5. CASE AcceptVerification(t, b, ttl)
  <2>1. CASE SameBinding(b)
    <3>1. /\ active' = b /\ deadline' = now + ttl
          /\ UNCHANGED <<pending, leases, epoch, generation>>
      BY <1>5, <2>1 DEF AcceptVerification
    \* With no authorization there is no lease either.
    <3>2. active = None => leases = {}
      BY NativeNone DEF NativeInv, NativeTypeOK, LeasesBelongToAuthorization, Lease
    <3>3. LeasesBelongToAuthorization'
      BY <2>1, <3>1, <3>2 DEF NativeInv, LeasesBelongToAuthorization, SameBinding
    <3> QED
      BY <1>1, <1>2, <1>3, <3>1, <3>3 DEF NativeInv, NativeTypeOK
  <2>2. CASE ~SameBinding(b)
    BY <1>1, <1>2, <1>5, <2>2, ClearingKeepsInv DEF AcceptVerification
  <2> QED
    BY <2>1, <2>2
<1> QED
  BY <1>4, <1>5

LEMMA SnapshotKeepsInv ==
    ASSUME NativeInv, NEW t \in Threads, NEW expires \in Nat, Snapshot(t, expires)
    PROVE  NativeInv'
<1>1. local[t] \in Local /\ active \in Bindings \cup {None} /\ now + HandleTtl \in Nat
  BY NativeLimits DEF NativeInv, NativeTypeOK
<1>2. local' \in [Threads -> Local]
  BY <1>1 DEF NativeInv, NativeTypeOK, Snapshot, Local
<1>3. ValidationsHaveRequests'
  BY <1>1, <1>2
  DEF NativeInv, NativeTypeOK, Snapshot, Consumed, Local, ValidationsHaveRequests
<1> QED
  BY <1>2, <1>3 DEF NativeInv, NativeTypeOK, LeasesBelongToAuthorization, Snapshot, state

\* The lease that is stored is the one the snapshot admitted, and nothing has been cleared
\* or replaced in between.
LEMMA StoreKeepsInv ==
    ASSUME NativeInv, NEW t \in Threads, StoreLease(t) \/ StoreRefused(t)
    PROVE  NativeInv'
<1>1. Return(t) /\ UNCHANGED <<pending, active, deadline, epoch, generation, now>>
  BY DEF StoreLease, StoreRefused
<1>2. local' \in [Threads -> Local] /\ ValidationsHaveRequests'
  BY <1>1, ReturnTyped
<1>3. Unexpired \subseteq leases
  BY DEF Unexpired
<1>4. CASE StoreRefused(t)
  BY <1>1, <1>2, <1>3, <1>4, FewerLeases DEF StoreRefused, NativeInv, NativeTypeOK
<1>5. CASE StoreLease(t)
  <2>1. local[t] \in Local /\ local[t].request \in Request
    BY DEF NativeInv, NativeTypeOK, Local
  <2>2. /\ local[t].binding = active /\ active \in Bindings
        /\ local[t].request.epoch = epoch /\ epoch \in Nat
    BY <1>5 DEF StoreLease, StillAdmitted, Authorized, Current, NativeInv, NativeTypeOK
  <2>3. local[t].request.nonce \in Nonces
    BY <1>5, <2>1 DEF StoreLease, NativeInv, ValidationsHaveRequests, Request
  <2>4. LeaseOf(t) \in Lease
    BY <2>1, <2>2, <2>3 DEF LeaseOf, Lease, Local
  <2> QED
    BY <1>1, <1>2, <1>3, <1>5, <2>2, <2>4
    DEF NativeInv, NativeTypeOK, LeasesBelongToAuthorization, StoreLease, LeaseOf
<1> QED
  BY <1>4, <1>5

LEMMA DropLeaseKeepsInv ==
    ASSUME NativeInv, NEW h, DecryptLease(h) \/ ReleaseLease(h)
    PROVE  NativeInv'
<1>1. UNCHANGED <<local, now>>
  BY DEF DecryptLease, ReleaseLease
<1>2. CASE ClearAuthorization
  BY <1>1, <1>2, ClearingKeepsInv DEF NativeInv, NativeTypeOK, ValidationsHaveRequests
<1>3. CASE /\ leases' \subseteq leases
           /\ UNCHANGED <<pending, active, deadline, epoch, generation>>
  BY <1>1, <1>3, FewerLeases DEF NativeInv, NativeTypeOK, ValidationsHaveRequests
<1>4. ClearAuthorization \/
      (leases' \subseteq leases /\ UNCHANGED <<pending, active, deadline, epoch, generation>>)
  BY DEF DecryptLease, ReleaseLease, Unexpired
<1> QED
  BY <1>2, <1>3, <1>4

LEMMA OtherKeepsInv ==
    ASSUME NativeInv, CancelModelRequest \/ ClearAuthorizationState \/ Tick \/ NativeRestart
    PROVE  NativeInv'
<1>1. NoRequest \in Request /\ Nowhere \in Local
  BY NativeLimits DEF NoRequest, Request, Nowhere, Local
<1>2. CASE CancelModelRequest
  <2>1. pending' \in [Kinds -> Request]
    BY <1>1, <1>2 DEF NativeInv, NativeTypeOK, CancelModelRequest
  <2> QED
    BY <1>2, <2>1
    DEF NativeInv, NativeTypeOK, ValidationsHaveRequests, LeasesBelongToAuthorization,
        CancelModelRequest
<1>3. CASE ClearAuthorizationState
  BY <1>3, ClearingKeepsInv
  DEF NativeInv, NativeTypeOK, ValidationsHaveRequests, ClearAuthorizationState
<1>4. CASE Tick
  BY <1>4, NativeLimits
  DEF NativeInv, NativeTypeOK, ValidationsHaveRequests, LeasesBelongToAuthorization, Tick,
      state
<1>5. CASE NativeRestart
  BY <1>1, <1>5
  DEF NativeInv, NativeTypeOK, ValidationsHaveRequests, LeasesBelongToAuthorization,
      NativeRestart, Nowhere
<1> QED
  BY <1>2, <1>3, <1>4, <1>5

LEMMA NativeStep == NativeInv /\ [NativeNext]_nativeVars => NativeInv'
<1> SUFFICES ASSUME NativeInv, [NativeNext]_nativeVars
             PROVE  NativeInv'
  OBVIOUS
<1>1. CASE UNCHANGED nativeVars
  BY <1>1
  DEF NativeInv, NativeTypeOK, LeasesBelongToAuthorization, ValidationsHaveRequests,
      nativeVars, state
<1>2. CASE \E kind \in Kinds, n \in Nonces : BeginRequest(kind, n)
  BY <1>2, BeginKeepsInv
<1>3. CASE \/ \E n \in Nonces : BeginModelRequest(n)
           \/ \E h \in Nonces \cup {None} : DecryptLease(h) \/ ReleaseLease(h)
  BY <1>3, BeginModelKeepsInv, DropLeaseKeepsInv
<1>4. ASSUME NEW t \in Threads, \E kind \in Kinds : Consume(t, kind)
      PROVE  NativeInv'
  BY <1>4, ConsumeKeepsInv
<1>5. ASSUME NEW t \in Threads,
             \E b \in Bindings, ttl \in AuthorizationTtls :
                 AcceptActivation(t, b, ttl) \/ AcceptVerification(t, b, ttl)
      PROVE  NativeInv'
  BY <1>5, AcceptKeepsInv
<1>6. ASSUME NEW t \in Threads,
             \/ Reject(t) \/ AcceptStale(t) \/ SnapshotFails(t) \/ StoreStale(t)
             \/ \E b \in Bindings : AcceptUnbind(t, b)
      PROVE  NativeInv'
  BY <1>6, ReturningKeepsInv
<1>7. ASSUME NEW t \in Threads,
             StoreLease(t) \/ StoreRefused(t) \/ \E expires \in Nat : Snapshot(t, expires)
      PROVE  NativeInv'
  BY <1>7, StoreKeepsInv, SnapshotKeepsInv
<1>8. CASE CancelModelRequest \/ ClearAuthorizationState \/ Tick \/ NativeRestart
  BY <1>8, OtherKeepsInv
<1> QED
  BY <1>1, <1>2, <1>3, <1>4, <1>5, <1>6, <1>7, <1>8 DEF NativeNext

\* Every variable of the runtime keeps its type.
THEOREM NativeTyped == NativeSpec => []NativeTypeOK
<1>1. NativeInv => NativeTypeOK
  BY DEF NativeInv
<1> QED
  BY <1>1, NativeInitial, NativeStep, PTL DEF NativeSpec

\* No clear, unbinding or newer activation leaves a content key behind, and no key arrives
\* after one (store_lease_locked, clear_authorization_locked, accept_authorization).
THEOREM NativeLeasesCurrent == NativeSpec => []LeasesBelongToAuthorization
<1>1. NativeInv => LeasesBelongToAuthorization
  BY DEF NativeInv
<1> QED
  BY <1>1, NativeInitial, NativeStep, PTL DEF NativeSpec

-----------------------------------------------------------------------------
TableInv == IsFiniteSet(leases) /\ HandlesBounded

\* Every step drops leases, keeps them, or stores one where store_lease_locked found room.
LEMMA TableStep == TableInv /\ [NativeNext]_nativeVars => TableInv'
<1> SUFFICES ASSUME TableInv, [NativeNext]_nativeVars
             PROVE  TableInv'
  OBVIOUS
<1>1. \/ leases' \subseteq leases
      \/ \E t \in Threads : Room /\ leases' = Unexpired \cup {LeaseOf(t)}
  BY DEF NativeNext, nativeVars, state, BeginRequest, BeginModelRequest, DecryptLease,
         ReleaseLease, Consume, Reject, AcceptStale, AcceptActivation, AcceptVerification,
         AcceptUnbind, Snapshot, SnapshotFails, StoreLease, StoreRefused, StoreStale,
         CancelModelRequest, ClearAuthorizationState, Tick, NativeRestart,
         ClearAuthorization, Unexpired
<1>2. Cardinality(leases) \in Nat /\ Cardinality(leases) <= MaxHandles
  BY FS_CardinalityType DEF TableInv, HandlesBounded
<1>3. CASE leases' \subseteq leases
  <2>1. IsFiniteSet(leases') /\ Cardinality(leases') <= Cardinality(leases)
    BY <1>3, FS_Subset DEF TableInv
  <2>2. Cardinality(leases') \in Nat
    BY <2>1, FS_CardinalityType
  <2> QED
    BY <1>2, <2>1, <2>2, NativeLimits DEF TableInv, HandlesBounded
<1>4. ASSUME NEW t \in Threads, Room, leases' = Unexpired \cup {LeaseOf(t)}
      PROVE  TableInv'
  <2>1. IsFiniteSet(Unexpired)
    BY FS_Subset DEF TableInv, Unexpired
  <2>2. /\ IsFiniteSet(leases')
        /\ Cardinality(leases') = IF LeaseOf(t) \in Unexpired THEN Cardinality(Unexpired)
                                  ELSE Cardinality(Unexpired) + 1
    BY <1>4, <2>1, FS_AddElement
  <2>3. Cardinality(Unexpired) \in Nat /\ Cardinality(Unexpired) < MaxHandles
    BY <1>4, <2>1, FS_CardinalityType DEF Room
  <2> QED
    BY <2>2, <2>3, NativeLimits DEF TableInv, HandlesBounded
<1> QED
  BY <1>1, <1>3, <1>4

\* The table of content keys never grows beyond kMaxLeaseHandles, whoever stores and
\* whenever leases expire.
THEOREM NativeHandlesBounded == NativeSpec => []HandlesBounded
<1>1. NativeInit => TableInv
  BY FS_EmptySet, NativeLimits DEF NativeInit, TableInv, HandlesBounded
<1>2. TableInv => HandlesBounded
  BY DEF TableInv
<1> QED
  BY <1>1, <1>2, TableStep, PTL DEF NativeSpec

(***************************************************************************)
(* AndroidClient.                                                          *)
(***************************************************************************)

\* TypeOK without what NativeRuntime types.
ClientTypes ==
    /\ plan \in Plans
    /\ call \in [Threads -> Call]
    /\ prefs \in Prefs /\ disk \in SUBSET Prefs
    /\ requests \in SUBSET [from : Threads, op : Ops, token : Nonces \cup {None}]
    /\ answers \in SUBSET Answer
    /\ sessions \in [Nonces -> Bindings \cup {None}]
    /\ announcements \in SUBSET [sequence : 1..MaxSequence, shown : BOOLEAN]
    /\ sequence \in 0..MaxSequence
    /\ grant \in Nonces \cup {None}
    /\ revoked \in SUBSET Nonces

SessionOps == {"verify", "unbind", "lease"}

\* A request that needs a token has one, and an answer's token has a binding.
ServerOK ==
    /\ \A r \in requests : r.op \in SessionOps => r.token # None
    /\ \A a \in answers :
          a.code = "ok" /\ a.op \in SessionOps \cup {"activate"} => a.binding # None

\* A call works on an answer of the server or on garbage.
CallOK(c) ==
    /\ call[c].at = "loaded" => call[c].token # None
    /\ call[c].at = "sent" => call[c].op \in SessionOps \cup {"activate", "notices"}
    /\ call[c].answer = Garbage \/ call[c].answer \in answers
    /\ call[c].at = "validating" => call[c].answer.code = "ok"

\* No watermark and no answer is ahead of the server's counter.
Watermarks ==
    /\ \A p \in disk \cup {prefs} : p.watermark <= sequence
    /\ \A a \in answers : a.sequence <= sequence

ClientInv == ClientTypes /\ ServerOK /\ Watermarks /\ \A c \in Threads : CallOK(c)

Places == {"idle", "loaded", "sent", "validating", "saving", "returning", "holding",
           "cancelling", "wiping", "forgetting", "dropping", "clearing", "done"}

Keeping == {"saving", "returning", "holding", "wiping"}

\* Call c goes on, with the answer it has or with none.
Moves(c) ==
    /\ call' \in [Threads -> Call]
    /\ \A d \in Threads : d # c => call'[d] = call[d]
    /\ call'[c].at \notin {"idle", "loaded", "validating"}
    /\ call'[c].at = "sent" => call'[c].op \in SessionOps
    /\ call'[c].answer \in {Garbage, call[c].answer}

-----------------------------------------------------------------------------
LEMMA NoCallTyped == Garbage \in Answer /\ NoCall \in Call
BY DEF Garbage, NoCall, Answer, Call

\* The records that the steps of a call build.
LEMMA NewCall ==
    ASSUME NEW op \in Ops \cup {"none"}, NEW at \in Places, NEW token \in Nonces \cup {None},
           NEW then \in {"done", "wiping", "forgetting"}, NEW answer \in Answer
    PROVE  /\ [NoCall EXCEPT !.op = op, !.at = at] \in Call
           /\ [NoCall EXCEPT !.op = op, !.at = at, !.token = token] \in Call
           /\ [NoCall EXCEPT !.op = op, !.at = at, !.answer = answer] \in Call
           /\ [NoCall EXCEPT !.op = op, !.at = at, !.then = then, !.answer = answer] \in Call
<1>1. [NoCall EXCEPT !.op = op, !.at = at] \in Call
  BY NoCallTyped DEF NoCall, Call, Places
<1>2. [NoCall EXCEPT !.op = op, !.at = at, !.token = token] \in Call
  BY NoCallTyped DEF NoCall, Call, Places
<1>3. [NoCall EXCEPT !.op = op, !.at = at, !.answer = answer] \in Call
  BY NoCallTyped DEF NoCall, Call, Places
<1>4. [NoCall EXCEPT !.op = op, !.at = at, !.then = then, !.answer = answer] \in Call
  BY NoCallTyped DEF NoCall, Call, Places
<1> QED
  BY <1>1, <1>2, <1>3, <1>4

LEMMA GotoMoves ==
    ASSUME call \in [Threads -> Call], NEW c \in Threads,
           NEW at \in Places \ {"idle", "loaded", "validating"}, Goto(c, at),
           at = "sent" => call[c].op \in SessionOps
    PROVE  /\ Moves(c)
           /\ call'[c].at = at
           /\ at # "done" => call'[c].op = call[c].op
           /\ at \in Keeping => call'[c].answer = call[c].answer
<1> DEFINE op == IF at = "done" THEN "none" ELSE call[c].op
           answer == IF at \in Keeping THEN call[c].answer ELSE Garbage
           new == [NoCall EXCEPT !.op = op, !.at = at, !.answer = answer]
<1>1. op \in Ops \cup {"none"} /\ answer \in Answer
  BY NoCallTyped DEF Call
<1>2. new \in Call
  BY <1>1, NewCall
<1>3. new.op = op /\ new.at = at /\ new.answer = answer
  BY DEF NoCall
<1>4. call' = [call EXCEPT ![c] = new]
  BY DEF Goto, Keeping
<1> HIDE DEF new
<1>5. call' \in [Threads -> Call]
  BY <1>2, <1>4
<1>6. call'[c] = new /\ \A d \in Threads : d # c => call'[d] = call[d]
  BY <1>4
<1> QED
  BY <1>3, <1>5, <1>6 DEF Moves

LEMMA CancelMoves ==
    ASSUME call \in [Threads -> Call], NEW c \in Threads,
           NEW next \in {"done", "wiping", "forgetting"}, CancelThen(c, next)
    PROVE  /\ Moves(c)
           /\ call'[c].at = "cancelling" /\ call'[c].then = next
           /\ call'[c].op = call[c].op
           /\ next = "wiping" => call'[c].answer = call[c].answer
<1> DEFINE answer == IF next = "wiping" THEN call[c].answer ELSE Garbage
           new == [NoCall EXCEPT !.op = call[c].op, !.at = "cancelling", !.then = next,
                                 !.answer = answer]
<1>1. call[c].op \in Ops \cup {"none"} /\ answer \in Answer
  BY NoCallTyped DEF Call
<1>2. "cancelling" \in Places
  BY DEF Places
<1>3. new \in Call
  BY <1>1, <1>2, NewCall
<1>4. /\ new.op = call[c].op /\ new.at = "cancelling" /\ new.then = next
      /\ new.answer = answer
  BY DEF NoCall
<1>5. call' = [call EXCEPT ![c] = new]
  BY DEF CancelThen
<1> HIDE DEF new
<1>6. call' \in [Threads -> Call]
  BY <1>3, <1>5
<1>7. call'[c] = new /\ \A d \in Threads : d # c => call'[d] = call[d]
  BY <1>5
<1> QED
  BY <1>4, <1>6, <1>7 DEF Moves

LEMMA FailMoves ==
    ASSUME call \in [Threads -> Call], NEW c \in Threads, Fail(c) \/ FailAndForget(c)
    PROVE  /\ Moves(c)
           /\ call[c].op = "lease" => call'[c].at = "cancelling" /\ call'[c].op = "lease"
           /\ call[c].op # "lease" => call'[c].at \in {"done", "forgetting"}
<1>1. CASE call[c].op = "lease"
  BY <1>1, CancelMoves DEF Fail, FailAndForget
<1>2. CASE call[c].op # "lease"
  BY <1>2, GotoMoves DEF Fail, FailAndForget, Places
<1> QED
  BY <1>1, <1>2

-----------------------------------------------------------------------------
(***************************************************************************)
(* The types of the client, and what its records refer to.                 *)
(***************************************************************************)
LEMMA MovesKeepCalls ==
    ASSUME ClientInv, NEW c \in Threads, Moves(c), answers \subseteq answers'
    PROVE  \A d \in Threads : CallOK(d)'
BY DEF ClientInv, CallOK, Moves

\* Steps that touch nothing but the call, native state and the history.
LEMMA QuietKeepsInv ==
    ASSUME ClientInv, NEW c \in Threads, Moves(c),
           UNCHANGED <<plan, prefVars, requests, answers, serverVars>>,
           grant' \in Nonces \cup {None}, revoked' \in SUBSET Nonces
    PROVE  ClientInv'
<1>1. \A d \in Threads : CallOK(d)'
  BY MovesKeepCalls DEF serverVars
<1> QED
  BY <1>1 DEF ClientInv, ClientTypes, ServerOK, Watermarks, Moves, serverVars, prefVars

LEMMA SaveKeepsInv ==
    ASSUME ClientInv, NEW c \in Threads, Moves(c),
           UNCHANGED <<plan, requests, answers, serverVars, history>>,
           \/ \E token \in Nonces \cup {None} : Save("token", token)
           \/ \E watermark \in 0..sequence : Save("watermark", watermark)
    PROVE  ClientInv'
<1>1. \A d \in Threads : CallOK(d)'
  BY MovesKeepCalls
<1>2. sequence \in 0..MaxSequence /\ MaxSequence \in Nat
  BY ClientLimits DEF ClientInv, ClientTypes
<1>3. prefs' \in Prefs /\ prefs'.watermark <= sequence
  <2>1. prefs \in Prefs /\ prefs.watermark <= sequence
    BY DEF ClientInv, ClientTypes, Watermarks
  <2>2. CASE \E token \in Nonces \cup {None} : Save("token", token)
    BY <2>1, <2>2 DEF Save, Prefs
  <2>3. CASE \E watermark \in 0..sequence : Save("watermark", watermark)
    BY <1>2, <2>1, <2>3 DEF Save, Prefs
  <2> QED
    BY <2>2, <2>3
<1>4. disk' = disk \cup {prefs'}
  BY DEF Save
<1> QED
  BY <1>1, <1>3, <1>4
  DEF ClientInv, ClientTypes, ServerOK, Watermarks, Moves, serverVars, history

LEMMA BegunTyped == ClientInv => Begun \in SUBSET Nonces
BY CallsAreThreads DEF Begun

\* A request is sent with the token the call has loaded.
LEMMA SendKeepsRequests ==
    ASSUME ClientInv, NEW c \in Threads, NEW op \in Ops, Send(c, op),
           op \in SessionOps => call[c].token # None
    PROVE  /\ requests' \in SUBSET [from : Threads, op : Ops, token : Nonces \cup {None}]
           /\ \A r \in requests' : r.op \in SessionOps => r.token # None
<1>1. call[c].token \in Nonces \cup {None}
  BY DEF ClientInv, ClientTypes, Call
<1> QED
  BY <1>1 DEF ClientInv, ClientTypes, ServerOK, Send

\* A call is made.
LEMMA StartKeepsInv ==
    ASSUME ClientInv, NEW c \in Threads, NEW new \in Call, call' = [call EXCEPT ![c] = new],
           new.at = "loaded" => new.token # None, new.at # "validating",
           new.at = "sent" => new.op \in {"activate", "notices"},
           new.answer = Garbage,
           \/ UNCHANGED requests
           \/ \E op \in Ops \ SessionOps : Send(c, op),
           UNCHANGED <<plan, prefVars, answers, serverVars, history>>
    PROVE  ClientInv'
<1>1. call' \in [Threads -> Call] /\ \A d \in Threads : CallOK(d)'
  BY DEF ClientInv, ClientTypes, CallOK
<1>2. /\ requests' \in SUBSET [from : Threads, op : Ops, token : Nonces \cup {None}]
      /\ \A r \in requests' : r.op \in SessionOps => r.token # None
  BY SendKeepsRequests DEF ClientInv, ClientTypes, ServerOK
<1> QED
  BY <1>1, <1>2
  DEF ClientInv, ClientTypes, ServerOK, Watermarks, serverVars, prefVars, history

LEMMA StartsKeepInv ==
    ASSUME ClientInv, NEW c \in Threads, UNCHANGED plan,
           \/ Activate(c) \/ FetchNotices(c) \/ ClearSession(c)
           \/ \E op \in Ops : Load(c, op)
    PROVE  ClientInv'
<1>1. plan \subseteq Ops
  BY DEF ClientInv, ClientTypes, Ops
<1>2. /\ "sent" \in Places /\ "forgetting" \in Places /\ "loaded" \in Places
      /\ "cancelling" \in Places /\ "done" \in Places
  BY DEF Places
<1>3. CASE Activate(c)
  <2> DEFINE new == [NoCall EXCEPT !.op = "activate", !.at = "sent"]
  <2>1. new \in Call
    BY <1>1, <1>2, <1>3, NewCall, NoCallTyped, CallsAreThreads DEF Activate
  <2>2. new.at = "sent" /\ new.op = "activate" /\ new.answer = Garbage
    BY DEF NoCall
  <2>3. "activate" \in Ops \ SessionOps
    BY <1>1, <1>3 DEF Activate, SessionOps
  <2> QED
    BY <1>3, <2>1, <2>2, <2>3, StartKeepsInv DEF Activate
<1>4. CASE FetchNotices(c)
  <2> DEFINE new == [NoCall EXCEPT !.op = "notices", !.at = "sent"]
  <2>1. new \in Call
    BY <1>1, <1>2, <1>4, NewCall, NoCallTyped, CallsAreThreads DEF FetchNotices
  <2>2. new.at = "sent" /\ new.op = "notices" /\ new.answer = Garbage
    BY DEF NoCall
  <2>3. "notices" \in Ops \ SessionOps
    BY <1>1, <1>4 DEF FetchNotices, SessionOps
  <2> QED
    BY <1>4, <2>1, <2>2, <2>3, StartKeepsInv DEF FetchNotices
<1>5. CASE ClearSession(c)
  <2> DEFINE new == [NoCall EXCEPT !.op = "clearSession", !.at = "forgetting"]
  <2>1. new \in Call
    BY <1>1, <1>2, <1>5, NewCall, NoCallTyped, CallsAreThreads DEF ClearSession
  <2>2. new.at = "forgetting" /\ new.answer = Garbage
    BY DEF NoCall
  <2> QED
    BY <1>5, <2>1, <2>2, StartKeepsInv DEF ClearSession
<1>6. ASSUME NEW op \in Ops, Load(c, op)
      PROVE  ClientInv'
  <2> DEFINE loaded == [NoCall EXCEPT !.op = op, !.at = "loaded", !.token = prefs.token]
             failed == [NoCall EXCEPT !.op = op, !.at = "cancelling"]
             done == [NoCall EXCEPT !.at = "done"]
             new == IF prefs.token # None THEN loaded
                    ELSE IF op = "lease" THEN failed ELSE done
  <2>1. prefs.token \in Nonces \cup {None}
    BY DEF ClientInv, ClientTypes, Prefs
  <2>2. loaded \in Call /\ failed \in Call
    BY <1>2, <2>1, NewCall, NoCallTyped, CallsAreThreads
  <2>3. done \in Call
    BY NoCallTyped DEF NoCall, Call
  <2>4. /\ loaded.at = "loaded" /\ loaded.answer = Garbage /\ loaded.token = prefs.token
        /\ failed.at = "cancelling" /\ failed.answer = Garbage
        /\ done.at = "done" /\ done.answer = Garbage
    BY DEF NoCall
  <2>5. call' = [call EXCEPT ![c] = new]
    BY <1>6 DEF Load
  <2>6. UNCHANGED <<requests, prefVars, answers, serverVars, history>>
    BY <1>6 DEF Load
  <2>7. /\ new \in Call /\ new.at \notin {"sent", "validating"} /\ new.answer = Garbage
        /\ new.at = "loaded" => new.token # None
    BY <2>2, <2>3, <2>4
  <2> HIDE DEF new
  <2> QED
    BY <2>5, <2>6, <2>7, StartKeepsInv
<1> QED
  BY <1>3, <1>4, <1>5, <1>6

\* A loaded call begins its request.
LEMMA BeginsKeepInv ==
    ASSUME ClientInv, NEW c \in Threads, UNCHANGED plan, Begin(c) \/ BeginLease(c)
    PROVE  ClientInv' /\ Moves(c)
<1>1. /\ call[c].at = "loaded" /\ call[c].op \in SessionOps
      /\ UNCHANGED <<prefVars, answers, serverVars, history>>
      /\ \/ Goto(c, "sent") /\ Send(c, call[c].op)
         \/ Fail(c) /\ UNCHANGED requests
  BY DEF Begin, BeginLease, At, SessionOps
<1>2. call[c].op \in Ops /\ call[c].token # None
  BY <1>1 DEF ClientInv, ClientTypes, CallOK, Call, SessionOps
<1>3. call \in [Threads -> Call]
  BY DEF ClientInv, ClientTypes
<1>4. Moves(c)
  BY <1>1, <1>3, GotoMoves, FailMoves DEF Places
<1>5. \A d \in Threads : CallOK(d)'
  BY <1>1, <1>4, MovesKeepCalls
<1>6. /\ requests' \in SUBSET [from : Threads, op : Ops, token : Nonces \cup {None}]
      /\ \A r \in requests' : r.op \in SessionOps => r.token # None
  BY <1>1, <1>2, SendKeepsRequests DEF ClientInv, ClientTypes, ServerOK
<1> QED
  BY <1>1, <1>4, <1>5, <1>6
  DEF ClientInv, ClientTypes, ServerOK, Watermarks, Moves, serverVars, prefVars, history

\* An answer reaches a call.
LEMMA ReceiveKeepsInv ==
    ASSUME ClientInv, NEW c \in Threads, UNCHANGED plan,
           \/ \E a \in answers \cup {Garbage} : Deliver(c, a)
           \/ \E a \in answers : NoticeArrives(c, a) /\ ~Rollback(a)
    PROVE  ClientInv'
<1>1. PICK a \in answers \cup {Garbage}, at \in {"validating", "saving"} :
          /\ call' = [call EXCEPT ![c] = [@ EXCEPT !.at = at, !.answer = a]]
          /\ at = "validating" => a = Garbage \/ a.code = "ok"
  <2>1. ASSUME NEW b \in answers \cup {Garbage}, Deliver(c, b)
        PROVE  /\ call' = [call EXCEPT ![c] = [@ EXCEPT !.at = "validating", !.answer = b]]
               /\ b = Garbage \/ b.code = "ok"
    BY <2>1 DEF Deliver
  <2>2. ASSUME NEW b \in answers, NoticeArrives(c, b), ~Rollback(b)
        PROVE  call' = [call EXCEPT ![c] = [@ EXCEPT !.at = "saving", !.answer = b]]
    BY <2>2 DEF NoticeArrives
  <2> QED
    BY <2>1, <2>2
<1>2. UNCHANGED <<prefVars, requests, answers, serverVars, history>>
  BY DEF Deliver, NoticeArrives
<1>3. a \in Answer /\ Garbage.code = "ok"
  BY NoCallTyped DEF ClientInv, ClientTypes, Garbage
<1> DEFINE new == [call[c] EXCEPT !.at = at, !.answer = a]
<1>4. call[c] \in Call
  BY DEF ClientInv, ClientTypes
<1>5. new \in Call /\ new.at = at /\ new.answer = a
  BY <1>3, <1>4 DEF Call
<1>6. call' = [call EXCEPT ![c] = new]
  BY <1>1
<1> HIDE DEF new
<1>7. call' \in [Threads -> Call] /\ \A d \in Threads : CallOK(d)'
  BY <1>1, <1>2, <1>3, <1>5, <1>6 DEF ClientInv, ClientTypes, CallOK
<1> QED
  BY <1>2, <1>7
  DEF ClientInv, ClientTypes, ServerOK, Watermarks, serverVars, prefVars, history

\* What the server answers.
LEMMA ReplyKeepsAnswers ==
    ASSUME ClientInv, now \in Nat, NEW r \in requests, NEW b \in Bindings \cup {None},
           NEW code \in {"ok", "SESSION_EXPIRED"}, Reply(r, code, b),
           code = "ok" /\ r.op \in SessionOps \cup {"activate"} => b # None
    PROVE  /\ answers \subseteq answers' /\ answers' \in SUBSET Answer
           /\ \A a \in answers' :
                 /\ a.code = "ok" /\ a.op \in SessionOps \cup {"activate"} => a.binding # None
                 /\ a.sequence <= sequence
<1> DEFINE expires == IF r.op = "lease" /\ code = "ok" THEN now + LeaseTtl ELSE 0
           noticed == IF r.op = "notices" THEN NoticeSequence ELSE 0
           new == [to |-> r.from, op |-> r.op, code |-> code, binding |-> b,
                   expires |-> expires, sequence |-> noticed]
<1>1. r.from \in Nonces /\ r.op \in Ops
  BY CallsAreThreads DEF ClientInv, ClientTypes
<1>2. expires \in Nat
  BY ClientLimits
<1>3. noticed \in Nat /\ noticed <= sequence
  BY ClientLimits DEF ClientInv, ClientTypes, NoticeSequence
<1>4. answers' = answers \cup {new}
  BY DEF Reply
<1> HIDE DEF expires, noticed
<1>5. new \in Answer
  BY <1>1, <1>2, <1>3 DEF Answer
<1>6. new.op = r.op /\ new.code = code /\ new.binding = b /\ new.sequence = noticed
  OBVIOUS
<1> HIDE DEF new
<1> QED
  BY <1>3, <1>4, <1>5, <1>6 DEF ClientInv, ClientTypes, ServerOK, Watermarks

LEMMA BoundTyped == ClientInv => Bound \cup NewBinding \subseteq Bindings
BY DEF ClientInv, ClientTypes, Bound, NewBinding

LEMMA ServeKeepsInv ==
    ASSUME ClientInv, now \in Nat, NEW r \in requests, Serve(r), UNCHANGED plan
    PROVE  ClientInv'
<1>1. r.from \in Nonces /\ r.token \in Nonces \cup {None}
  BY CallsAreThreads DEF ClientInv, ClientTypes
<1>2. PICK code \in {"ok", "SESSION_EXPIRED"}, b \in Bindings \cup {None} :
          /\ Reply(r, code, b)
          /\ code = "ok" /\ r.op \in SessionOps \cup {"activate"} => b # None
          /\ sessions' \in [Nonces -> Bindings \cup {None}]
  <2>1. CASE ServeActivate(r)
    <3>1. PICK b \in Bindings : Reply(r, "ok", b) /\ sessions' = [sessions EXCEPT ![r.from] = b]
      BY <2>1, BoundTyped DEF ServeActivate
    <3> QED
      BY <1>1, <3>1, NativeNone DEF ClientInv, ClientTypes
  <2>2. CASE ServeSession(r)
    <3>1. r.token \in Nonces
      BY <1>1, <2>2 DEF ServeSession, SessionOps, ClientInv, ServerOK
    <3>2. sessions' \in [Nonces -> Bindings \cup {None}]
      BY <2>2 DEF ServeSession, WithoutBinding, ClientInv, ClientTypes
    <3>3. sessions[r.token] \in Bindings \cup {None}
      BY <3>1 DEF ClientInv, ClientTypes
    <3> QED
      BY <2>2, <3>2, <3>3 DEF ServeSession
  <2>3. CASE ServeNotice(r)
    BY <2>3 DEF ServeNotice, SessionOps, ClientInv, ClientTypes
  <2> QED
    BY <2>1, <2>2, <2>3 DEF Serve
<1>3. /\ answers \subseteq answers' /\ answers' \in SUBSET Answer
      /\ \A a \in answers' :
            /\ a.code = "ok" /\ a.op \in SessionOps \cup {"activate"} => a.binding # None
            /\ a.sequence <= sequence
  BY <1>2, ReplyKeepsAnswers
<1>4. /\ requests' \subseteq requests
      /\ UNCHANGED <<call, prefVars, announcements, sequence, history>>
  BY DEF Serve
<1>5. \A d \in Threads : CallOK(d)'
  BY <1>3, <1>4 DEF ClientInv, CallOK
<1> QED
  BY <1>2, <1>3, <1>4, <1>5
  DEF ClientInv, ClientTypes, ServerOK, Watermarks, prefVars, history

\* Announcements come and go, sessions end, and time passes.
LEMMA OutsideKeepsInv ==
    ASSUME ClientInv, UNCHANGED plan,
           \/ CreateAnnouncement \/ TimePasses
           \/ \E a \in announcements : ShowOrHide(a) \/ DeleteAnnouncement(a)
           \/ \E b \in Bound : Revoke(b)
    PROVE  ClientInv'
<1>1. UNCHANGED <<call, prefs, disk, requests, answers, grant, revoked>>
  BY DEF CreateAnnouncement, TimePasses, ShowOrHide, DeleteAnnouncement, Revoke, prefVars,
         history
<1>2. sequence \in Nat /\ sequence <= MaxSequence /\ MaxSequence \in Nat
  BY ClientLimits DEF ClientInv, ClientTypes
<1>3. sequence' \in 0..MaxSequence /\ sequence <= sequence'
  BY <1>2 DEF CreateAnnouncement, TimePasses, ShowOrHide, DeleteAnnouncement, Revoke,
              serverVars
<1>4. announcements' \in SUBSET [sequence : 1..MaxSequence, shown : BOOLEAN]
  <2>1. announcements \in SUBSET [sequence : 1..MaxSequence, shown : BOOLEAN]
    BY DEF ClientInv, ClientTypes
  <2>2. CASE CreateAnnouncement
    <3>1. sequence + 1 \in 1..MaxSequence
      BY <1>2, <2>2 DEF CreateAnnouncement
    <3>2. [sequence |-> sequence + 1, shown |-> FALSE]
              \in [sequence : 1..MaxSequence, shown : BOOLEAN]
      BY <3>1
    <3>3. announcements' = announcements \cup {[sequence |-> sequence + 1, shown |-> FALSE]}
      BY <2>2 DEF CreateAnnouncement
    <3> QED
      BY <2>1, <3>2, <3>3
  <2>3. ASSUME NEW a \in announcements, ShowOrHide(a)
        PROVE  announcements' \in SUBSET [sequence : 1..MaxSequence, shown : BOOLEAN]
    BY <2>1, <2>3 DEF ShowOrHide
  <2>4. CASE announcements' \subseteq announcements
    BY <2>1, <2>4
  <2> QED
    BY <2>2, <2>3, <2>4 DEF TimePasses, DeleteAnnouncement, Revoke, serverVars
<1>5. sessions' \in [Nonces -> Bindings \cup {None}]
  BY DEF ClientInv, ClientTypes, CreateAnnouncement, TimePasses, ShowOrHide,
         DeleteAnnouncement, Revoke, WithoutBinding, serverVars
<1>6. Watermarks'
  <2>1. \A p \in disk \cup {prefs} : p.watermark \in Nat
    BY ClientLimits DEF ClientInv, ClientTypes, Prefs
  <2>2. \A a \in answers : a.sequence \in Nat
    BY DEF ClientInv, ClientTypes, Answer
  <2>3. sequence' \in Nat
    BY <1>2, <1>3
  <2> QED
    BY <1>1, <1>2, <1>3, <2>1, <2>2, <2>3 DEF ClientInv, Watermarks
<1> QED
  BY <1>1, <1>3, <1>4, <1>5, <1>6 DEF ClientInv, ClientTypes, ServerOK, CallOK

\* The process starts again from some version of the preferences that reached the disk.
LEMMA RestartKeepsInv ==
    ASSUME ClientInv, UNCHANGED plan, ProcessRestart
    PROVE  ClientInv'
<1> DEFINE done == [NoCall EXCEPT !.at = "done"]
<1>1. done \in Call /\ done.at = "done" /\ done.answer = Garbage
  BY NoCallTyped DEF NoCall, Call
<1>2. \A c \in Threads : call'[c] = IF call[c].at = "idle" THEN call[c] ELSE done
  BY DEF ProcessRestart
<1>3. call' = [c \in Threads |-> IF call[c].at = "idle" THEN call[c] ELSE done]
  BY DEF ProcessRestart
<1> HIDE DEF done
<1>4. call' \in [Threads -> Call]
  BY <1>1, <1>3 DEF ClientInv, ClientTypes
<1>5. UNCHANGED <<requests, answers, sessions, announcements, sequence>>
  BY DEF ProcessRestart, serverVars
<1>6. \A c \in Threads : CallOK(c)'
  BY <1>1, <1>2, <1>5 DEF ClientInv, CallOK
<1>7. prefs' \in disk /\ disk' = {prefs'} /\ grant' = None /\ revoked' = {}
  BY DEF ProcessRestart
<1> QED
  BY <1>4, <1>5, <1>6, <1>7 DEF ClientInv, ClientTypes, ServerOK, Watermarks

\* A verdict is on an answer of the server to a request of the same kind.
LEMMA VerdictAnswer ==
    ASSUME ClientInv, NEW c \in Threads, NEW op \in SessionOps \cup {"activate"},
           Validating(c, op), Verdict(c)
    PROVE  /\ call[c].answer \in answers
           /\ call[c].answer.op = op
           /\ call[c].answer.to = local[c].request.nonce
           /\ call[c].answer.binding \in Bindings
<1>1. call[c].answer.op = op /\ call[c].answer.to = local[c].request.nonce
  BY DEF Validating, Verdict, At
<1>2. call[c].answer # Garbage
  BY <1>1 DEF Garbage, SessionOps
<1>3. call[c].answer \in answers /\ call[c].answer.code = "ok"
  BY <1>2 DEF ClientInv, CallOK, Validating, At
<1> QED
  BY <1>1, <1>3 DEF ClientInv, ClientTypes, ServerOK, Answer

\* The steps of a call that leave the preferences and the server alone.
LEMMA QuietStepsKeepInv ==
    ASSUME ClientInv, NEW c \in Threads, UNCHANGED plan,
           \/ NetworkError(c) \/ Refused(c) \/ Invalid(c) \/ AnswerStale(c)
           \/ \E a \in answers : NoticeArrives(c, a) /\ Rollback(a)
           \/ Activated(c) \/ Verified(c) \/ Unbound(c) \/ ClearNative(c)
           \/ AdmitLease(c) \/ LeaseMismatch(c) \/ LeaseStored(c)
           \/ LeaseReturned(c) \/ LeaseAbandoned(c) \/ Cancel(c) \/ Wipe(c) \/ Decrypt(c)
    PROVE  ClientInv' /\ (Moves(c) \/ UNCHANGED call)
<1>1. call \in [Threads -> Call] /\ call[c] \in Call
  BY DEF ClientInv, ClientTypes
<1>2. UNCHANGED <<prefVars, requests, answers, serverVars>>
  BY DEF NetworkError, Refused, Invalid, AnswerStale, NoticeArrives, Activated, Verified,
         Unbound, ClearNative, AdmitLease, LeaseMismatch, LeaseStored, LeaseReturned,
         LeaseAbandoned, Cancel, Wipe, Decrypt
<1>3. revoked' \in SUBSET Nonces
  BY BegunTyped
  DEF ClientInv, ClientTypes, history, NetworkError, Refused, Invalid, AnswerStale,
      NoticeArrives, Activated, Verified, Unbound, ClearNative, AdmitLease, LeaseMismatch,
      LeaseStored, LeaseReturned, LeaseAbandoned, Cancel, Wipe, Decrypt
<1>4. grant' \in Nonces \cup {None}
  <2>1. grant' \in {grant, call[c].answer.to}
    BY DEF history, NetworkError, Refused, Invalid, AnswerStale, NoticeArrives, Activated,
           Verified, Unbound, ClearNative, AdmitLease, LeaseMismatch, LeaseStored,
           LeaseReturned, LeaseAbandoned, Cancel, Wipe, Decrypt
  <2>2. grant \in Nonces \cup {None} /\ call[c].answer.to \in Nonces \cup {None}
    BY <1>1 DEF ClientInv, ClientTypes, Call, Answer
  <2> QED
    BY <2>1, <2>2
<1>5. \/ Moves(c)
      \/ UNCHANGED call
  <2>1. CASE Fail(c) \/ FailAndForget(c)
    BY <1>1, <2>1, FailMoves
  <2>2. CASE \E at \in Places \ {"idle", "loaded", "sent", "validating"} : Goto(c, at)
    BY <1>1, <2>2, GotoMoves
  <2>3. CASE CancelThen(c, "wiping")
    BY <1>1, <2>3, CancelMoves
  <2>4. \/ Fail(c) \/ FailAndForget(c)
        \/ \E at \in Places \ {"idle", "loaded", "sent", "validating"} : Goto(c, at)
        \/ CancelThen(c, "wiping")
        \/ UNCHANGED call
    <3>1. call[c].then \in Places \ {"idle", "loaded", "sent", "validating"}
      BY <1>1 DEF Call, Places
    <3>2. {"done", "saving", "dropping", "forgetting", "returning", "holding"}
              \subseteq Places \ {"idle", "loaded", "sent", "validating"}
      BY DEF Places
    <3> QED
      BY <3>1, <3>2
      DEF NetworkError, Refused, Invalid, AnswerStale, NoticeArrives, Activated,
          Verified, Unbound, ClearNative, AdmitLease, LeaseMismatch, LeaseStored,
          LeaseReturned, LeaseAbandoned, Cancel, Wipe, Decrypt
  <2> QED
    BY <2>1, <2>2, <2>3, <2>4
<1>6. CASE Moves(c)
  BY <1>2, <1>3, <1>4, <1>6, QuietKeepsInv
<1>7. CASE UNCHANGED call
  BY <1>2, <1>3, <1>4, <1>7
  DEF ClientInv, ClientTypes, ServerOK, Watermarks, CallOK, serverVars, prefVars
<1> QED
  BY <1>5, <1>6, <1>7

\* The steps that write the preferences.
LEMMA SavesKeepInv ==
    ASSUME ClientInv, NEW c \in Threads, UNCHANGED plan,
           SaveToken(c) \/ DropToken(c) \/ Forget(c) \/ SaveWatermark(c)
    PROVE  ClientInv' /\ Moves(c)
<1>1. call \in [Threads -> Call] /\ call[c] \in Call
  BY DEF ClientInv, ClientTypes
<1>2. UNCHANGED <<requests, answers, serverVars, history>>
  BY DEF SaveToken, DropToken, Forget, SaveWatermark
<1>3. Moves(c)
  <2>1. Goto(c, "done") \/ Goto(c, "clearing")
    BY DEF SaveToken, DropToken, Forget, SaveWatermark
  <2> QED
    BY <1>1, <2>1, GotoMoves DEF Places
<1>4. \/ \E token \in Nonces \cup {None} : Save("token", token)
      \/ \E watermark \in 0..sequence : Save("watermark", watermark)
  <2>1. CASE SaveToken(c)
    <3>1. call[c].answer.to \in Nonces \cup {None}
      BY <1>1 DEF Call, Answer
    <3> QED
      BY <2>1, <3>1 DEF SaveToken
  <2>2. CASE DropToken(c) \/ Forget(c)
    BY <2>2 DEF DropToken, Forget
  <2>3. CASE SaveWatermark(c)
    <3>1. sequence \in Nat /\ prefs.watermark \in Nat /\ prefs.watermark <= sequence
      BY ClientLimits DEF ClientInv, ClientTypes, Watermarks, Prefs
    <3>2. call[c].answer.sequence \in Nat /\ call[c].answer.sequence <= sequence
      <4>1. call[c].answer \in Answer
        BY <1>1 DEF Call
      <4>2. CASE call[c].answer = Garbage
        BY <3>1, <4>2 DEF Garbage
      <4>3. CASE call[c].answer \in answers
        BY <4>1, <4>3 DEF ClientInv, Watermarks, Answer
      <4> QED
        BY <4>2, <4>3 DEF ClientInv, CallOK
    <3> DEFINE mark == IF call[c].answer.sequence > prefs.watermark
                       THEN call[c].answer.sequence ELSE prefs.watermark
    <3>3. mark \in 0..sequence
      BY <3>1, <3>2
    <3>4. Save("watermark", mark)
      BY <2>3 DEF SaveWatermark
    <3> QED
      BY <3>3, <3>4
  <2> QED
    BY <2>1, <2>2, <2>3
<1> QED
  BY <1>2, <1>3, <1>4, SaveKeepsInv

LEMMA ClientInitial == Init => ClientInv
<1> SUFFICES ASSUME Init
             PROVE  ClientInv
  OBVIOUS
<1>1. call \in [Threads -> Call] /\ \A c \in Threads : call[c] = NoCall
  BY NoCallTyped DEF Init
<1>2. \A c \in Threads : CallOK(c)
  BY <1>1 DEF CallOK, NoCall
<1>3. [token |-> None, watermark |-> 0] \in Prefs
  BY ClientLimits DEF Prefs
<1> QED
  BY <1>1, <1>2, <1>3, ClientLimits DEF Init, ClientInv, ClientTypes, ServerOK, Watermarks

LEMMA ClientKeepsInv ==
    ASSUME ClientInv, now \in Nat, [Next]_vars
    PROVE  ClientInv'
<1>1. CASE UNCHANGED vars
  BY <1>1 DEF vars, prefVars, serverVars, history, ClientInv, ClientTypes, ServerOK,
              Watermarks, CallOK
<1>2. ASSUME NEW c \in Threads, ClientStep(c), UNCHANGED plan
      PROVE  ClientInv'
  <2>1. CASE \/ Activate(c) \/ FetchNotices(c) \/ ClearSession(c)
             \/ \E op \in Ops : Load(c, op)
    BY <1>2, <2>1, StartsKeepInv
  <2>2. CASE Begin(c) \/ BeginLease(c)
    BY <1>2, <2>2, BeginsKeepInv
  <2>3. CASE \/ \E a \in answers \cup {Garbage} : Deliver(c, a)
             \/ \E a \in answers : NoticeArrives(c, a) /\ ~Rollback(a)
    BY <1>2, <2>3, ReceiveKeepsInv
  <2>4. CASE SaveToken(c) \/ DropToken(c) \/ Forget(c) \/ SaveWatermark(c)
    BY <1>2, <2>4, SavesKeepInv
  <2>5. CASE \/ NetworkError(c) \/ Refused(c) \/ Invalid(c) \/ AnswerStale(c)
             \/ \E a \in answers : NoticeArrives(c, a) /\ Rollback(a)
             \/ Activated(c) \/ Verified(c) \/ Unbound(c) \/ ClearNative(c)
             \/ AdmitLease(c) \/ LeaseMismatch(c) \/ LeaseStored(c)
             \/ LeaseReturned(c) \/ LeaseAbandoned(c) \/ Cancel(c) \/ Wipe(c) \/ Decrypt(c)
    BY <1>2, <2>5, QuietStepsKeepInv
  <2> QED
    BY <1>2, <2>1, <2>2, <2>3, <2>4, <2>5 DEF ClientStep
<1>3. ASSUME NEW r \in requests, Serve(r), UNCHANGED plan
      PROVE  ClientInv'
  BY <1>3, ServeKeepsInv
<1>4. CASE /\ UNCHANGED plan
           /\ \/ CreateAnnouncement \/ TimePasses
              \/ \E a \in announcements : ShowOrHide(a) \/ DeleteAnnouncement(a)
              \/ \E b \in Bound : Revoke(b)
  BY <1>4, OutsideKeepsInv
<1>5. CASE UNCHANGED plan /\ ProcessRestart
  BY <1>5, RestartKeepsInv
<1> QED
  BY <1>1, <1>2, <1>3, <1>4, <1>5 DEF Next, Step

-----------------------------------------------------------------------------
(***************************************************************************)
(* Every step of the client is one of its native runtime, or leaves native *)
(* state alone.                                                            *)
(***************************************************************************)
LEMMA CallsAreNative ==
    ASSUME NativeInv, ClientInv, NEW c \in Threads, ClientStep(c)
    PROVE  [NativeNext]_nativeVars
<1>1. c \in Nonces /\ call[c] \in Call /\ call[c].answer \in Answer
  BY CallsAreThreads DEF ClientInv, ClientTypes, Call
<1>2. CASE \/ \E op \in Ops : Load(c, op)
           \/ FetchNotices(c) \/ ClearSession(c) \/ NetworkError(c) \/ Refused(c)
           \/ \E a \in answers : NoticeArrives(c, a)
           \/ SaveToken(c) \/ DropToken(c) \/ Forget(c) \/ SaveWatermark(c)
           \/ LeaseReturned(c) \/ LeaseAbandoned(c)
  BY <1>2 DEF Load, FetchNotices, ClearSession, NetworkError, Refused, NoticeArrives,
              SaveToken, DropToken, Forget, SaveWatermark, LeaseReturned, LeaseAbandoned
<1>3. CASE Activate(c) \/ Begin(c)
  <2>1. \E kind \in Kinds : BeginRequest(kind, c)
    BY <1>3 DEF Activate, Begin, KindOf, Kinds
  <2> QED
    BY <1>1, <2>1 DEF NativeNext
<1>4. CASE BeginLease(c)
  BY <1>1, <1>4 DEF BeginLease, NativeNext
<1>5. ASSUME NEW a \in answers \cup {Garbage}, Deliver(c, a)
      PROVE  [NativeNext]_nativeVars
  <2>1. call[c].op \in SessionOps \cup {"activate"}
    BY <1>5 DEF Deliver, ClientInv, CallOK
  <2>2. KindOf(call[c].op) \in Kinds
    BY <2>1 DEF KindOf, Kinds, SessionOps
  <2>3. Consume(c, KindOf(call[c].op))
    BY <1>5 DEF Deliver
  <2> QED
    BY <2>2, <2>3 DEF NativeNext
<1>6. CASE Invalid(c) \/ AnswerStale(c) \/ LeaseMismatch(c)
  <2>1. Reject(c) \/ AcceptStale(c)
    BY <1>6 DEF Invalid, AnswerStale, LeaseMismatch
  <2> QED
    BY <2>1 DEF NativeNext
<1>7. CASE Activated(c) \/ Verified(c) \/ Unbound(c)
  <2>1. call[c].answer.binding \in Bindings
    BY <1>7, VerdictAnswer
    DEF Activated, Verified, Unbound, Accepting, SessionOps
  <2>2. \/ AcceptUnbind(c, call[c].answer.binding)
        \/ \E ttl \in AuthorizationTtls :
              \/ AcceptActivation(c, call[c].answer.binding, ttl)
              \/ AcceptVerification(c, call[c].answer.binding, ttl)
    BY <1>7 DEF Activated, Verified, Unbound
  <2> QED
    BY <2>1, <2>2 DEF NativeNext
<1>8. CASE ClearNative(c) \/ Cancel(c)
  BY <1>8 DEF ClearNative, Cancel, NativeNext
<1>9. CASE AdmitLease(c)
  <2>1. call[c].answer.expires \in Nat
    BY <1>1 DEF Answer
  <2>2. Snapshot(c, call[c].answer.expires) \/ SnapshotFails(c)
    BY <1>9 DEF AdmitLease
  <2> QED
    BY <2>1, <2>2 DEF NativeNext
<1>10. CASE LeaseStored(c)
  <2>1. StoreLease(c) \/ StoreRefused(c) \/ StoreStale(c)
    BY <1>10 DEF LeaseStored
  <2> QED
    BY <2>1 DEF NativeNext
<1>11. CASE Wipe(c) \/ Decrypt(c)
  <2>1. call[c].answer.to \in Nonces \cup {None}
    BY <1>1 DEF Answer
  <2>2. DecryptLease(call[c].answer.to) \/ ReleaseLease(call[c].answer.to)
    BY <1>11 DEF Wipe, Decrypt
  <2> QED
    BY <2>1, <2>2 DEF NativeNext
<1> QED
  BY <1>2, <1>3, <1>4, <1>5, <1>6, <1>7, <1>8, <1>9, <1>10, <1>11 DEF ClientStep

LEMMA StepsAreNative == NativeInv /\ ClientInv /\ [Next]_vars => [NativeNext]_nativeVars
<1> SUFFICES ASSUME NativeInv, ClientInv, [Next]_vars
             PROVE  [NativeNext]_nativeVars
  OBVIOUS
<1>1. CASE UNCHANGED nativeVars
  BY <1>1
<1>2. ASSUME NEW c \in Threads, ClientStep(c)
      PROVE  [NativeNext]_nativeVars
  BY <1>2, CallsAreNative
<1>3. CASE ProcessRestart \/ TimePasses
  BY <1>3 DEF ProcessRestart, TimePasses, NativeNext
<1>4. CASE UNCHANGED vars
  BY <1>4 DEF vars
<1> QED
  BY <1>1, <1>2, <1>3, <1>4
  DEF Next, Step, Serve, CreateAnnouncement, ShowOrHide, DeleteAnnouncement, Revoke

ClientSafe == NativeInv /\ ClientInv

LEMMA ClientSafeInitial == Init => ClientSafe
BY ClientInitial, NativeInitial DEF Init, ClientSafe

LEMMA ClientSafeStep == ClientSafe /\ [Next]_vars => ClientSafe'
<1> SUFFICES ASSUME ClientSafe, [Next]_vars
             PROVE  ClientSafe'
  OBVIOUS
<1>1. now \in Nat
  BY NativeLimits DEF ClientSafe, NativeInv, NativeTypeOK
<1>2. NativeInv'
  BY StepsAreNative, NativeStep DEF ClientSafe
<1>3. ClientInv'
  BY <1>1, ClientKeepsInv DEF ClientSafe
<1> QED
  BY <1>2, <1>3 DEF ClientSafe

\* The composition of the client and its native code refines the native code alone: whatever
\* coroutines, answers and restarts do, native_runtime.cpp sees only calls it allows for.
THEOREM ClientRunsNative == Spec => NativeSpec
<1>1. Init => NativeInit
  BY DEF Init
<1>2. ClientSafe /\ [Next]_vars => [NativeNext]_nativeVars
  BY StepsAreNative DEF ClientSafe
<1> QED
  BY <1>1, <1>2, ClientSafeInitial, ClientSafeStep, PTL DEF Spec, NativeSpec

\* Every variable of the client, its native code and the server keeps its type.
THEOREM ClientTyped == Spec => []TypeOK
<1>1. ClientSafe => TypeOK
  BY DEF ClientSafe, NativeInv, ClientInv, ClientTypes, TypeOK
<1> QED
  BY <1>1, ClientSafeInitial, ClientSafeStep, PTL DEF Spec

\* However calls of the application interleave, late and repeated answers included, native
\* code holds no content key of another binding or an earlier epoch.
THEOREM ClientLeasesCurrent == Spec => []LeasesBelongToAuthorization
BY ClientRunsNative, NativeLeasesCurrent, PTL

\* Concurrent notice calls, lost writes of the preferences and deleted announcements never
\* leave a client with a watermark above what the server signs
\* (SessionStore.saveNoticeSequence, AnnouncementService.publicNotice).
THEOREM NoRollback == Spec => []NoHonestRollback
<1>1. ClientSafe => NoHonestRollback
  BY DEF ClientSafe, ClientInv, Watermarks, NoHonestRollback, NoticeSequence
<1> QED
  BY <1>1, ClientSafeInitial, ClientSafeStep, PTL DEF Spec
-----------------------------------------------------------------------------
(***************************************************************************)
(* Late answers.  Every pending request is of the current epoch and was    *)
(* begun after the last revocation; a validation in progress may be of an  *)
(* older epoch, and is then turned away where it would grant something.    *)
(***************************************************************************)
PendingLive ==
    \A k \in Kinds :
        /\ pending[k].epoch <= epoch
        /\ pending[k].nonce # None =>
              pending[k].epoch = epoch /\ pending[k].nonce \notin revoked

\* A thread validates only while its call does; an admitted lease ends with the answer.
Validations ==
    \A t \in Threads : local[t].phase # "none" =>
        /\ call[t].at = "validating"
        /\ local[t].phase = "admitted" => local[t].expires <= call[t].answer.expires

ValidationsLive ==
    \A t \in Threads : local[t].phase # "none" =>
        /\ local[t].request.epoch <= epoch
        /\ local[t].request.nonce # None /\ local[t].request.epoch = epoch =>
              local[t].request.nonce \notin revoked

LiveInv ==
    /\ Validations
    /\ revoked \subseteq Begun
    /\ PendingLive
    /\ ValidationsLive
    /\ OnlyLiveRequestsGrant

\* A step of one call changes no other call, and no call goes back to its beginning.
LEMMA CallFrame ==
    ASSUME ClientInv, NEW c \in Threads, ClientStep(c), UNCHANGED plan
    PROVE  /\ \A d \in Threads \ {c} : call'[d] = call[d]
           /\ Begun \subseteq Begun'
<1>1. call \in [Threads -> Call]
  BY DEF ClientInv, ClientTypes
<1>2. CASE \/ Activate(c) \/ FetchNotices(c) \/ ClearSession(c)
           \/ \E op \in Ops : Load(c, op)
  <2>1. call[c].at = "idle" /\ \A d \in Threads \ {c} : call'[d] = call[d]
    BY <1>1, <1>2 DEF Activate, FetchNotices, ClearSession, Load
  <2> QED
    BY <2>1 DEF Begun
<1>3. CASE \/ \E a \in answers \cup {Garbage} : Deliver(c, a)
           \/ \E a \in answers : NoticeArrives(c, a) /\ ~Rollback(a)
  <2>1. PICK a \in answers \cup {Garbage}, at \in {"validating", "saving"} :
            call' = [call EXCEPT ![c] = [@ EXCEPT !.at = at, !.answer = a]]
    <3>1. ASSUME NEW b \in answers \cup {Garbage}, Deliver(c, b)
          PROVE  call' = [call EXCEPT ![c] = [@ EXCEPT !.at = "validating", !.answer = b]]
      BY <3>1 DEF Deliver
    <3>2. ASSUME NEW b \in answers, NoticeArrives(c, b), ~Rollback(b)
          PROVE  call' = [call EXCEPT ![c] = [@ EXCEPT !.at = "saving", !.answer = b]]
      BY <3>2 DEF NoticeArrives
    <3> QED
      BY <1>3, <3>1, <3>2
  <2> DEFINE new == [call[c] EXCEPT !.at = at, !.answer = a]
  <2>2. call' = [call EXCEPT ![c] = new]
    BY <2>1
  <2>3. new.at = at
    BY <1>1 DEF Call
  <2> HIDE DEF new
  <2> QED
    BY <1>1, <2>2, <2>3 DEF Begun
<1>4. CASE Moves(c) \/ UNCHANGED call
  BY <1>4 DEF Moves, Begun
<1>5. \/ Activate(c) \/ FetchNotices(c) \/ ClearSession(c) \/ \E op \in Ops : Load(c, op)
      \/ \E a \in answers \cup {Garbage} : Deliver(c, a)
      \/ \E a \in answers : NoticeArrives(c, a) /\ ~Rollback(a)
      \/ Begin(c) \/ BeginLease(c)
      \/ SaveToken(c) \/ DropToken(c) \/ Forget(c) \/ SaveWatermark(c)
      \/ NetworkError(c) \/ Refused(c) \/ Invalid(c) \/ AnswerStale(c)
      \/ \E a \in answers : NoticeArrives(c, a) /\ Rollback(a)
      \/ Activated(c) \/ Verified(c) \/ Unbound(c) \/ ClearNative(c)
      \/ AdmitLease(c) \/ LeaseMismatch(c) \/ LeaseStored(c)
      \/ LeaseReturned(c) \/ LeaseAbandoned(c) \/ Cancel(c) \/ Wipe(c) \/ Decrypt(c)
  BY DEF ClientStep
<1> QED
  BY <1>2, <1>3, <1>4, <1>5, BeginsKeepInv, SavesKeepInv, QuietStepsKeepInv

LEMMA AnswersFrame == \A c \in Threads : ClientStep(c) => UNCHANGED answers
BY ZenonT(60) DEF ClientStep, Activate, Load, Begin, BeginLease, FetchNotices, ClearSession,
       NetworkError, Refused, Deliver, NoticeArrives, Invalid, AnswerStale, Activated,
       Verified, Unbound, SaveToken, DropToken, Forget, ClearNative, AdmitLease,
       LeaseMismatch, LeaseStored, LeaseReturned, LeaseAbandoned, Cancel, Wipe, Decrypt,
       SaveWatermark

\* A validation begins with an answer, goes on with a snapshot, and otherwise is over.
LEMMA ValidationFrame ==
    ASSUME ClientSafe, Validations, NEW c \in Threads, ClientStep(c)
    PROVE  /\ \A d \in Threads \ {c} : local'[d] = local[d]
           /\ \/ local'[c].phase = "none"
              \/ \E a \in answers \cup {Garbage} : Deliver(c, a)
              \/ Snapshot(c, call[c].answer.expires) /\ UNCHANGED <<call, history>>
<1>1. local \in [Threads -> Local]
  BY DEF ClientSafe, NativeInv, NativeTypeOK
<1>2. CASE Return(c)
  BY <1>1, <1>2 DEF Return, Nowhere
<1>3. CASE UNCHANGED local /\ call[c].at # "validating"
  BY <1>3 DEF Validations
<1>4. CASE \E a \in answers \cup {Garbage} : Deliver(c, a)
  BY <1>1, <1>4 DEF Deliver, Consume
<1>5. CASE Snapshot(c, call[c].answer.expires) /\ UNCHANGED <<call, history>>
  BY <1>1, <1>5 DEF Snapshot
<1>6. \/ Activate(c) \/ FetchNotices(c) \/ ClearSession(c) \/ Begin(c) \/ BeginLease(c)
      \/ \E op \in Ops : Load(c, op)
      \/ \E a \in answers : NoticeArrives(c, a)
      \/ NetworkError(c) \/ Refused(c)
      \/ SaveToken(c) \/ DropToken(c) \/ Forget(c) \/ SaveWatermark(c) \/ ClearNative(c)
      \/ LeaseReturned(c) \/ LeaseAbandoned(c) \/ Cancel(c) \/ Wipe(c) \/ Decrypt(c)
      => UNCHANGED local /\ call[c].at # "validating"
  BY DEF Activate, FetchNotices, ClearSession, Begin, BeginLease, Load, NoticeArrives,
         NetworkError, Refused, SaveToken, DropToken, Forget, SaveWatermark, ClearNative,
         LeaseReturned, LeaseAbandoned, Cancel, Wipe, Decrypt, At, BeginRequest,
         BeginModelRequest, ClearAuthorizationState, CancelModelRequest, ReleaseLease,
         DecryptLease, nativeVars
<1>7. \/ Invalid(c) \/ AnswerStale(c) \/ Activated(c) \/ Verified(c) \/ Unbound(c)
      \/ LeaseMismatch(c) \/ LeaseStored(c)
      => Return(c)
  BY DEF Invalid, AnswerStale, Activated, Verified, Unbound, LeaseMismatch, LeaseStored,
         Reject, AcceptStale, AcceptActivation, AcceptVerification, AcceptUnbind,
         StoreLease, StoreRefused, StoreStale
<1>8. AdmitLease(c) => \/ Return(c)
                       \/ Snapshot(c, call[c].answer.expires) /\ UNCHANGED <<call, history>>
  BY DEF AdmitLease, SnapshotFails
<1> QED
  BY <1>2, <1>3, <1>4, <1>5, <1>6, <1>7, <1>8 DEF ClientStep
\* Call c brings nothing back: it takes away leases or pending requests, or nothing at all.
Drops ==
    /\ leases' \subseteq leases
    /\ \A k \in Kinds : pending'[k] \in {pending[k], NoRequest}
    /\ UNCHANGED <<active, epoch, history>>

Clears == ClearAuthorization /\ revoked' \in {revoked, Begun}

Begins(c) ==
    /\ call[c].at \in {"idle", "loaded"}
    /\ \A k \in Kinds :
          pending'[k] = pending[k] \/ (pending'[k].nonce = c /\ pending'[k].epoch = epoch)
    /\ UNCHANGED <<active, leases, epoch, history>>

\* What a step of a call does to what the client holds.
LEMMA StepEffects ==
    ASSUME ClientSafe, NEW c \in Threads, ClientStep(c)
    PROVE  \/ Drops \/ Clears
           \/ Begins(c) /\ (Activate(c) \/ Begin(c) \/ BeginLease(c))
           \/ Activated(c)
           \/ Verified(c) /\ SameBinding(call[c].answer.binding)
           \/ LeaseStored(c) /\ StoreLease(c)
<1>1. pending \in [Kinds -> Request] /\ Unexpired \subseteq leases
  BY DEF ClientSafe, NativeInv, NativeTypeOK, Unexpired
<1>2. /\ CancelModelRequest /\ UNCHANGED history => Drops
      /\ \A kind \in Kinds : Consume(c, kind) /\ UNCHANGED history => Drops
      /\ UNCHANGED <<state, history>> => Drops
      /\ \A h : ReleaseLease(h) /\ UNCHANGED history => Drops
      /\ \A h : DecryptLease(h) /\ UNCHANGED history => Drops \/ Clears
      /\ StoreRefused(c) /\ UNCHANGED history => Drops
  BY <1>1 DEF CancelModelRequest, Consume, ReleaseLease, DecryptLease, StoreRefused, Drops,
              Clears, state, history, Unexpired
<1>3. CASE \/ FetchNotices(c) \/ ClearSession(c) \/ NetworkError(c) \/ Refused(c)
           \/ \E op \in Ops : Load(c, op)
           \/ \E a \in answers : NoticeArrives(c, a)
           \/ SaveToken(c) \/ DropToken(c) \/ Forget(c) \/ SaveWatermark(c)
           \/ LeaseReturned(c) \/ LeaseAbandoned(c)
  BY <1>2, <1>3
  DEF FetchNotices, ClearSession, NetworkError, Refused, Load, NoticeArrives, SaveToken,
      DropToken, Forget, SaveWatermark, LeaseReturned, LeaseAbandoned, nativeVars
<1>4. CASE Activate(c) \/ Begin(c) \/ BeginLease(c)
  <2>1. call[c].at \in {"idle", "loaded"} /\ UNCHANGED history
    BY <1>4 DEF Activate, Begin, BeginLease, At
  <2>2. CASE \E kind \in Kinds : BeginRequest(kind, c)
    BY <1>1, <1>4, <2>1, <2>2 DEF BeginRequest, Begins
  <2>3. CASE BeginModelRequest(c)
    BY <1>1, <1>4, <2>1, <2>3 DEF BeginModelRequest, Begins, Clears, history
  <2>4. "activation" \in Kinds /\ KindOf("verify") \in Kinds /\ KindOf("unbind") \in Kinds
    BY DEF Kinds, KindOf
  <2> QED
    BY <1>4, <2>2, <2>3, <2>4 DEF Activate, Begin, BeginLease
<1>5. ASSUME NEW a \in answers \cup {Garbage}, Deliver(c, a)
      PROVE  Drops
  <2>1. KindOf(call[c].op) \in Kinds
    <3>1. call[c].op \in SessionOps \cup {"activate"}
      BY <1>5 DEF Deliver, ClientSafe, ClientInv, CallOK
    <3> QED
      BY <3>1 DEF KindOf, Kinds, SessionOps
  <2> QED
    BY <1>2, <1>5, <2>1 DEF Deliver
<1>6. CASE Invalid(c) \/ AnswerStale(c) \/ LeaseMismatch(c)
  <2>1. UNCHANGED history /\ (ClearAuthorization \/ UNCHANGED state)
    BY <1>6 DEF Invalid, AnswerStale, LeaseMismatch, Reject, AcceptStale
  <2> QED
    BY <1>2, <2>1 DEF Clears, history
<1>7. CASE Verified(c) /\ ~SameBinding(call[c].answer.binding)
  BY <1>7 DEF Verified, AcceptVerification, Clears
<1>8. CASE Unbound(c) \/ ClearNative(c)
  BY <1>8 DEF Unbound, AcceptUnbind, ClearNative, ClearAuthorizationState, Clears
<1>9. CASE AdmitLease(c)
  <2>1. UNCHANGED history /\ (ClearAuthorization \/ UNCHANGED state)
    BY <1>9 DEF AdmitLease, Snapshot, SnapshotFails
  <2> QED
    BY <1>2, <2>1 DEF Clears, history
<1>10. CASE LeaseStored(c) /\ ~StoreLease(c)
  BY <1>2, <1>10 DEF LeaseStored, StoreStale
<1>11. CASE Cancel(c) \/ Wipe(c) \/ Decrypt(c)
  BY <1>2, <1>11 DEF Cancel, Wipe, Decrypt
<1> QED
  BY <1>3, <1>4, <1>5, <1>6, <1>7, <1>8, <1>9, <1>10, <1>11 DEF ClientStep
\* A validation is of a live request, or of an epoch that is over.
LEMMA ValidationsStayLive ==
    ASSUME ClientSafe, LiveInv, NEW c \in Threads, ClientStep(c), UNCHANGED plan,
           \/ epoch' = epoch /\ revoked' = revoked
           \/ epoch' = epoch + 1
    PROVE  Validations' /\ ValidationsLive'
<1>1. /\ local \in [Threads -> Local] /\ call \in [Threads -> Call]
      /\ pending \in [Kinds -> Request] /\ epoch \in Nat /\ now \in Nat
      /\ call[c].answer.expires \in Nat
  BY NativeLimits
  DEF ClientSafe, ClientInv, ClientTypes, NativeInv, NativeTypeOK, Call, Answer
<1>2. \A d \in Threads : local[d].request.epoch \in Nat
  BY <1>1 DEF Local, Request
<1>3. ASSUME NEW d \in Threads, local'[d].phase # "none", d # c
      PROVE  /\ call'[d] = call[d] /\ local'[d] = local[d]
             /\ local'[d].request.epoch <= epoch'
             /\ local'[d].request.nonce # None /\ local'[d].request.epoch = epoch' =>
                    local'[d].request.nonce \notin revoked'
  <2>1. call'[d] = call[d] /\ local'[d] = local[d]
    BY <1>3, CallFrame, ValidationFrame DEF ClientSafe, LiveInv
  <2> QED
    BY <1>1, <1>2, <1>3, <2>1 DEF LiveInv, ValidationsLive
<1>4. CASE local'[c].phase = "none"
  BY <1>3, <1>4 DEF LiveInv, Validations, ValidationsLive
<1>5. ASSUME NEW a \in answers \cup {Garbage}, Deliver(c, a)
      PROVE  Validations' /\ ValidationsLive'
  <2>1. call[c].op \in SessionOps \cup {"activate"}
    BY <1>5 DEF Deliver, ClientSafe, ClientInv, CallOK
  <2>2. PICK kind \in Kinds : Consume(c, kind)
    BY <1>5, <2>1 DEF Deliver, KindOf, Kinds, SessionOps
  <2>3. local'[c].request = pending[kind] /\ local'[c].phase \in {"consumed", "rejected"}
    BY <1>1, <2>2 DEF Consume, Nowhere
  <2>4. UNCHANGED <<epoch, revoked>>
    BY <1>5, <2>2 DEF Deliver, Consume, history
  <2>5. call'[c].at = "validating"
    <3> DEFINE new == [call[c] EXCEPT !.at = "validating", !.answer = a]
    <3>1. call' = [call EXCEPT ![c] = new]
      BY <1>5 DEF Deliver
    <3>2. new.at = "validating"
      BY <1>1 DEF Call
    <3> HIDE DEF new
    <3> QED
      BY <1>1, <3>1, <3>2
  <2> QED
    BY <1>3, <2>3, <2>4, <2>5
    DEF LiveInv, Validations, ValidationsLive, PendingLive
<1>6. CASE Snapshot(c, call[c].answer.expires) /\ UNCHANGED <<call, history>>
  <2>1. /\ local[c].phase = "consumed" /\ local'[c].request = local[c].request
        /\ local'[c].expires <= call[c].answer.expires
    BY <1>1, <1>6, NativeLimits DEF Snapshot, Consumed, Local
  <2>2. UNCHANGED <<call, epoch, revoked>>
    BY <1>6 DEF Snapshot, state, history
  <2> QED
    BY <1>3, <2>1, <2>2 DEF LiveInv, Validations, ValidationsLive
<1> QED
  BY <1>4, <1>5, <1>6, ValidationFrame DEF LiveInv

\* A verdict on a current request: the answer is to that request, which is not revoked.
LEMMA VerdictGrants ==
    ASSUME ClientSafe, LiveInv, NEW c \in Threads, NEW op \in SessionOps \cup {"activate"},
           Validating(c, op), Verdict(c), Current(c),
           local[c].phase \in {"consumed", "admitted"}
    PROVE  /\ call[c].answer \in answers /\ call[c].answer.op = op
           /\ call[c].answer.binding \in Bindings
           /\ call[c].answer.to = local[c].request.nonce
           /\ call[c].answer.to # None
           /\ call[c].answer.to \notin revoked
<1>1. local[c].request.nonce # None
  BY DEF ClientSafe, NativeInv, ValidationsHaveRequests
<1> QED
  BY <1>1, VerdictAnswer DEF ClientSafe, LiveInv, ValidationsLive, Current

LEMMA DropsKeepLive ==
    ASSUME ClientSafe, LiveInv, NEW c \in Threads, ClientStep(c), UNCHANGED plan,
           Drops \/ Begins(c)
    PROVE  LiveInv'
<1>1. UNCHANGED <<epoch, revoked, grant, active>> /\ leases' \subseteq leases
  BY DEF Drops, Begins, history
<1>2. Validations' /\ ValidationsLive'
  BY <1>1, ValidationsStayLive
<1>3. UNCHANGED answers /\ Begun \subseteq Begun'
  BY AnswersFrame, CallFrame DEF ClientSafe
<1>4. PendingLive'
  <2>1. epoch \in Nat
    BY DEF ClientSafe, NativeInv, NativeTypeOK
  <2>2. CASE Drops
    BY <1>1, <2>1, <2>2 DEF Drops, LiveInv, PendingLive, NoRequest
  <2>3. CASE Begins(c)
    <3>1. c \notin revoked
      BY <2>3 DEF Begins, LiveInv, Begun
    <3> QED
      BY <1>1, <2>1, <2>3, <3>1 DEF Begins, LiveInv, PendingLive
  <2> QED
    BY <2>2, <2>3
<1>5. OnlyLiveRequestsGrant'
  BY <1>1, <1>3 DEF LiveInv, OnlyLiveRequestsGrant
<1> QED
  BY <1>1, <1>2, <1>3, <1>4, <1>5 DEF LiveInv

LEMMA ClearsKeepLive ==
    ASSUME ClientSafe, LiveInv, NEW c \in Threads, ClientStep(c), UNCHANGED plan, Clears
    PROVE  LiveInv'
<1>1. /\ active' = None /\ leases' = {} /\ epoch' = epoch + 1 /\ epoch \in Nat
      /\ \A k \in Kinds : pending'[k] = NoRequest
  BY DEF Clears, ClearAuthorization, ClientSafe, NativeInv, NativeTypeOK
<1>2. Validations' /\ ValidationsLive'
  BY <1>1, ValidationsStayLive
<1>3. revoked' \subseteq Begun'
  BY CallFrame DEF Clears, LiveInv, ClientSafe
<1>4. PendingLive'
  BY <1>1 DEF PendingLive, NoRequest
<1>5. OnlyLiveRequestsGrant'
  BY <1>1 DEF OnlyLiveRequestsGrant
<1> QED
  BY <1>2, <1>3, <1>4, <1>5 DEF LiveInv

\* An answer authorizes.
LEMMA GrantsKeepLive ==
    ASSUME ClientSafe, LiveInv, NEW c \in Threads, ClientStep(c), UNCHANGED plan,
           Activated(c) \/ (Verified(c) /\ SameBinding(call[c].answer.binding))
    PROVE  LiveInv'
<1>1. PICK op \in {"activate", "verify"} :
          Validating(c, op) /\ Verdict(c) /\ local[c].phase = "consumed"
  BY DEF Activated, Verified, Accepting
<1>2. /\ Current(c) /\ grant' = call[c].answer.to /\ revoked' = revoked
      /\ active' = call[c].answer.binding
      /\ \/ /\ epoch' = epoch + 1 /\ leases' = {}
            /\ \A k \in Kinds : pending'[k] = NoRequest
         \/ UNCHANGED <<pending, leases, epoch>>
  BY DEF Activated, Verified, AcceptActivation, AcceptVerification
<1>3. /\ call[c].answer \in answers /\ call[c].answer.op = op
      /\ call[c].answer.to \notin revoked
  BY <1>1, <1>2, VerdictGrants DEF SessionOps
<1>4. Validations' /\ ValidationsLive'
  BY <1>2, ValidationsStayLive
<1>5. UNCHANGED answers /\ Begun \subseteq Begun'
  BY AnswersFrame, CallFrame DEF ClientSafe
<1>6. PendingLive'
  <2>1. epoch \in Nat
    BY DEF ClientSafe, NativeInv, NativeTypeOK
  <2> QED
    BY <1>2, <2>1 DEF LiveInv, PendingLive, NoRequest
<1>7. OnlyLiveRequestsGrant'
  BY <1>2, <1>3, <1>5 DEF LiveInv, OnlyLiveRequestsGrant
<1> QED
  BY <1>2, <1>4, <1>5, <1>6, <1>7 DEF LiveInv

\* An answer brings a content key.
LEMMA StoringKeepsLive ==
    ASSUME ClientSafe, LiveInv, NEW c \in Threads, ClientStep(c), UNCHANGED plan,
           LeaseStored(c), StoreLease(c)
    PROVE  LiveInv'
<1>1. /\ Validating(c, "lease") /\ Verdict(c) /\ ForThisBinding(c)
      /\ local[c].phase = "admitted" /\ Current(c)
      /\ leases' = Unexpired \cup {LeaseOf(c)}
      /\ UNCHANGED <<pending, active, epoch, grant, revoked>>
  BY DEF LeaseStored, StoreLease, StillAdmitted, history
<1>2. /\ call[c].answer \in answers /\ call[c].answer.op = "lease"
      /\ call[c].answer.to = local[c].request.nonce
      /\ call[c].answer.to \notin revoked
      /\ call[c].answer.binding = local[c].binding
      /\ local[c].expires <= call[c].answer.expires
  BY <1>1, VerdictGrants DEF SessionOps, ForThisBinding, LiveInv, Validations
<1>3. Validations' /\ ValidationsLive'
  BY <1>1, ValidationsStayLive
<1>4. UNCHANGED answers /\ Begun \subseteq Begun'
  BY AnswersFrame, CallFrame DEF ClientSafe
<1>5. PendingLive'
  BY <1>1 DEF LiveInv, PendingLive
<1>6. OnlyLiveRequestsGrant'
  BY <1>1, <1>2, <1>4 DEF LiveInv, OnlyLiveRequestsGrant, Unexpired, LeaseOf
<1> QED
  BY <1>1, <1>3, <1>4, <1>5, <1>6 DEF LiveInv

LEMMA LiveInitial == Init => LiveInv
BY NativeNone
DEF Init, NativeInit, LiveInv, Validations, ValidationsLive, PendingLive,
    OnlyLiveRequestsGrant, Nowhere, NoRequest

LEMMA LiveStep == ClientSafe /\ LiveInv /\ [Next]_vars => LiveInv'
<1> SUFFICES ASSUME ClientSafe, LiveInv, [Next]_vars
             PROVE  LiveInv'
  OBVIOUS
<1>1. ASSUME NEW c \in Threads, ClientStep(c), UNCHANGED plan
      PROVE  LiveInv'
  BY <1>1, StepEffects, DropsKeepLive, ClearsKeepLive, GrantsKeepLive, StoringKeepsLive
<1>2. CASE UNCHANGED <<state, local, call, grant, revoked>> /\ answers \subseteq answers'
  BY <1>2
  DEF LiveInv, Validations, ValidationsLive, PendingLive, OnlyLiveRequestsGrant, Begun, state
<1>3. CASE ProcessRestart
  BY <1>3
  DEF ProcessRestart, NativeRestart, LiveInv, Validations, ValidationsLive, PendingLive,
      OnlyLiveRequestsGrant, Nowhere, NoRequest
<1>4. CASE \/ UNCHANGED vars \/ TimePasses \/ CreateAnnouncement
           \/ \E r \in requests : Serve(r)
           \/ \E a \in announcements : ShowOrHide(a) \/ DeleteAnnouncement(a)
           \/ \E b \in Bound : Revoke(b)
  <2>1. UNCHANGED <<state, local, call, grant, revoked>>
    BY <1>4 DEF vars, nativeVars, history, TimePasses, Tick, CreateAnnouncement, Serve,
                ShowOrHide, DeleteAnnouncement, Revoke
  <2>2. answers \subseteq answers'
    BY <1>4 DEF vars, TimePasses, CreateAnnouncement, Serve, ServeActivate, ServeSession,
                ServeNotice, Reply, ShowOrHide, DeleteAnnouncement, Revoke
  <2> QED
    BY <1>2, <2>1, <2>2
<1> QED
  BY <1>1, <1>3, <1>4 DEF Next, Step

\* What a client is authorized by and every content key it holds is the answer to a request
\* begun after its last clear or unbinding, on the terms of that answer (the epoch and
\* generation of native_runtime.cpp).
THEOREM ClientGrantsLive == Spec => []OnlyLiveRequestsGrant
<1>1. LiveInv => OnlyLiveRequestsGrant
  BY DEF LiveInv
<1> QED
  BY <1>1, ClientSafeInitial, ClientSafeStep, LiveInitial, LiveStep, PTL DEF Spec
-----------------------------------------------------------------------------
(***************************************************************************)
(* Ownership of keys.                                                      *)
(***************************************************************************)
Owns(c, h) ==
    /\ call[c].answer.to = h
    /\ \/ call[c].at \in {"returning", "holding", "wiping"}
       \/ call[c].at = "cancelling" /\ call[c].then = "wiping"

\* The pending X25519 key is of a lease request that waits for its answer or is about to
\* cancel it.
KeyPending ==
    \A c \in Threads : pending["model"].nonce = c =>
        call[c].op = "lease" /\ call[c].at \in {"sent", "cancelling"}

OwnedInv == KeyPending /\ \A l \in leases : \E c \in Threads : Owns(c, l.handle)

\* A call gives up a lease only by removing it.
LEMMA OwnersKeep ==
    ASSUME ClientSafe, NEW c \in Threads, ClientStep(c), NEW h, Owns(c, h)
    PROVE  Owns(c, h)' \/ \A l \in leases' : l.handle # h
<1>1. call \in [Threads -> Call] /\ call[c] \in Call
  BY DEF ClientSafe, ClientInv, ClientTypes
<1>2. \/ LeaseReturned(c) \/ LeaseAbandoned(c)
      \/ Cancel(c) /\ call[c].then = "wiping"
      \/ Wipe(c) \/ Decrypt(c)
  BY DEF Owns, ClientStep, Activate, Load, Begin, BeginLease, FetchNotices, ClearSession,
         NetworkError, Refused, Deliver, NoticeArrives, Invalid, AnswerStale, Activated,
         Verified, Unbound, SaveToken, DropToken, Forget, ClearNative, AdmitLease,
         LeaseMismatch, LeaseStored, SaveWatermark, Cancel, Accepting, Validating, At
<1>3. CASE LeaseReturned(c)
  <2>1. call'[c].at = "holding" /\ call'[c].answer = call[c].answer
    BY <1>1, <1>3, GotoMoves DEF LeaseReturned, Places, Keeping
  <2> QED
    BY <2>1 DEF Owns
<1>4. CASE LeaseAbandoned(c)
  <2>1. /\ call'[c].at = "cancelling" /\ call'[c].then = "wiping"
        /\ call'[c].answer = call[c].answer
    BY <1>1, <1>4, CancelMoves DEF LeaseAbandoned
  <2> QED
    BY <2>1 DEF Owns
<1>5. CASE Cancel(c) /\ call[c].then = "wiping"
  <2>1. call'[c].at = "wiping" /\ call'[c].answer = call[c].answer
    BY <1>1, <1>5, GotoMoves DEF Cancel, Places, Keeping
  <2> QED
    BY <2>1 DEF Owns
<1>6. CASE Wipe(c) \/ Decrypt(c)
  BY <1>6 DEF Wipe, Decrypt, ReleaseLease, DecryptLease, ClearAuthorization, Owns
<1> QED
  BY <1>2, <1>3, <1>4, <1>5, <1>6

LEMMA LeasesStayOwned ==
    ASSUME ClientSafe, OwnedInv, NEW c \in Threads, ClientStep(c), UNCHANGED plan
    PROVE  \A l \in leases' : \E d \in Threads : Owns(d, l.handle)'
<1>1. \A d \in Threads \ {c} : call'[d] = call[d]
  BY CallFrame DEF ClientSafe
<1>2. ASSUME NEW l \in leases', l \in leases
      PROVE  \E d \in Threads : Owns(d, l.handle)'
  <2>1. PICK d \in Threads : Owns(d, l.handle)
    BY <1>2 DEF OwnedInv
  <2>2. CASE d = c
    BY <1>2, <2>1, <2>2, OwnersKeep
  <2>3. CASE d # c
    BY <1>1, <2>1, <2>3 DEF Owns
  <2> QED
    BY <2>2, <2>3
<1>3. CASE leases' \subseteq leases
  BY <1>2, <1>3
<1>4. CASE LeaseStored(c) /\ StoreLease(c)
  <2>1. leases' \subseteq leases \cup {LeaseOf(c)}
    BY <1>4 DEF StoreLease, Unexpired
  <2>2. Goto(c, "returning")
    BY <1>4 DEF LeaseStored, StoreLease, StoreRefused, StoreStale
  <2>3. call'[c].at = "returning" /\ call'[c].answer = call[c].answer
    BY <2>2, GotoMoves DEF ClientSafe, ClientInv, ClientTypes, Places, Keeping
  <2>4. call[c].answer.to = LeaseOf(c).handle
    BY <1>4 DEF LeaseStored, Verdict, LeaseOf
  <2>5. ASSUME NEW l \in leases', l \notin leases
        PROVE  Owns(c, l.handle)'
    <3>1. l.handle = call[c].answer.to
      BY <2>1, <2>4, <2>5
    <3> QED
      BY <2>3, <3>1 DEF Owns
  <2> QED
    BY <1>2, <2>5
<1> QED
  BY <1>3, <1>4, StepEffects
  DEF Drops, Clears, Begins, ClearAuthorization, Activated, Verified, AcceptActivation,
      AcceptVerification

\* A lease request leaves "sent" with an answer, which empties the slot, or by way of the
\* cancellation, which does too.
LEMMA PendingStaysOwned ==
    ASSUME ClientSafe, OwnedInv, NEW c \in Threads, ClientStep(c), UNCHANGED plan
    PROVE  KeyPending'
<1>1. /\ call \in [Threads -> Call] /\ call[c] \in Call
      /\ pending \in [Kinds -> Request] /\ "model" \in Kinds
      /\ NoRequest.nonce = None /\ \A d \in Threads : d # None
  BY NativeNone, CallsAreThreads
  DEF ClientSafe, ClientInv, ClientTypes, NativeInv, NativeTypeOK, Kinds, NoRequest
<1>2. \A d \in Threads \ {c} : call'[d] = call[d]
  BY CallFrame DEF ClientSafe
<1>3. CASE Activate(c) \/ Begin(c)
  <2>1. pending'["model"] = pending["model"]
    BY <1>1, <1>3 DEF Activate, Begin, BeginRequest
  <2>2. pending["model"].nonce # c
    BY <1>3 DEF OwnedInv, KeyPending, Activate, Begin
  <2> QED
    BY <1>2, <2>1, <2>2 DEF OwnedInv, KeyPending
<1>4. CASE BeginLease(c)
  <2>1. call[c].op = "lease"
    BY <1>4 DEF BeginLease, At
  <2>2. CASE Authorized
    <3>1. pending'["model"].nonce = c /\ Goto(c, "sent")
      BY <1>1, <1>4, <2>2 DEF BeginLease, BeginModelRequest
    <3>2. call'[c].op = "lease" /\ call'[c].at = "sent"
      BY <1>1, <2>1, <3>1, GotoMoves DEF Places, SessionOps
    <3> QED
      BY <3>1, <3>2 DEF KeyPending
  <2>3. CASE ~Authorized
    BY <1>1, <1>4, <2>3 DEF BeginLease, BeginModelRequest, ClearAuthorization, KeyPending
  <2> QED
    BY <2>2, <2>3
<1>5. CASE pending'["model"] \in {pending["model"], NoRequest}
  <2>1. CASE pending["model"].nonce # c
    BY <1>1, <1>2, <1>5, <2>1 DEF OwnedInv, KeyPending
  <2>2. CASE pending["model"].nonce = c
    <3>1. call[c].op = "lease" /\ call[c].at \in {"sent", "cancelling"}
      BY <2>2 DEF OwnedInv, KeyPending
    <3>2. \/ NetworkError(c) \/ Refused(c) \/ Cancel(c)
          \/ \E a \in answers \cup {Garbage} : Deliver(c, a)
      BY <3>1
      DEF ClientStep, Activate, Load, Begin, BeginLease, FetchNotices, ClearSession,
          NoticeArrives, Invalid, AnswerStale, Activated, Verified, Unbound, SaveToken,
          DropToken, Forget, ClearNative, AdmitLease, LeaseMismatch, LeaseStored,
          LeaseReturned, LeaseAbandoned, Wipe, Decrypt, SaveWatermark, Accepting,
          Validating, At
    <3>3. CASE NetworkError(c) \/ Refused(c)
      <4>1. call'[c].op = "lease" /\ call'[c].at = "cancelling"
        BY <1>1, <3>1, <3>3, FailMoves DEF NetworkError, Refused
      <4> QED
        BY <1>1, <1>2, <1>5, <4>1 DEF OwnedInv, KeyPending
    <3>4. CASE Cancel(c)
      BY <1>1, <3>4 DEF Cancel, CancelModelRequest, KeyPending
    <3>5. ASSUME NEW a \in answers \cup {Garbage}, Deliver(c, a)
          PROVE  KeyPending'
      <4>1. Consume(c, "model")
        BY <3>1, <3>5 DEF Deliver, KindOf
      <4> QED
        BY <1>1, <4>1 DEF Consume, KeyPending
    <3> QED
      BY <3>2, <3>3, <3>4, <3>5
  <2> QED
    BY <2>1, <2>2
<1>6. \/ Activate(c) \/ Begin(c) \/ BeginLease(c)
      \/ pending'["model"] \in {pending["model"], NoRequest}
  BY <1>1, StepEffects
  DEF Drops, Clears, ClearAuthorization, Activated, Verified, AcceptActivation,
      AcceptVerification, StoreLease
<1> QED
  BY <1>3, <1>4, <1>5, <1>6

LEMMA OwnedInitial == Init => OwnedInv
BY NativeNone, CallsAreThreads
DEF Init, NativeInit, OwnedInv, KeyPending, NoRequest, Kinds

LEMMA OwnedStep == ClientSafe /\ OwnedInv /\ [Next]_vars => OwnedInv'
<1> SUFFICES ASSUME ClientSafe, OwnedInv, [Next]_vars
             PROVE  OwnedInv'
  OBVIOUS
<1>1. ASSUME NEW c \in Threads, ClientStep(c), UNCHANGED plan
      PROVE  OwnedInv'
  BY <1>1, LeasesStayOwned, PendingStaysOwned DEF OwnedInv
<1>2. CASE ProcessRestart
  BY <1>2, NativeNone, CallsAreThreads
  DEF ProcessRestart, NativeRestart, OwnedInv, KeyPending, NoRequest, Kinds
<1>3. CASE \/ UNCHANGED vars \/ TimePasses \/ CreateAnnouncement
           \/ \E r \in requests : Serve(r)
           \/ \E a \in announcements : ShowOrHide(a) \/ DeleteAnnouncement(a)
           \/ \E b \in Bound : Revoke(b)
  <2>1. UNCHANGED <<pending, leases, call>>
    BY <1>3 DEF vars, nativeVars, state, TimePasses, Tick, CreateAnnouncement, Serve,
                ShowOrHide, DeleteAnnouncement, Revoke
  <2> QED
    BY <2>1 DEF OwnedInv, KeyPending, Owns
<1> QED
  BY <1>1, <1>2, <1>3 DEF Next, Step

\* No failure, refusal or cancellation of a coroutine leaves a content key or a pending
\* X25519 key in native memory without a call that will return, use, wipe or cancel it
\* (requestModelLease, ModelLease.wipe).
THEOREM ClientKeysOwned == Spec => []KeysAreOwned
<1>1. OwnedInv => KeysAreOwned
  BY DEF OwnedInv, Owns, KeyPending, KeysAreOwned
<1> QED
  BY <1>1, ClientSafeInitial, ClientSafeStep, OwnedInitial, OwnedStep, PTL DEF Spec

-----------------------------------------------------------------------------
\* A valid lease is refused only by store_lease_locked, and only when the table is full of
\* unexpired leases.
LEMMA RefusalStep ==
    ClientSafe /\ LiveInv /\ IsFiniteSet(leases) /\ [Next]_vars =>
        \A c \in Threads :
            /\ local[c].phase = "admitted" /\ Verdict(c) /\ ForThisBinding(c)
            /\ StillAdmitted(c) /\ call'[c].at = "cancelling"
            => Cardinality({l \in leases : now < l.expires}) >= MaxHandles
<1> SUFFICES ASSUME ClientSafe, LiveInv, IsFiniteSet(leases), [Next]_vars, NEW c \in Threads,
                    local[c].phase = "admitted", Verdict(c), ForThisBinding(c),
                    StillAdmitted(c), call'[c].at = "cancelling"
             PROVE  Cardinality({l \in leases : now < l.expires}) >= MaxHandles
  OBVIOUS
<1>1. call[c].at = "validating"
  BY DEF LiveInv, Validations
<1>2. Cardinality(Unexpired) \in Nat
  BY FS_Subset, FS_CardinalityType DEF Unexpired
<1>3. CASE ClientStep(c)
  <2>1. LeaseStored(c)
    BY <1>1, <1>3
    DEF ClientStep, Activate, Load, Begin, BeginLease, FetchNotices, ClearSession,
        NetworkError, Refused, Deliver, NoticeArrives, Invalid, AnswerStale, Activated,
        Verified, Unbound, SaveToken, DropToken, Forget, ClearNative, AdmitLease,
        LeaseMismatch, LeaseReturned, LeaseAbandoned, Cancel, Wipe, Decrypt, SaveWatermark,
        Accepting, Validating, At, Consumed, Snapshot, SnapshotFails
  <2>2. ~StoreLease(c)
    <3>1. ASSUME Goto(c, "returning")
          PROVE  FALSE
      BY <3>1, GotoMoves DEF ClientSafe, ClientInv, ClientTypes, Places
    <3> QED
      BY <2>1, <3>1 DEF LeaseStored, StoreLease, StoreRefused, StoreStale
  <2>3. ~Room
    BY <2>1, <2>2 DEF LeaseStored, StoreRefused, StoreStale
  <2> QED
    BY <1>2, <2>3, NativeLimits DEF Room, Unexpired
<1>4. ASSUME NEW d \in Threads, ClientStep(d), d # c, UNCHANGED plan
      PROVE  FALSE
  BY <1>1, <1>4, CallFrame DEF ClientSafe
<1>5. CASE ProcessRestart
  <2> DEFINE done == [NoCall EXCEPT !.at = "done"]
  <2>1. done.at = "done"
    BY DEF NoCall
  <2>2. call'[c] = done
    BY <1>1, <1>5 DEF ProcessRestart
  <2> QED
    BY <2>1, <2>2
<1>6. CASE UNCHANGED call
  BY <1>1, <1>6
<1> QED
  BY <1>3, <1>4, <1>5, <1>6
  DEF Next, Step, vars, TimePasses, CreateAnnouncement, Serve, ShowOrHide,
      DeleteAnnouncement, Revoke

\* Expired leases never cost a valid one its place in the handle table (store_lease_locked
\* cleans them first).
THEOREM ClientRefusals == Spec => RefusedOnlyWhenFull
<1>1. Init => TableInv
  BY FS_EmptySet, NativeLimits DEF Init, NativeInit, TableInv, HandlesBounded
<1>2. ClientSafe /\ TableInv /\ [Next]_vars => TableInv'
  BY StepsAreNative, TableStep DEF ClientSafe
<1>3. ClientSafe /\ LiveInv /\ TableInv /\ [Next]_vars =>
          [\A c \in Threads :
              /\ local[c].phase = "admitted" /\ Verdict(c) /\ ForThisBinding(c) /\ StillAdmitted(c)
              /\ call'[c].at = "cancelling"
              => Cardinality({l \in leases : now < l.expires}) >= MaxHandles]_vars
  BY RefusalStep DEF TableInv
<1> QED
  BY <1>1, <1>2, <1>3, ClientSafeInitial, ClientSafeStep, LiveInitial, LiveStep, PTL
  DEF Spec, RefusedOnlyWhenFull
=============================================================================
