--------------------------- MODULE AndroidClient ---------------------------
(***************************************************************************)
(* The Android client (KmxtLicenseClient.kt, SessionStore.kt) on top of    *)
(* NativeRuntime, and the server as the client sees it.  Calls are         *)
(* coroutines on Dispatchers.IO, concurrent with each other; an action is  *)
(* one call into native code, one access to the preferences, or one step   *)
(* of the server or the network.  Requests and answers can be lost, late   *)
(* or overtaken, a signed answer can be delivered again, and the process   *)
(* can be killed, which loses native memory and what apply() has not yet   *)
(* written.                                                                *)
(*                                                                         *)
(* The server is what one device sees of it: the sessions of its bindings, *)
(* named for the activation that created them, and the announcements of    *)
(* the program.                                                            *)
(***************************************************************************)
EXTENDS NativeRuntime

CONSTANTS
    Plans,        \* sets of calls: the process makes the calls of one (a bound)
    LeaseTtl,     \* signed life of a model lease
    MaxSequence   \* announcements created (a bound)

ASSUME CallsAreThreads == Nonces = Threads

ASSUME ClientLimits == LeaseTtl \in Nat /\ MaxSequence \in Nat

Ops == UNION Plans

VARIABLES
    plan,          \* the calls this process makes
    call,          \* the calls of KmxtLicenseClient, each made once
    prefs,         \* SharedPreferences of SessionStore, as the process sees them
    disk,          \* what the preferences file may hold: apply() writes it later
    requests,      \* requests the server has not processed
    answers,       \* what the server has answered, delivered or not
    sessions,      \* the binding of each live session token at the server
    announcements, \* the program's announcements
    sequence,      \* applications.announcementSequence
    grant,         \* the request whose answer authorized last (for the properties)
    revoked        \* requests begun before the last revocation the client completed
                   \* (for the properties)

serverVars == <<sessions, announcements, sequence>>

prefVars == <<prefs, disk>>

history == <<grant, revoked>>

vars == <<nativeVars, plan, call, prefVars, requests, answers, serverVars, history>>

Answer == [to : Nonces \cup {None}, op : Ops \cup {"none"}, code : {"ok", "SESSION_EXPIRED"},
           binding : Bindings \cup {None}, expires : Nat, sequence : Nat]

\* An answer that is no envelope of this program, or not one of the kind that is awaited.
Garbage == [to |-> None, op |-> "none", code |-> "ok", binding |-> None,
            expires |-> 0, sequence |-> 0]

Call == [op : Ops \cup {"none"},
         at : {"idle", "loaded", "sent", "validating", "saving", "returning", "holding",
               "cancelling", "wiping", "forgetting", "dropping", "clearing", "done"},
         then : {"done", "wiping", "forgetting"},   \* after "cancelling"
         token : Nonces \cup {None},
         answer : Answer]

NoCall == [op |-> "none", at |-> "idle", then |-> "done", token |-> None, answer |-> Garbage]

Prefs == [token : Nonces \cup {None}, watermark : 0..MaxSequence]

Init ==
    /\ NativeInit
    /\ plan \in Plans
    /\ call = [c \in Threads |-> NoCall]
    /\ prefs = [token |-> None, watermark |-> 0]
    /\ disk = {prefs}
    /\ requests = {}
    /\ answers = {}
    /\ sessions = [n \in Nonces |-> None]
    /\ announcements = {}
    /\ sequence = 0
    /\ grant = None
    /\ revoked = {}

-----------------------------------------------------------------------------
KindOf(op) ==
    CASE op = "activate" -> "activation"
      [] op = "verify" -> "verification"
      [] op = "unbind" -> "unbind"
      [] op = "lease" -> "model"

At(c, op, at) == call[c].op = op /\ call[c].at = at

\* Only what a later step reads is kept: the token until it is sent, the answer while it
\* is validated, saved, or names a lease.
Goto(c, at) ==
    call' = [call EXCEPT ![c] =
        [NoCall EXCEPT !.op = IF at = "done" THEN "none" ELSE call[c].op,
                       !.at = at,
                       !.answer = IF at \in {"saving", "returning", "holding", "wiping"}
                                  THEN call[c].answer ELSE Garbage]]

CancelThen(c, next) ==
    call' = [call EXCEPT ![c] =
        [NoCall EXCEPT !.op = call[c].op, !.at = "cancelling", !.then = next,
                       !.answer = IF next = "wiping" THEN call[c].answer ELSE Garbage]]

\* A call that fails: only a lease request has something to undo.
Fail(c) == IF call[c].op = "lease" THEN CancelThen(c, "done") ELSE Goto(c, "done")

\* The error is one that makes the client clear its session.
FailAndForget(c) ==
    IF call[c].op = "lease" THEN CancelThen(c, "forgetting") ELSE Goto(c, "forgetting")

Send(c, op) ==
    requests' = requests \cup {[from |-> c, op |-> op, token |-> call[c].token]}

Save(field, value) ==
    /\ prefs' = [prefs EXCEPT ![field] = value]
    /\ disk' = disk \cup {prefs'}

Begun == {c \in Threads : call[c].at \notin {"idle", "loaded"}}

-----------------------------------------------------------------------------
(***************************************************************************)
(* Calls of the application.                                               *)
(***************************************************************************)
Activate(c) ==
    /\ call[c].at = "idle"
    /\ "activate" \in plan
    /\ BeginRequest("activation", c)
    /\ call' = [call EXCEPT ![c] = [NoCall EXCEPT !.op = "activate", !.at = "sent"]]
    /\ Send(c, "activate")
    /\ UNCHANGED <<prefVars, answers, serverVars, history>>

\* sessions.load(); without a token the call throws NOT_ACTIVATED.
Load(c, op) ==
    /\ call[c].at = "idle"
    /\ op \in plan \cap {"verify", "unbind", "lease"}
    /\ call' = [call EXCEPT ![c] =
          IF prefs.token # None
          THEN [NoCall EXCEPT !.op = op, !.at = "loaded", !.token = prefs.token]
          ELSE IF op = "lease" THEN [NoCall EXCEPT !.op = op, !.at = "cancelling"]
          ELSE [NoCall EXCEPT !.at = "done"]]
    /\ UNCHANGED <<nativeVars, prefVars, requests, answers, serverVars, history>>

Begin(c) ==
    /\ call[c].at = "loaded"
    /\ call[c].op \in {"verify", "unbind"}
    /\ BeginRequest(KindOf(call[c].op), c)
    /\ Goto(c, "sent")
    /\ Send(c, call[c].op)
    /\ UNCHANGED <<prefVars, answers, serverVars, history>>

BeginLease(c) ==
    /\ At(c, "lease", "loaded")
    /\ BeginModelRequest(c)
    /\ \/ Authorized /\ Goto(c, "sent") /\ Send(c, call[c].op)
       \/ ~Authorized /\ Fail(c) /\ UNCHANGED requests
    /\ UNCHANGED <<prefVars, answers, serverVars, history>>

FetchNotices(c) ==
    /\ call[c].at = "idle"
    /\ "notices" \in plan
    /\ call' = [call EXCEPT ![c] = [NoCall EXCEPT !.op = "notices", !.at = "sent"]]
    /\ Send(c, "notices")
    /\ UNCHANGED <<nativeVars, prefVars, answers, serverVars, history>>

ClearSession(c) ==
    /\ call[c].at = "idle"
    /\ "clearSession" \in plan
    /\ call' = [call EXCEPT ![c] =
          [NoCall EXCEPT !.op = "clearSession", !.at = "forgetting"]]
    /\ UNCHANGED <<nativeVars, prefVars, requests, answers, serverVars, history>>

-----------------------------------------------------------------------------
(***************************************************************************)
(* Answers.                                                                *)
(***************************************************************************)

\* No answer, or one that is refused with a code that changes nothing on the client.
NetworkError(c) ==
    /\ call[c].at = "sent"
    /\ Fail(c)
    /\ UNCHANGED <<nativeVars, prefVars, requests, answers, serverVars, history>>

\* 401 SESSION_EXPIRED.
Refused(c) ==
    /\ call[c].at = "sent"
    /\ \E a \in answers : a.to = c /\ a.code = "SESSION_EXPIRED"
    /\ FailAndForget(c)
    /\ UNCHANGED <<nativeVars, prefVars, requests, answers, serverVars, history>>

\* An answer, perhaps a signed one to another request, reaches native validation.
Deliver(c, a) ==
    /\ call[c].at = "sent"
    /\ call[c].op # "notices"
    /\ a = Garbage \/ (a.op = call[c].op /\ a.code = "ok")
    /\ Consume(c, KindOf(call[c].op))
    /\ call' = [call EXCEPT ![c] = [@ EXCEPT !.at = "validating", !.answer = a]]
    /\ UNCHANGED <<prefVars, requests, answers, serverVars, history>>

\* validate_authorization_envelope, validate_unbind_envelope, validate_model_lease_envelope
Verdict(c) ==
    LET a == call[c].answer IN
    /\ a.op = call[c].op
    /\ a.to = local[c].request.nonce
    /\ a.op = "lease" => now < a.expires

Validating(c, op) == At(c, op, "validating")

Accepting(c, op) == Validating(c, op) /\ local[c].phase = "consumed" /\ Verdict(c)

\* The envelope is refused: as it is none, or the session it shows has run out meanwhile, for
\* which verify() forgets the session (SESSION_EXPIRED).
Invalid(c) ==
    /\ call[c].at = "validating"
    /\ Reject(c)
    /\ \/ (local[c].phase = "rejected" \/ ~Verdict(c)) /\ Fail(c)
       \/ Accepting(c, "verify") /\ FailAndForget(c)
    /\ UNCHANGED <<prefVars, requests, answers, serverVars, history>>

\* DEVICE_MISMATCH; activate() does not clear the session for it.
AnswerStale(c) ==
    /\ \E op \in {"activate", "verify", "unbind"} : Accepting(c, op)
    /\ AcceptStale(c)
    /\ IF call[c].op = "activate" THEN Fail(c) ELSE FailAndForget(c)
    /\ UNCHANGED <<prefVars, requests, answers, serverVars, history>>

Activated(c) ==
    /\ Accepting(c, "activate")
    /\ \E ttl \in AuthorizationTtls : AcceptActivation(c, call[c].answer.binding, ttl)
    /\ grant' = call[c].answer.to
    /\ Goto(c, "saving")
    /\ UNCHANGED <<prefVars, requests, answers, serverVars, revoked>>

Verified(c) ==
    /\ Accepting(c, "verify")
    /\ \E ttl \in AuthorizationTtls : AcceptVerification(c, call[c].answer.binding, ttl)
    /\ \/ /\ SameBinding(call[c].answer.binding)
          /\ grant' = call[c].answer.to
          /\ Goto(c, "done")
       \/ /\ ~SameBinding(call[c].answer.binding)
          /\ FailAndForget(c)
          /\ UNCHANGED grant
    /\ UNCHANGED <<prefVars, requests, answers, serverVars, revoked>>

Unbound(c) ==
    /\ Accepting(c, "unbind")
    /\ AcceptUnbind(c, call[c].answer.binding)
    /\ revoked' = Begun
    /\ Goto(c, IF UnbindConfirmed(call[c].answer.binding) THEN "dropping" ELSE "forgetting")
    /\ UNCHANGED <<prefVars, requests, answers, serverVars, grant>>

\* Mutant of SaveToken: another field of the answer is stored.
SaveBindingAsToken(c) ==
    /\ At(c, "activate", "saving")
    /\ Save("token", call[c].answer.binding)
    /\ Goto(c, "done")
    /\ UNCHANGED <<nativeVars, requests, answers, serverVars, history>>

SaveToken(c) ==
    /\ At(c, "activate", "saving")
    /\ Save("token", call[c].answer.to)
    /\ Goto(c, "done")
    /\ UNCHANGED <<nativeVars, requests, answers, serverVars, history>>

\* sessions.clear() after a confirmed unbinding, which has cleared the native state.
DropToken(c) ==
    /\ call[c].at = "dropping"
    /\ Save("token", None)
    /\ Goto(c, "done")
    /\ UNCHANGED <<nativeVars, requests, answers, serverVars, history>>

\* clearSession(): the preferences, then the native state.
Forget(c) ==
    /\ call[c].at = "forgetting"
    /\ Save("token", None)
    /\ Goto(c, "clearing")
    /\ UNCHANGED <<nativeVars, requests, answers, serverVars, history>>

ClearNative(c) ==
    /\ call[c].at = "clearing"
    /\ ClearAuthorizationState
    /\ revoked' = Begun
    /\ Goto(c, "done")
    /\ UNCHANGED <<prefVars, requests, answers, serverVars, grant>>

-----------------------------------------------------------------------------
(***************************************************************************)
(* Model leases.                                                           *)
(***************************************************************************)
AdmitLease(c) ==
    /\ Validating(c, "lease")
    /\ \/ Snapshot(c, call[c].answer.expires) /\ UNCHANGED call
       \/ SnapshotFails(c) /\ Fail(c)
    /\ UNCHANGED <<prefVars, requests, answers, serverVars, history>>

ForThisBinding(c) == call[c].answer.binding = local[c].binding

\* The lease is another binding's: DEVICE_MISMATCH.
LeaseMismatch(c) ==
    /\ Validating(c, "lease")
    /\ local[c].phase = "admitted" /\ Verdict(c) /\ ~ForThisBinding(c)
    /\ Reject(c)
    /\ FailAndForget(c)
    /\ UNCHANGED <<prefVars, requests, answers, serverVars, history>>

LeaseStored(c) ==
    /\ Validating(c, "lease")
    /\ Verdict(c) /\ ForThisBinding(c)
    /\ \/ StoreLease(c) /\ Goto(c, "returning")
       \/ StoreRefused(c) /\ Fail(c)
       \/ StoreStale(c) /\ Fail(c)
    /\ UNCHANGED <<prefVars, requests, answers, serverVars, history>>

\* withContext hands the lease to the caller, unless the coroutine has been cancelled.
LeaseReturned(c) ==
    /\ call[c].at = "returning"
    /\ Goto(c, "holding")
    /\ UNCHANGED <<nativeVars, prefVars, requests, answers, serverVars, history>>

\* Mutant of LeaseAbandoned: the lease is forgotten with the coroutine.
LeaseLeaked(c) ==
    /\ call[c].at = "returning"
    /\ CancelThen(c, "done")
    /\ UNCHANGED <<nativeVars, prefVars, requests, answers, serverVars, history>>

LeaseAbandoned(c) ==
    /\ call[c].at = "returning"
    /\ CancelThen(c, "wiping")
    /\ UNCHANGED <<nativeVars, prefVars, requests, answers, serverVars, history>>

Cancel(c) ==
    /\ call[c].at = "cancelling"
    /\ CancelModelRequest
    /\ Goto(c, call[c].then)
    /\ UNCHANGED <<prefVars, requests, answers, serverVars, history>>

\* ModelLease.wipe(), by the failing call or by the caller.
Wipe(c) ==
    /\ call[c].at \in {"wiping", "holding"}
    /\ ReleaseLease(call[c].answer.to)
    /\ Goto(c, "done")
    /\ UNCHANGED <<prefVars, requests, answers, serverVars, history>>

Decrypt(c) ==
    /\ call[c].at = "holding"
    /\ DecryptLease(call[c].answer.to)
    /\ Goto(c, "done")
    /\ UNCHANGED <<prefVars, requests, answers, serverVars, history>>

-----------------------------------------------------------------------------
(***************************************************************************)
(* Notices.                                                                *)
(***************************************************************************)

\* Mutant of NoticeSequence: the highest announcement shown.
HighestShown ==
    LET shown == {a.sequence : a \in {x \in announcements : x.shown}} IN
    IF shown = {} THEN 0 ELSE CHOOSE s \in shown : \A r \in shown : r <= s

\* The sequence a signed notice carries.
NoticeSequence == sequence

\* validate_notice_envelope: against the watermark read just before.
Rollback(a) == prefs.watermark > 0 /\ a.sequence < prefs.watermark

NoticeArrives(c, a) ==
    /\ At(c, "notices", "sent")
    /\ a.op = "notices"
    /\ IF Rollback(a) THEN Goto(c, "done")
       ELSE call' = [call EXCEPT ![c] = [@ EXCEPT !.at = "saving", !.answer = a]]
    /\ UNCHANGED <<nativeVars, prefVars, requests, answers, serverVars, history>>

SaveWatermark(c) ==
    /\ At(c, "notices", "saving")
    /\ Save("watermark", IF call[c].answer.sequence > prefs.watermark
                         THEN call[c].answer.sequence ELSE prefs.watermark)
    /\ Goto(c, "done")
    /\ UNCHANGED <<nativeVars, requests, answers, serverVars, history>>

CreateAnnouncement ==
    /\ "notices" \in plan
    /\ sequence < MaxSequence
    /\ sequence' = sequence + 1
    /\ announcements' = announcements \cup {[sequence |-> sequence + 1, shown |-> FALSE]}
    /\ UNCHANGED <<nativeVars, call, prefVars, requests, answers, sessions, history>>

\* Publishing, withdrawing, moving to another channel, and the window opening or closing.
ShowOrHide(a) ==
    /\ a \in announcements
    /\ announcements' = (announcements \ {a}) \cup {[a EXCEPT !.shown = ~a.shown]}
    /\ UNCHANGED <<nativeVars, call, prefVars, requests, answers, sessions,
                   sequence, history>>

DeleteAnnouncement(a) ==
    /\ a \in announcements
    /\ announcements' = announcements \ {a}
    /\ UNCHANGED <<nativeVars, call, prefVars, requests, answers, sessions,
                   sequence, history>>

-----------------------------------------------------------------------------
(***************************************************************************)
(* The server, the disk and the process.                                   *)
(***************************************************************************)
Reply(r, code, b) ==
    answers' = answers \cup
        {[to |-> r.from, op |-> r.op, code |-> code, binding |-> b,
          expires |-> IF r.op = "lease" /\ code = "ok" THEN now + LeaseTtl ELSE 0,
          sequence |-> IF r.op = "notices" THEN NoticeSequence ELSE 0]}

\* The device's active bindings: a licence has one of them while it is not revoked.
Bound == {sessions[n] : n \in Nonces} \ {None}

NewBinding ==
    LET new == {b \in Bindings : \A a \in answers : a.binding # b} IN
    {b \in new : b = CHOOSE first \in new : TRUE}

\* The key may be that of a licence the device is bound to, or another.
ServeActivate(r) ==
    /\ r.op = "activate"
    /\ \E b \in Bound \cup NewBinding :
          /\ Reply(r, "ok", b)
          /\ sessions' = [sessions EXCEPT ![r.from] = b]

WithoutBinding(b) == [n \in Nonces |-> IF sessions[n] = b THEN None ELSE sessions[n]]

ServeSession(r) ==
    /\ r.op \in {"verify", "unbind", "lease"}
    /\ \/ /\ sessions[r.token] # None
          /\ Reply(r, "ok", sessions[r.token])
          /\ IF r.op = "unbind" THEN sessions' = WithoutBinding(sessions[r.token])
             ELSE UNCHANGED sessions
       \/ /\ sessions[r.token] = None
          /\ Reply(r, "SESSION_EXPIRED", None)
          /\ UNCHANGED sessions

ServeNotice(r) ==
    /\ r.op = "notices"
    /\ Reply(r, "ok", None)
    /\ UNCHANGED sessions

Serve(r) ==
    /\ r \in requests
    /\ requests' = requests \ {r}
    /\ ServeActivate(r) \/ ServeSession(r) \/ ServeNotice(r)
    /\ UNCHANGED <<nativeVars, call, prefVars, announcements, sequence, history>>

\* An administrator unbinds the device, or disables or deletes the licence.  The client sees
\* it in the next answer, so it is enough to let it happen while one is due (a bound).
Revoke(b) ==
    /\ requests # {}
    /\ sessions' = WithoutBinding(b)
    /\ UNCHANGED <<nativeVars, call, prefVars, requests, answers, announcements, sequence,
                   history>>

ProcessRestart ==
    /\ NativeRestart
    /\ prefs' \in disk
    /\ disk' = {prefs'}
    /\ call' = [c \in Threads |->
          IF call[c].at = "idle" THEN call[c] ELSE [NoCall EXCEPT !.at = "done"]]
    /\ grant' = None
    /\ revoked' = {}
    /\ UNCHANGED <<requests, answers, serverVars>>

TimePasses == Tick /\ UNCHANGED <<call, prefVars, requests, answers, serverVars, history>>

ClientStep(c) ==
    \/ Activate(c)
    \/ \E op \in Ops : Load(c, op)
    \/ Begin(c) \/ BeginLease(c) \/ FetchNotices(c) \/ ClearSession(c)
    \/ NetworkError(c) \/ Refused(c)
    \/ \E a \in answers \cup {Garbage} : Deliver(c, a)
    \/ \E a \in answers : NoticeArrives(c, a)
    \/ Invalid(c) \/ AnswerStale(c) \/ Activated(c) \/ Verified(c) \/ Unbound(c)
    \/ SaveToken(c) \/ DropToken(c) \/ Forget(c) \/ ClearNative(c)
    \/ AdmitLease(c) \/ LeaseMismatch(c) \/ LeaseStored(c)
    \/ LeaseReturned(c) \/ LeaseAbandoned(c) \/ Cancel(c) \/ Wipe(c) \/ Decrypt(c)
    \/ SaveWatermark(c)

Step ==
    \/ \E c \in Threads : ClientStep(c)
    \/ \E r \in requests : Serve(r)
    \/ CreateAnnouncement
    \/ \E a \in announcements : ShowOrHide(a) \/ DeleteAnnouncement(a)
    \/ \E b \in Bound : Revoke(b)
    \/ ProcessRestart \/ TimePasses

Next == Step /\ UNCHANGED plan

Spec == Init /\ [][Next]_vars

(***************************************************************************)
(* Properties.                                                             *)
(***************************************************************************)

\* Every variable keeps its type.
TypeOK ==
    /\ NativeTypeOK
    /\ plan \in Plans
    /\ call \in [Threads -> Call]
    /\ prefs \in Prefs /\ disk \in SUBSET Prefs
    /\ requests \in SUBSET [from : Threads, op : Ops, token : Nonces \cup {None}]
    /\ answers \in SUBSET Answer
    /\ sessions \in [Nonces -> Bindings \cup {None}]
    /\ announcements \in SUBSET [sequence : 1..MaxSequence, shown : BOOLEAN]
    /\ sequence \in 0..MaxSequence
    /\ grant \in Nonces \cup {None}
    /\ revoked \in SUBSET Nonces

\* What the client is authorized by, and every content key it holds, is the server's answer
\* to the very request it answers, and that request began after the client last finished
\* clearing its session or unbinding: a late, repeated or misdirected answer brings nothing
\* back that was revoked.
OnlyLiveRequestsGrant ==
    /\ active # None =>
          /\ grant \notin revoked
          /\ \E a \in answers :
                a.to = grant /\ a.op \in {"activate", "verify"} /\ a.binding = active
    /\ \A l \in leases :
          /\ l.handle \notin revoked
          /\ \E a \in answers :
                /\ a.to = l.handle /\ a.op = "lease" /\ a.binding = l.binding
                /\ l.expires <= a.expires

\* Every content key in native memory is in the hands of a call that will return, use or
\* wipe it, and every pending X25519 key belongs to a call that still waits for its answer
\* or is about to cancel it: no failure or cancellation leaves a key behind.
KeysAreOwned ==
    /\ \A l \in leases : \E c \in Threads :
          /\ call[c].answer.to = l.handle
          /\ \/ call[c].at \in {"returning", "holding", "wiping"}
             \/ call[c].at = "cancelling" /\ call[c].then = "wiping"
    /\ \A c \in Threads :
          pending["model"].nonce = c => call[c].at \in {"sent", "cancelling"}

\* A valid lease is turned away only while the table is full of keys that are still good:
\* expired ones never take up the room.  (Random numbers and memory do not fail here.)
RefusedOnlyWhenFull ==
    [][\A c \in Threads :
          /\ local[c].phase = "admitted" /\ Verdict(c) /\ ForThisBinding(c) /\ StillAdmitted(c)
          /\ call'[c].at = "cancelling"
          => Cardinality({l \in leases : now < l.expires}) >= MaxHandles]_vars

\* Whatever happens to announcements, a notice signed now is never below a watermark some
\* client has kept: no honest and fresh notice is refused as a rollback.
NoHonestRollback == prefs.watermark <= NoticeSequence
=============================================================================
