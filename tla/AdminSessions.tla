--------------------------- MODULE AdminSessions ---------------------------
(***************************************************************************)
(* Administrator accounts and their login sessions (auth-service.js with   *)
(* either store).  A store transaction is atomic, but a request is not:    *)
(* scrypt takes a long time, so login and the password changes read the    *)
(* account, compute, and only then run their transaction; and every        *)
(* authenticated request is judged by the account as authenticate() saw    *)
(* it.  A request between these steps is an element of request.            *)
(*                                                                         *)
(* session holds the tokens that have not expired: an expired one          *)
(* authenticates nobody, so that the clean-up of a later login or of       *)
(* maintenance changes nothing here.                                       *)
(***************************************************************************)
EXTENDS Naturals, Functions

CONSTANTS
    Users, Merchants,
    MerchantOf,     \* the merchant of each account, None for platform accounts
    Sessions,       \* admin session tokens
    Requests,       \* requests the server handles at the same time
    MaxChanges,     \* bound on the password changes of all accounts together
    None

ASSUME MerchantsAssumption == MerchantOf \in [Users -> Merchants \cup {None}]
ASSUME NoneAssumption == None \notin Users \cup Merchants \cup Sessions
ASSUME DistinctAssumption ==
    Users \cap Merchants = {} /\ Sessions \cap (Users \cup Merchants) = {}
ASSUME ChangesAssumption == MaxChanges \in Nat

VARIABLES
    user,       \* users[]; hash numbers the salted hashes the account has had
    merchant,   \* merchants[].status
    session,    \* adminSessions[]; hash and role are history: what the login relied on
    request     \* requests between two of their steps

vars == <<user, merchant, session, request>>

Status == {"active", "disabled"}

MerchantRoles == {"merchant_admin", "operator"}

Roles == MerchantRoles \cup {"platform_admin"}

PasswordOps == {"changePassword", "resetPassword"}

\* The operations an authenticated request asks for.
Ops == PasswordOps \cup {"logout", "setUserStatus", "setUserRole", "createUser", "setMerchantStatus"}

UserRec == [status : Status \cup {"absent"}, role : Roles, hash : Nat]

SessionRec == [user : Users \cup {None}, hash : Nat, role : Roles]

RequestRec == [op : Ops \cup {"login", "idle"},
               ready : BOOLEAN,                 \* seen holds a verified hash
               target : Users \cup Merchants \cup Sessions \cup {None},
               arg : Status \cup MerchantRoles \cup {None},
               seen : Nat]

NoSession == [user |-> None, hash |-> 0, role |-> "operator"]

Idle == [op |-> "idle", ready |-> FALSE, target |-> None, arg |-> None, seen |-> 0]

Init ==
    /\ user = [u \in Users |-> [status |-> "absent",
                                role |-> IF MerchantOf[u] = None THEN "platform_admin" ELSE "operator",
                                hash |-> 0]]
    /\ merchant = [m \in Merchants |-> "active"]
    /\ session = [s \in Sessions |-> NoSession]
    /\ request = [r \in Requests |-> Idle]

-----------------------------------------------------------------------------
\* The account and, for a merchant's account, the merchant are enabled.
Serving(u) ==
    /\ user[u].status = "active"
    /\ MerchantOf[u] # None => merchant[MerchantOf[u]] = "active"

SessionsOf(U) == {s \in Sessions : session[s].user \in U}

Without(S) == [s \in Sessions |-> IF s \in S THEN NoSession ELSE session[s]]

Finish(r) == request' = [request EXCEPT ![r] = Idle]

\* The role, merchant and self checks of an operation, all on the actor as authenticate()
\* returned it; the transactions repeat them on the same actor, and an account's merchant
\* never changes, so their answer is the same there.
Allowed(actor, op, target, arg) ==
    LET role == user[actor].role IN
    /\ op \in {"resetPassword", "setUserStatus", "setUserRole", "createUser"} =>
          /\ role # "operator"
          /\ target \in Users
          /\ MerchantOf[target] # None
          /\ role = "platform_admin" \/ MerchantOf[actor] = MerchantOf[target]
    /\ op \in {"resetPassword", "setUserRole"} => target # actor
    /\ op = "setUserStatus" /\ arg = "disabled" => target # actor
    /\ op = "changePassword" => target = actor
    /\ op = "setMerchantStatus" => role = "platform_admin" /\ target \in Merchants

\* The values each operation's argument takes.
Args(op) ==
    IF op \in {"setUserStatus", "setMerchantStatus"} THEN Status
    ELSE IF op = "setUserRole" THEN MerchantRoles
    ELSE IF op = "createUser" THEN MerchantRoles \cup {None}
    ELSE {None}

-----------------------------------------------------------------------------
\* The CLI creates the first platform administrator.
Bootstrap(u) ==
    /\ MerchantOf[u] = None
    /\ \A v \in Users : user[v].role = "platform_admin" => user[v].status = "absent"
    /\ user' = [user EXCEPT ![u].status = "active"]
    /\ UNCHANGED <<merchant, session, request>>

\* The account is read and the password verified against what was read.
Login(r, u) ==
    /\ request[r] = Idle
    /\ user[u].status = "active"
    /\ request' = [request EXCEPT ![r] = [Idle EXCEPT
          !.op = "login", !.ready = TRUE, !.target = u, !.seen = user[u].hash]]
    /\ UNCHANGED <<user, merchant, session>>

\* Mutant of FinalizeLogin: the account is not looked at again.
FinalizeLoginUnchecked(r, s) ==
    LET u == request[r].target IN
    /\ request[r].op = "login"
    /\ session[s] = NoSession
    /\ session' = [session EXCEPT
          ![s] = [user |-> u, hash |-> request[r].seen, role |-> user[u].role]]
    /\ Finish(r)
    /\ UNCHANGED <<user, merchant>>

FinalizeLogin(r, s) ==
    LET u == request[r].target IN
    /\ request[r].op = "login"
    /\ Serving(u)
    /\ session[s] = NoSession
    /\ session' = [session EXCEPT
          ![s] = [user |-> u, hash |-> request[r].seen, role |-> user[u].role]]
    /\ Finish(r)
    /\ UNCHANGED <<user, merchant>>

\* authenticate(), then the checks that need no transaction.
Authenticate(r, s, op, target, arg) ==
    /\ request[r] = Idle
    /\ session[s] # NoSession
    /\ Serving(session[s].user)
    /\ Allowed(session[s].user, op, target, arg)
    /\ op = "logout" => target = s
    /\ request' = [request EXCEPT ![r] = [Idle EXCEPT
          !.op = op, !.target = target, !.arg = arg]]
    /\ UNCHANGED <<user, merchant, session>>

\* changePassword verifies the current password, resetMerchantUserPassword compares the new
\* one, both against a snapshot; then the new password is hashed.
ReadTarget(r) ==
    LET q == request[r] IN
    /\ q.op \in PasswordOps /\ ~q.ready
    /\ q.op = "changePassword" => user[q.target].status = "active"
    /\ q.op = "resetPassword" => user[q.target].status # "absent"
    /\ request' = [request EXCEPT ![r].ready = TRUE, ![r].seen = user[q.target].hash]
    /\ UNCHANGED <<user, merchant, session>>

\* Mutant of HashUnchanged: no compare-and-set.
HashUnchecked(r) == TRUE

HashUnchanged(r) == user[request[r].target].hash = request[r].seen

SetPassword(r) ==
    LET q == request[r] IN
    /\ q.op \in PasswordOps /\ q.ready
    /\ q.op = "changePassword" => user[q.target].status = "active"
    /\ HashUnchanged(r)
    /\ SumFunction([u \in Users |-> user[u].hash]) < MaxChanges
    /\ user' = [user EXCEPT ![q.target].hash = @ + 1]
    /\ session' = Without(SessionsOf({q.target}))
    /\ Finish(r)
    /\ UNCHANGED merchant

\* Mutant of CreateUser: the default role is missing.
CreateUserNoDefault(r) ==
    LET q == request[r] IN
    /\ q.op = "createUser"
    /\ user[q.target].status = "absent"
    /\ user' = [user EXCEPT ![q.target].status = "active", ![q.target].role = q.arg]
    /\ Finish(r)
    /\ UNCHANGED <<merchant, session>>

CreateUser(r) ==
    LET q == request[r] IN
    /\ q.op = "createUser"
    /\ merchant[MerchantOf[q.target]] = "active"
    /\ user[q.target].status = "absent"
    /\ user' = [user EXCEPT ![q.target].status = "active",
                            ![q.target].role = IF q.arg = None THEN "operator" ELSE q.arg]
    /\ Finish(r)
    /\ UNCHANGED <<merchant, session>>

SetUserStatus(r) ==
    LET q == request[r] IN
    /\ q.op = "setUserStatus"
    /\ user[q.target].status # "absent"
    /\ user' = [user EXCEPT ![q.target].status = q.arg]
    /\ session' = IF q.arg = "disabled" THEN Without(SessionsOf({q.target})) ELSE session
    /\ Finish(r)
    /\ UNCHANGED merchant

\* Mutant of SetUserRole: the sessions stay.
SetUserRoleOnly(r) ==
    LET q == request[r] IN
    /\ q.op = "setUserRole"
    /\ user[q.target].status # "absent"
    /\ user' = [user EXCEPT ![q.target].role = q.arg]
    /\ Finish(r)
    /\ UNCHANGED <<merchant, session>>

SetUserRole(r) ==
    LET q == request[r] IN
    /\ q.op = "setUserRole"
    /\ user[q.target].status # "absent"
    /\ user' = [user EXCEPT ![q.target].role = q.arg]
    /\ session' = IF user[q.target].role = q.arg THEN session
                  ELSE Without(SessionsOf({q.target}))
    /\ Finish(r)
    /\ UNCHANGED merchant

SetMerchantStatus(r) ==
    LET q == request[r] IN
    /\ q.op = "setMerchantStatus"
    /\ merchant' = [merchant EXCEPT ![q.target] = q.arg]
    /\ session' = IF q.arg = "disabled"
                  THEN Without(SessionsOf({u \in Users : MerchantOf[u] = q.target}))
                  ELSE session
    /\ Finish(r)
    /\ UNCHANGED user

Logout(r) ==
    /\ request[r].op = "logout"
    /\ session' = Without({request[r].target})
    /\ Finish(r)
    /\ UNCHANGED <<user, merchant>>

\* An error response: a check fails, or the store does.
Refuse(r) ==
    /\ request[r] # Idle
    /\ Finish(r)
    /\ UNCHANGED <<user, merchant, session>>

\* The session's term ends.
ExpireSession(s) ==
    /\ session[s] # NoSession
    /\ session' = Without({s})
    /\ UNCHANGED <<user, merchant, request>>

Step(r) ==
    \/ \E u \in Users : Login(r, u)
    \/ \E s \in Sessions : FinalizeLogin(r, s)
    \/ \E s \in Sessions, op \in Ops, target \in Users \cup Merchants \cup Sessions :
          \E arg \in Args(op) : Authenticate(r, s, op, target, arg)
    \/ ReadTarget(r) \/ SetPassword(r) \/ CreateUser(r) \/ SetUserStatus(r)
    \/ SetUserRole(r) \/ SetMerchantStatus(r) \/ Logout(r) \/ Refuse(r)

Next ==
    \/ \E u \in Users : Bootstrap(u)
    \/ \E r \in Requests : Step(r)
    \/ \E s \in Sessions : ExpireSession(s)

Spec == Init /\ [][Next]_vars

(***************************************************************************)
(* Properties.                                                             *)
(***************************************************************************)

\* Every variable keeps its type.
TypeOK ==
    /\ user \in [Users -> UserRec]
    /\ merchant \in [Merchants -> Status]
    /\ session \in [Sessions -> SessionRec]
    /\ request \in [Requests -> RequestRec]

\* A stored session belongs to an account that may work: disabling an account or a merchant
\* leaves no session of theirs, also when one of their logins had already been verified.
SessionsHaveAccount ==
    \A s \in Sessions : session[s] # NoSession => Serving(session[s].user)

\* A session shows the account's present role: a role change revokes the older sessions, and
\* a login under way takes the new role.
SessionsHaveRole ==
    \A s \in Sessions :
        session[s] # NoSession => session[s].role = user[session[s].user].role

\* A password change is never overwritten by one that was prepared before it: whoever
\* changes a password had read the hash it replaces.
NoLostPasswordChange ==
    [][\A u \in Users : user'[u].hash # user[u].hash =>
          \E r \in Requests :
              /\ request[r].op \in PasswordOps /\ request[r].target = u
              /\ request[r].seen = user[u].hash /\ request'[r] = Idle]_vars

\* After a password change only logins with the new password have sessions.
SessionsUseCurrentPassword ==
    \A s \in Sessions :
        session[s] # NoSession => session[s].hash = user[session[s].user].hash
=============================================================================
