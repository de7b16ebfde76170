------------------------ MODULE AdminSessionsProofs ------------------------
(***************************************************************************)
(* Administrator sessions for any number of accounts, merchants, sessions  *)
(* and requests.  A request is believed only for what authenticate() and   *)
(* the checks behind it establish for good (RequestsNameRows): which rows  *)
(* it names, and that an account it creates has a merchant.  Everything    *)
(* about a session is established by the transaction that stores it and    *)
(* by those that take it away.                                             *)
(***************************************************************************)
EXTENDS AdminSessions, TLAPS

UserOps == {"login", "createUser", "setUserStatus", "setUserRole"} \cup PasswordOps

\* What a request names is what its operation is about.
RequestsNameRows ==
    \A r \in Requests :
        /\ request[r].op \in UserOps => request[r].target \in Users
        /\ request[r].op = "createUser" => MerchantOf[request[r].target] # None
        /\ request[r].op = "setMerchantStatus" => request[r].target \in Merchants
        /\ request[r].op \in Ops => request[r].arg \in Args(request[r].op)

SessionsHaveUser == \A s \in Sessions : session[s] # NoSession => session[s].user \in Users

AdminInv ==
    /\ TypeOK
    /\ RequestsNameRows
    /\ SessionsHaveUser
    /\ SessionsHaveAccount
    /\ SessionsHaveRole

LEMMA RecordsTyped == Idle \in RequestRec /\ NoSession \in SessionRec
BY DEF Idle, RequestRec, NoSession, SessionRec, Roles, MerchantRoles

LEMMA AdminInitial == Init => AdminInv
<1> SUFFICES ASSUME Init PROVE AdminInv
  OBVIOUS
<1>1. TypeOK
  BY RecordsTyped DEF Init, TypeOK, UserRec, Status, Roles, MerchantRoles
<1>2. RequestsNameRows
  BY DEF Init, RequestsNameRows, Idle, UserOps, PasswordOps, Ops
<1> QED
  BY <1>1, <1>2 DEF Init, AdminInv, SessionsHaveUser, SessionsHaveAccount, SessionsHaveRole

-----------------------------------------------------------------------------
\* A request that ends leaves the others as they are.
LEMMA FinishKeepsRequests ==
    ASSUME AdminInv, NEW r \in Requests, Finish(r)
    PROVE  request' \in [Requests -> RequestRec] /\ RequestsNameRows'
<1>1. request \in [Requests -> RequestRec]
  BY DEF AdminInv, TypeOK
<1>2. \A q \in Requests : request'[q] = IF q = r THEN Idle ELSE request[q]
  BY <1>1 DEF Finish
<1>3. Idle.op \notin UserOps \cup Ops /\ Idle.op # "createUser" /\ Idle.op # "setMerchantStatus"
  BY DEF Idle, UserOps, Ops, PasswordOps
<1> QED
  BY <1>1, <1>2, <1>3, RecordsTyped DEF Finish, AdminInv, RequestsNameRows, Args

\* A transaction that takes sessions away and leaves the accounts of the others serving,
\* with the roles they had, keeps the invariant.
LEMMA RevokingKeepsInv ==
    ASSUME AdminInv, NEW S \in SUBSET Sessions, session' = Without(S),
           user' \in [Users -> UserRec], merchant' \in [Merchants -> Status],
           request' \in [Requests -> RequestRec], RequestsNameRows',
           \A s \in Sessions \ S, u \in Users : session[s] # NoSession /\ session[s].user = u =>
               Serving(u)' /\ user'[u].role = user[u].role
    PROVE  AdminInv'
<1>1. session \in [Sessions -> SessionRec]
  BY DEF AdminInv, TypeOK
<1>2. session' \in [Sessions -> SessionRec]
  BY <1>1, RecordsTyped DEF Without
<1>3. \A s \in Sessions : session'[s] # NoSession =>
          s \notin S /\ session'[s] = session[s]
  BY DEF Without
<1>4. ASSUME NEW s \in Sessions, session'[s] # NoSession, NEW u, u = session'[s].user
      PROVE  /\ u \in Users
             /\ Serving(u)'
             /\ session'[s].role = user'[u].role
  BY <1>3, <1>4 DEF AdminInv, SessionsHaveUser, SessionsHaveRole
<1> QED
  BY <1>2, <1>4
  DEF AdminInv, TypeOK, SessionsHaveUser, SessionsHaveAccount, SessionsHaveRole, Serving

\* The same for the transactions that leave all sessions alone.
LEMMA KeepingKeepsInv ==
    ASSUME AdminInv, UNCHANGED session,
           user' \in [Users -> UserRec], merchant' \in [Merchants -> Status],
           request' \in [Requests -> RequestRec], RequestsNameRows',
           \A s \in Sessions, u \in Users : session[s] # NoSession /\ session[s].user = u =>
               Serving(u)' /\ user'[u].role = user[u].role
    PROVE  AdminInv'
<1>1. session' = Without({})
  BY DEF AdminInv, TypeOK, Without
<1> QED
  BY <1>1, RevokingKeepsInv

-----------------------------------------------------------------------------
LEMMA LoginKeepsInv ==
    ASSUME AdminInv, NEW r \in Requests, NEW u \in Users, Login(r, u)
    PROVE  AdminInv'
<1> DEFINE new == [Idle EXCEPT !.op = "login", !.ready = TRUE, !.target = u,
                               !.seen = user[u].hash]
<1>1. user[u].hash \in Nat
  BY DEF AdminInv, TypeOK, UserRec
<1>2. new \in RequestRec /\ new.op = "login" /\ new.target = u
  BY <1>1, RecordsTyped DEF Idle, RequestRec
<1>3. request' = [request EXCEPT ![r] = new]
  BY DEF Login
<1> HIDE DEF new
<1>4. request' \in [Requests -> RequestRec]
  BY <1>2, <1>3 DEF AdminInv, TypeOK
<1>5. RequestsNameRows'
  BY <1>2, <1>3 DEF AdminInv, TypeOK, RequestsNameRows, Ops, PasswordOps, Args
<1> QED
  BY <1>4, <1>5
  DEF Login, AdminInv, TypeOK, SessionsHaveUser, SessionsHaveAccount, SessionsHaveRole, Serving

\* The account is looked at again when the session is stored.
LEMMA FinalizeKeepsInv ==
    ASSUME AdminInv, NEW r \in Requests, NEW s \in Sessions, FinalizeLogin(r, s)
    PROVE  AdminInv'
<1> DEFINE u == request[r].target
           new == [user |-> u, hash |-> request[r].seen, role |-> user[u].role]
<1>1. u \in Users /\ Serving(u) /\ session' = [session EXCEPT ![s] = new]
  BY DEF FinalizeLogin, AdminInv, RequestsNameRows, UserOps
<1>2. request[r].seen \in Nat /\ user[u].role \in Roles
  BY <1>1 DEF AdminInv, TypeOK, RequestRec, UserRec
<1>3. new \in SessionRec
  BY <1>1, <1>2 DEF SessionRec
<1>4. request' \in [Requests -> RequestRec] /\ RequestsNameRows'
  BY FinishKeepsRequests DEF FinalizeLogin
<1>5. session' \in [Sessions -> SessionRec]
  BY <1>1, <1>3 DEF AdminInv, TypeOK
<1>6. \A t \in Sessions : session'[t] # NoSession =>
          /\ session'[t].user \in Users
          /\ Serving(session'[t].user)
          /\ session'[t].role = user[session'[t].user].role
  BY <1>1 DEF AdminInv, TypeOK, SessionsHaveUser, SessionsHaveAccount, SessionsHaveRole
<1>7. UNCHANGED <<user, merchant>>
  BY DEF FinalizeLogin
<1> QED
  BY <1>4, <1>5, <1>6, <1>7
  DEF AdminInv, TypeOK, SessionsHaveUser, SessionsHaveAccount, SessionsHaveRole, Serving

LEMMA AuthenticateKeepsInv ==
    ASSUME AdminInv, NEW r \in Requests, NEW s \in Sessions, NEW op \in Ops,
           NEW target \in Users \cup Merchants \cup Sessions, NEW arg \in Args(op),
           Authenticate(r, s, op, target, arg)
    PROVE  AdminInv'
<1> DEFINE new == [Idle EXCEPT !.op = op, !.target = target, !.arg = arg]
<1>1. arg \in Status \cup MerchantRoles \cup {None}
  BY DEF Args
<1>2. new \in RequestRec /\ new.op = op /\ new.target = target /\ new.arg = arg
  BY <1>1, RecordsTyped DEF Idle, RequestRec
<1>3. request' = [request EXCEPT ![r] = new]
  BY DEF Authenticate
<1>4. session[s].user \in Users /\ Allowed(session[s].user, op, target, arg)
  BY DEF Authenticate, AdminInv, SessionsHaveUser
<1>5. /\ op \in UserOps => target \in Users
      /\ op = "createUser" => MerchantOf[target] # None
      /\ op = "setMerchantStatus" => target \in Merchants
  BY <1>4 DEF Allowed, UserOps, Ops, PasswordOps
<1> HIDE DEF new
<1>6. request' \in [Requests -> RequestRec]
  BY <1>2, <1>3 DEF AdminInv, TypeOK
<1>7. RequestsNameRows'
  BY <1>2, <1>3, <1>5 DEF AdminInv, TypeOK, RequestsNameRows, Args
<1> QED
  BY <1>6, <1>7, KeepingKeepsInv
  DEF Authenticate, AdminInv, TypeOK, SessionsHaveAccount, Serving

LEMMA ReadKeepsInv ==
    ASSUME AdminInv, NEW r \in Requests, ReadTarget(r)
    PROVE  AdminInv'
<1>1. request[r] \in RequestRec /\ request[r].op \in PasswordOps
  BY DEF ReadTarget, AdminInv, TypeOK
<1>2. request[r].target \in Users
  BY <1>1 DEF AdminInv, RequestsNameRows, UserOps
<1>3. user[request[r].target].hash \in Nat
  BY <1>2 DEF AdminInv, TypeOK, UserRec
<1> DEFINE new == [request[r] EXCEPT !.ready = TRUE, !.seen = user[request[r].target].hash]
<1>4. /\ new \in RequestRec /\ new.op = request[r].op /\ new.target = request[r].target
      /\ new.arg = request[r].arg
  BY <1>1, <1>3 DEF RequestRec
<1>5. request' = [request EXCEPT ![r] = new]
  BY DEF ReadTarget
<1> HIDE DEF new
<1>6. request' \in [Requests -> RequestRec] /\ RequestsNameRows'
  BY <1>4, <1>5 DEF AdminInv, TypeOK, RequestsNameRows, Args
<1> QED
  BY <1>6, KeepingKeepsInv
  DEF ReadTarget, AdminInv, TypeOK, SessionsHaveAccount, Serving

LEMMA SetPasswordKeepsInv ==
    ASSUME AdminInv, NEW r \in Requests, SetPassword(r)
    PROVE  AdminInv'
<1> DEFINE u == request[r].target
<1>1. u \in Users
  BY DEF SetPassword, AdminInv, RequestsNameRows, UserOps
<1>2. user[u] \in UserRec /\ user' = [user EXCEPT ![u].hash = @ + 1]
  BY <1>1 DEF SetPassword, AdminInv, TypeOK
<1>3. user' \in [Users -> UserRec]
  BY <1>1, <1>2 DEF AdminInv, TypeOK, UserRec
<1>4. \A v \in Users : user'[v].role = user[v].role /\ user'[v].status = user[v].status
  BY <1>1, <1>2 DEF AdminInv, TypeOK, UserRec
<1>5. request' \in [Requests -> RequestRec] /\ RequestsNameRows'
  BY FinishKeepsRequests DEF SetPassword
<1>6. SessionsOf({u}) \in SUBSET Sessions /\ session' = Without(SessionsOf({u}))
  BY DEF SessionsOf, SetPassword
<1>7. UNCHANGED merchant /\ merchant' \in [Merchants -> Status]
  BY DEF SetPassword, AdminInv, TypeOK
<1>8. \A s \in Sessions, v \in Users : session[s] # NoSession /\ session[s].user = v =>
          Serving(v)' /\ user'[v].role = user[v].role
  BY <1>4, <1>7 DEF AdminInv, SessionsHaveAccount, Serving
<1> QED
  BY <1>3, <1>5, <1>6, <1>7, <1>8, RevokingKeepsInv

\* An account that did not exist has no sessions yet.
LEMMA CreateKeepsInv ==
    ASSUME AdminInv,
           (\E u \in Users : Bootstrap(u)) \/ (\E r \in Requests : CreateUser(r))
    PROVE  AdminInv'
<1>1. CASE \E u \in Users : Bootstrap(u)
  <2>1. PICK u \in Users : Bootstrap(u)
    BY <1>1
  <2>2. user[u] \in UserRec /\ user' = [user EXCEPT ![u].status = "active"]
    BY <2>1 DEF Bootstrap, AdminInv, TypeOK
  <2>3. user' \in [Users -> UserRec]
    BY <2>2 DEF AdminInv, TypeOK, UserRec, Status
  <2>4. \A v \in Users : /\ user'[v].role = user[v].role
                         /\ user[v].status = "active" => user'[v].status = "active"
    BY <2>2 DEF AdminInv, TypeOK, UserRec
  <2>5. UNCHANGED <<merchant, session, request>>
    BY <2>1 DEF Bootstrap
  <2>6. \A s \in Sessions, v \in Users : session[s] # NoSession /\ session[s].user = v =>
            Serving(v)' /\ user'[v].role = user[v].role
    BY <2>4, <2>5 DEF AdminInv, SessionsHaveAccount, Serving
  <2>7. /\ merchant' \in [Merchants -> Status] /\ request' \in [Requests -> RequestRec]
        /\ RequestsNameRows'
    BY <2>5 DEF AdminInv, TypeOK, RequestsNameRows
  <2> QED
    BY <2>3, <2>5, <2>6, <2>7, KeepingKeepsInv
<1>2. CASE \E r \in Requests : CreateUser(r)
  <2>1. PICK r \in Requests : CreateUser(r)
    BY <1>2
  <2> DEFINE u == request[r].target
             role == IF request[r].arg = None THEN "operator" ELSE request[r].arg
  <2>2. u \in Users /\ user[u] \in UserRec /\ user[u].status = "absent"
    BY <2>1 DEF CreateUser, AdminInv, TypeOK, RequestsNameRows, UserOps
  <2>3. role \in Roles
    BY <2>1 DEF CreateUser, AdminInv, RequestsNameRows, Ops, Args, Roles, MerchantRoles
  <2>4. user' = [user EXCEPT ![u].status = "active", ![u].role = role]
    BY <2>1 DEF CreateUser
  <2>5. user' \in [Users -> UserRec]
    BY <2>2, <2>3, <2>4 DEF AdminInv, TypeOK, UserRec, Status
  <2>6. \A v \in Users : v # u => user'[v] = user[v]
    BY <2>2, <2>4 DEF AdminInv, TypeOK
  <2>7. \A s \in Sessions : session[s] # NoSession => session[s].user # u
    BY <2>2 DEF AdminInv, SessionsHaveAccount, Serving
  <2>8. request' \in [Requests -> RequestRec] /\ RequestsNameRows'
    BY <2>1, FinishKeepsRequests DEF CreateUser
  <2>9. UNCHANGED <<merchant, session>> /\ merchant' \in [Merchants -> Status]
    BY <2>1 DEF CreateUser, AdminInv, TypeOK
  <2>10. \A s \in Sessions, v \in Users : session[s] # NoSession /\ session[s].user = v =>
             Serving(v)' /\ user'[v].role = user[v].role
    BY <2>6, <2>7, <2>9 DEF AdminInv, SessionsHaveAccount, Serving
  <2> QED
    BY <2>5, <2>8, <2>9, <2>10, KeepingKeepsInv
<1> QED
  BY <1>1, <1>2

LEMMA SetUserKeepsInv ==
    ASSUME AdminInv, NEW r \in Requests, SetUserStatus(r) \/ SetUserRole(r)
    PROVE  AdminInv'
<1> DEFINE u == request[r].target
<1>1. u \in Users /\ user[u] \in UserRec
  BY DEF SetUserStatus, SetUserRole, AdminInv, TypeOK, RequestsNameRows, UserOps
<1>2. request' \in [Requests -> RequestRec] /\ RequestsNameRows'
  BY FinishKeepsRequests DEF SetUserStatus, SetUserRole
<1>3. SessionsOf({u}) \in SUBSET Sessions /\ {} \in SUBSET Sessions /\ session = Without({})
  BY DEF SessionsOf, AdminInv, TypeOK, Without
<1>4. CASE SetUserStatus(r)
  <2>1. request[r].arg \in Status
    BY <1>4 DEF SetUserStatus, AdminInv, RequestsNameRows, Ops, Args
  <2>2. user' = [user EXCEPT ![u].status = request[r].arg]
    BY <1>4 DEF SetUserStatus
  <2>3. user' \in [Users -> UserRec]
    BY <1>1, <2>1, <2>2 DEF AdminInv, TypeOK, UserRec
  <2>4. /\ user'[u].status = request[r].arg /\ user'[u].role = user[u].role
        /\ \A v \in Users : v # u => user'[v] = user[v]
    BY <1>1, <2>2 DEF AdminInv, TypeOK, UserRec
  <2>5. UNCHANGED merchant /\ merchant' \in [Merchants -> Status]
    BY <1>4 DEF SetUserStatus, AdminInv, TypeOK
  <2>6. CASE request[r].arg = "disabled"
    <3>1. session' = Without(SessionsOf({u}))
      BY <1>4, <2>6 DEF SetUserStatus
    <3>2. \A s \in Sessions \ SessionsOf({u}), v \in Users :
              session[s] # NoSession /\ session[s].user = v =>
                  Serving(v)' /\ user'[v].role = user[v].role
      BY <2>4, <2>5 DEF SessionsOf, AdminInv, SessionsHaveAccount, Serving
    <3> QED
      BY <1>2, <1>3, <2>3, <2>5, <3>1, <3>2, RevokingKeepsInv
  <2>7. CASE request[r].arg = "active"
    <3>1. session' = session
      BY <1>4, <2>7 DEF SetUserStatus
    <3>2. \A s \in Sessions, v \in Users : session[s] # NoSession /\ session[s].user = v =>
              Serving(v)' /\ user'[v].role = user[v].role
      BY <2>4, <2>5, <2>7 DEF AdminInv, SessionsHaveAccount, Serving
    <3> QED
      BY <1>2, <2>3, <2>5, <3>1, <3>2, KeepingKeepsInv
  <2> QED
    BY <2>1, <2>6, <2>7 DEF Status
<1>5. CASE SetUserRole(r)
  <2>1. request[r].arg \in Roles
    BY <1>5 DEF SetUserRole, AdminInv, RequestsNameRows, Ops, Args, Roles
  <2>2. user' = [user EXCEPT ![u].role = request[r].arg]
    BY <1>5 DEF SetUserRole
  <2>3. user' \in [Users -> UserRec]
    BY <1>1, <2>1, <2>2 DEF AdminInv, TypeOK, UserRec
  <2>4. /\ user'[u].role = request[r].arg /\ user'[u].status = user[u].status
        /\ \A v \in Users : v # u => user'[v] = user[v]
    BY <1>1, <2>2 DEF AdminInv, TypeOK, UserRec
  <2>5. UNCHANGED merchant /\ merchant' \in [Merchants -> Status]
    BY <1>5 DEF SetUserRole, AdminInv, TypeOK
  <2>6. CASE user[u].role = request[r].arg
    <3>1. session' = session
      BY <1>5, <2>6 DEF SetUserRole
    <3>2. \A s \in Sessions, v \in Users : session[s] # NoSession /\ session[s].user = v =>
              Serving(v)' /\ user'[v].role = user[v].role
      BY <2>4, <2>5, <2>6 DEF AdminInv, SessionsHaveAccount, Serving
    <3> QED
      BY <1>2, <2>3, <2>5, <3>1, <3>2, KeepingKeepsInv
  <2>7. CASE user[u].role # request[r].arg
    <3>1. session' = Without(SessionsOf({u}))
      BY <1>5, <2>7 DEF SetUserRole
    <3>2. \A s \in Sessions \ SessionsOf({u}), v \in Users :
              session[s] # NoSession /\ session[s].user = v =>
                  Serving(v)' /\ user'[v].role = user[v].role
      BY <2>4, <2>5 DEF SessionsOf, AdminInv, SessionsHaveAccount, Serving
    <3> QED
      BY <1>2, <1>3, <2>3, <2>5, <3>1, <3>2, RevokingKeepsInv
  <2> QED
    BY <2>6, <2>7
<1> QED
  BY <1>4, <1>5

LEMMA SetMerchantKeepsInv ==
    ASSUME AdminInv, NEW r \in Requests, SetMerchantStatus(r)
    PROVE  AdminInv'
<1> DEFINE m == request[r].target
           S == SessionsOf({u \in Users : MerchantOf[u] = m})
<1>1. m \in Merchants /\ request[r].arg \in Status
  BY DEF SetMerchantStatus, AdminInv, RequestsNameRows, Ops, Args
<1>2. merchant' = [merchant EXCEPT ![m] = request[r].arg]
  BY DEF SetMerchantStatus
<1>3. merchant' \in [Merchants -> Status] /\ UNCHANGED user /\ user' \in [Users -> UserRec]
  BY <1>1, <1>2 DEF SetMerchantStatus, AdminInv, TypeOK
<1>4. merchant'[m] = request[r].arg /\ \A n \in Merchants : n # m => merchant'[n] = merchant[n]
  BY <1>1, <1>2 DEF AdminInv, TypeOK
<1>5. request' \in [Requests -> RequestRec] /\ RequestsNameRows'
  BY FinishKeepsRequests DEF SetMerchantStatus
<1>6. \A u \in Users : MerchantOf[u] \in Merchants \cup {None}
  BY MerchantsAssumption
<1>7. S \in SUBSET Sessions
  BY DEF SessionsOf
<1>8. CASE request[r].arg = "disabled"
  <2>1. session' = Without(S)
    BY <1>8 DEF SetMerchantStatus
  <2>2. \A s \in Sessions \ S, v \in Users : session[s] # NoSession /\ session[s].user = v =>
            Serving(v)' /\ user'[v].role = user[v].role
    BY <1>3, <1>4, <1>6 DEF SessionsOf, AdminInv, SessionsHaveAccount, Serving
  <2> QED
    BY <1>3, <1>5, <1>7, <2>1, <2>2, RevokingKeepsInv
<1>9. CASE request[r].arg = "active"
  <2>1. session' = session
    BY <1>9 DEF SetMerchantStatus
  <2>2. \A s \in Sessions, v \in Users : session[s] # NoSession /\ session[s].user = v =>
            Serving(v)' /\ user'[v].role = user[v].role
    BY <1>3, <1>4, <1>6, <1>9 DEF AdminInv, SessionsHaveAccount, Serving
  <2> QED
    BY <1>3, <1>5, <2>1, <2>2, KeepingKeepsInv
<1> QED
  BY <1>1, <1>8, <1>9 DEF Status

\* Steps that take at most one session away and touch no account.
LEMMA EndingKeepsInv ==
    ASSUME AdminInv,
           \/ \E r \in Requests : Logout(r) \/ Refuse(r)
           \/ \E s \in Sessions : ExpireSession(s)
    PROVE  AdminInv'
<1>1. UNCHANGED <<user, merchant>>
  BY DEF Logout, Refuse, ExpireSession
<1>2. request' \in [Requests -> RequestRec] /\ RequestsNameRows'
  <2>1. CASE \E r \in Requests : Logout(r) \/ Refuse(r)
    BY <2>1, FinishKeepsRequests DEF Logout, Refuse
  <2>2. CASE \E s \in Sessions : ExpireSession(s)
    BY <2>2 DEF ExpireSession, AdminInv, TypeOK, RequestsNameRows
  <2> QED
    BY <2>1, <2>2
<1>3. \E t : session' = Without({t} \cap Sessions)
  <2>1. session = Without({})
    BY DEF AdminInv, TypeOK, Without
  <2>2. CASE \E r \in Requests : Logout(r)
    BY <2>2 DEF Logout, Without
  <2>3. CASE \E r \in Requests : Refuse(r)
    <3>1. session' = Without({None} \cap Sessions)
      BY <2>1, <2>3, NoneAssumption DEF Refuse, Without
    <3> QED
      BY <3>1
  <2>4. CASE \E s \in Sessions : ExpireSession(s)
    BY <2>4 DEF ExpireSession, Without
  <2> QED
    BY <2>2, <2>3, <2>4
<1>4. \A s \in Sessions, v \in Users : session[s] # NoSession /\ session[s].user = v =>
          Serving(v)' /\ user'[v].role = user[v].role
  BY <1>1 DEF AdminInv, SessionsHaveAccount, Serving
<1> QED
  BY <1>1, <1>2, <1>3, <1>4, RevokingKeepsInv DEF AdminInv, TypeOK

LEMMA AdminStep == AdminInv /\ [Next]_vars => AdminInv'
<1> SUFFICES ASSUME AdminInv, [Next]_vars
             PROVE  AdminInv'
  OBVIOUS
<1>1. ASSUME NEW r \in Requests, Step(r)
      PROVE  AdminInv'
  BY <1>1, LoginKeepsInv, FinalizeKeepsInv, AuthenticateKeepsInv, ReadKeepsInv,
     SetPasswordKeepsInv, CreateKeepsInv, SetUserKeepsInv, SetMerchantKeepsInv,
     EndingKeepsInv DEF Step
<1>2. CASE UNCHANGED vars
  BY <1>2 DEF vars, AdminInv, TypeOK, RequestsNameRows, SessionsHaveUser,
              SessionsHaveAccount, SessionsHaveRole, Serving
<1> QED
  BY <1>1, <1>2, CreateKeepsInv, EndingKeepsInv DEF Next

\* Every variable of the account and session tables keeps its type.
THEOREM AdminTyped == Spec => []TypeOK
<1>1. AdminInv => TypeOK
  BY DEF AdminInv
<1> QED
  BY <1>1, AdminInitial, AdminStep, PTL DEF Spec

\* Whatever logins were verified before, a disabled account or merchant has no session
\* (finalizeLogin, setMerchantUserStatus, setMerchantStatus).
THEOREM AccountsServe == Spec => []SessionsHaveAccount
<1>1. AdminInv => SessionsHaveAccount
  BY DEF AdminInv
<1> QED
  BY <1>1, AdminInitial, AdminStep, PTL DEF Spec

\* No session outlives the role it was opened under (updateMerchantUserRole).
THEOREM RolesCurrent == Spec => []SessionsHaveRole
<1>1. AdminInv => SessionsHaveRole
  BY DEF AdminInv
<1> QED
  BY <1>1, AdminInitial, AdminStep, PTL DEF Spec

-----------------------------------------------------------------------------
\* Only the compare-and-set of a password changes a hash.
LEMMA PasswordStep ==
    AdminInv /\ [Next]_vars =>
        \A u \in Users : user'[u].hash # user[u].hash =>
            \E r \in Requests :
                /\ request[r].op \in PasswordOps /\ request[r].target = u
                /\ request[r].seen = user[u].hash /\ request'[r] = Idle
<1> SUFFICES ASSUME AdminInv, [Next]_vars, NEW u \in Users, user'[u].hash # user[u].hash
             PROVE  \E r \in Requests :
                        /\ request[r].op \in PasswordOps /\ request[r].target = u
                        /\ request[r].seen = user[u].hash /\ request'[r] = Idle
  OBVIOUS
<1>1. user \in [Users -> UserRec] /\ request \in [Requests -> RequestRec]
  BY DEF AdminInv, TypeOK
<1>2. ASSUME NEW r \in Requests, SetPassword(r)
      PROVE  \E q \in Requests :
                 /\ request[q].op \in PasswordOps /\ request[q].target = u
                 /\ request[q].seen = user[u].hash /\ request'[q] = Idle
  <2>1. request[r].target = u
    BY <1>1, <1>2 DEF SetPassword
  <2>2. request'[r] = Idle
    BY <1>1, <1>2 DEF SetPassword, Finish
  <2> QED
    BY <1>2, <2>1, <2>2 DEF SetPassword, HashUnchanged
<1>3. ASSUME NEW r \in Requests, Step(r), ~SetPassword(r)
      PROVE  FALSE
  <2>1. CASE SetUserStatus(r)
    BY <1>1, <2>1 DEF SetUserStatus, UserRec
  <2>2. CASE SetUserRole(r)
    BY <1>1, <2>2 DEF SetUserRole, UserRec
  <2>3. CASE CreateUser(r)
    BY <1>1, <2>3 DEF CreateUser, UserRec
  <2>4. CASE UNCHANGED user
    BY <2>4
  <2> QED
    BY <1>3, <2>1, <2>2, <2>3, <2>4
    DEF Step, Login, FinalizeLogin, Authenticate, ReadTarget, SetMerchantStatus, Logout, Refuse
<1>4. ASSUME NEW v \in Users, Bootstrap(v)
      PROVE  FALSE
  BY <1>1, <1>4 DEF Bootstrap, UserRec
<1> QED
  BY <1>2, <1>3, <1>4 DEF Next, ExpireSession, vars

\* Two changes of a password that overlap never overwrite each other
\* (changePassword, resetMerchantUserPassword: PASSWORD_CHANGED).
THEOREM PasswordsKept == Spec => NoLostPasswordChange
BY PasswordStep, AdminInitial, AdminStep, PTL DEF Spec, NoLostPasswordChange
=============================================================================
