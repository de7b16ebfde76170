----------------------------- MODULE ServerEdge -----------------------------
(***************************************************************************)
(* The edge of the server: the life of a signed client request from its    *)
(* connection to its answer (app.js, router.js), the replay guard it       *)
(* passes (replay-guard.js, security-state.js), and the shutdown of the    *)
(* runtime around it (close() in app.js, server.js).                       *)
(*                                                                         *)
(* A step is what Node's event loop runs between two awaits.  A connection *)
(* carries one request.  A message is a (scope, timestamp, nonce) triple   *)
(* that clients, or those who recorded them, may send any number of times. *)
(* Timers that only limit a wait may fire at any time.                     *)
(***************************************************************************)
EXTENDS Integers, FiniteSets

CONSTANTS
    Requests,
    Messages,
    Drivers,   \* of the security state: a subset of {"memory", "redis"}
    Skew,      \* clockSkewMilliseconds
    Padding,   \* NONCE_TTL_PADDING_MILLISECONDS
    MaxTime,   \* the clock stops here (a bound)
    MaxLives   \* processes started one after the other (a bound)

ASSUME EdgeLimits ==
    /\ Skew \in Nat /\ Padding \in Nat \ {0} /\ MaxTime \in Nat /\ MaxLives \in Nat
    /\ Drivers \subseteq {"memory", "redis"}
    /\ Messages # {}

ASSUME FiniteRequests == IsFiniteSet(Requests)

VARIABLES
    lifecycle,  \* "running", "closing" or "closed"
    closing,    \* what close() waits for
    forced,     \* forceClosed
    active,     \* activeRequests
    resources,  \* the store and the security state are open
    open,       \* the requests whose connection is open
    request,
    nonces,     \* when the security state forgets a message
    life,       \* which process this is
    now,
    stamp,      \* the timestamp in a message
    driver

lifeVars == <<lifecycle, closing, forced, resources>>
inputs == <<stamp, driver>>
vars == <<lifeVars, active, open, request, nonces, life, now, inputs>>

\* "accepted", "late" and "life" are not in the code: whether the guard let the request pass,
\* whether Redis then answered later than the padding makes up for, and in which process; kept
\* for the properties only.
Request == [at : {"new", "received", "reading", "checking", "working", "done"},
            message : Messages, captured : Nat,
            accepted : BOOLEAN, late : BOOLEAN, life : Nat]

NewRequest == [at |-> "new", message |-> CHOOSE m \in Messages : TRUE, captured |-> 0,
               accepted |-> FALSE, late |-> FALSE, life |-> 0]

Init ==
    /\ lifecycle = "running" /\ closing = "no" /\ forced = FALSE /\ resources = TRUE
    /\ active = 0
    /\ open = {}
    /\ request = [r \in Requests |-> NewRequest]
    /\ nonces = [m \in Messages |-> 0]
    /\ life = 1
    /\ now = 0
    /\ stamp \in [Messages -> 0..MaxTime]
    /\ driver \in Drivers

-----------------------------------------------------------------------------
At(r, place) == request[r].at = place

Handling(r) == request[r].at \in {"received", "reading", "checking", "working"}

\* A connection that has sent no request yet.
Silent(r) == r \in open /\ At(r, "new")

\* A connection whose answer has been written.
Idle == {r \in open : At(r, "done")}

Goto(r, place) == request' = [request EXCEPT ![r].at = place]

Connect(r) ==
    /\ lifecycle = "running"
    /\ At(r, "new") /\ r \notin open
    /\ open' = open \cup {r}
    /\ UNCHANGED <<lifeVars, active, request, nonces, life, now, inputs>>

\* The peer goes, or Node destroys the connection for being slow or kept alive too long.
Disconnect(r) ==
    /\ r \in open
    /\ open' = open \ {r}
    /\ UNCHANGED <<lifeVars, active, request, nonces, life, now, inputs>>

\* Mutant of MayBegin: the lifecycle is not checked.
MayBeginAlways == TRUE

\* beginRequest
MayBegin == lifecycle = "running"

Arrive(r, m) ==
    /\ Silent(r)
    /\ \/ /\ MayBegin
          /\ active' = active + 1
          /\ request' = [request EXCEPT ![r] =
                [NewRequest EXCEPT !.at = "received", !.message = m, !.life = life]]
          /\ UNCHANGED open
       \/ /\ ~MayBegin
          /\ Goto(r, "done")
          /\ open' = open \ {r}      \* 503 with Connection: close
          /\ UNCHANGED active
    /\ UNCHANGED <<lifeVars, nonces, life, now, inputs>>

\* endRequest, once the answer is written or the connection lost; the last one wakes close().
EndRequest(r) ==
    /\ Goto(r, "done")
    /\ active' = IF active = 0 THEN 0 ELSE active - 1
    /\ closing' = IF active' = 0 /\ closing = "draining" THEN "drained" ELSE closing
    /\ UNCHANGED <<lifecycle, forced, resources, open>>

\* requestGate is asked after the static files have been looked up.
Gate(r) ==
    /\ At(r, "received")
    /\ \/ /\ lifecycle = "running"
          /\ Goto(r, "reading")
          /\ UNCHANGED <<lifeVars, active, open>>
       \/ lifecycle # "running" /\ EndRequest(r)
    /\ UNCHANGED <<nonces, life, now, inputs>>

\* An error before the guard: the rate limit, the body, the application, or a lost peer.
Refuse(r) ==
    /\ At(r, "reading")
    /\ EndRequest(r)
    /\ UNCHANGED <<nonces, life, now, inputs>>

-----------------------------------------------------------------------------
(***************************************************************************)
(* The replay guard.                                                       *)
(***************************************************************************)
Fresh(m, captured) == captured - Skew <= stamp[m] /\ stamp[m] <= captured + Skew

\* Mutant of NonceTtl: a message is remembered for one window only.
NonceTtlOneWindow(m, captured) == Skew + Padding

NonceTtl(m, captured) ==
    LET window == 2 * Skew + Padding
        future == stamp[m] + Skew - captured + Padding
    IN  IF future > window THEN future ELSE window

Used(m) == now < nonces[m]

Remember(r, captured) ==
    LET m == request[r].message IN
    nonces' = [nonces EXCEPT ![m] = now + NonceTtl(m, captured)]

Accept(r, late) ==
    request' = [request EXCEPT ![r].at = "working", ![r].accepted = TRUE, ![r].late = late]

\* assertFresh, up to the security state; MemorySecurityState answers in the same step, and a
\* Redis client that was closed refuses the command.  A lost peer does not stop the handler.
Guard(r) ==
    /\ At(r, "reading")
    /\ LET m == request[r].message IN
       \/ /\ ~Fresh(m, now) \/ (IF driver = "memory" THEN Used(m) ELSE ~resources)
          /\ EndRequest(r)
          /\ UNCHANGED nonces
       \/ /\ Fresh(m, now) /\ driver = "memory" /\ ~Used(m)
          /\ Remember(r, now)
          /\ Accept(r, FALSE)
          /\ UNCHANGED <<lifeVars, active, open>>
       \/ /\ Fresh(m, now) /\ driver = "redis" /\ resources
          /\ request' = [request EXCEPT ![r].at = "checking", ![r].captured = now]
          /\ UNCHANGED <<lifeVars, active, open, nonces>>
    /\ UNCHANGED <<life, now, inputs>>

\* Redis executes SET NX PX and the handler goes on with its answer: however late, for the
\* client queues commands while it reconnects, and after close() too, which lets those finish.
RedisAnswers(r) ==
    /\ At(r, "checking")
    /\ IF Used(request[r].message)
       THEN EndRequest(r) /\ UNCHANGED nonces
       ELSE /\ Remember(r, request[r].captured)
            /\ Accept(r, now - request[r].captured >= Padding)
            /\ UNCHANGED <<lifeVars, active, open>>
    /\ UNCHANGED <<life, now, inputs>>

\* The command fails, before or after Redis executed it.
RedisFails(r) ==
    /\ At(r, "checking")
    /\ UNCHANGED nonces \/ (~Used(request[r].message) /\ Remember(r, request[r].captured))
    /\ EndRequest(r)
    /\ UNCHANGED <<life, now, inputs>>

\* The transaction ends, well or not: with the store closed it is a 503.
Finish(r) ==
    /\ At(r, "working")
    /\ EndRequest(r)
    /\ UNCHANGED <<nonces, life, now, inputs>>

-----------------------------------------------------------------------------
(***************************************************************************)
(* close().                                                                *)
(***************************************************************************)
Close ==
    /\ lifecycle = "running"
    /\ lifecycle' = "closing"
    /\ closing' = IF active = 0 THEN "drained" ELSE "draining"
    /\ open' = open \ Idle      \* server.close()
    /\ UNCHANGED <<forced, resources, active, request, nonces, life, now, inputs>>

\* Mutant of DrainTimeout: the connections are left to their peers.
DrainTimeoutGently ==
    /\ closing = "draining"
    /\ closing' = "drained"
    /\ UNCHANGED <<open, forced, lifecycle, resources, active, request, nonces, life, now, inputs>>

\* closeAllConnections; handlers at work are not stopped by it.
DrainTimeout ==
    /\ closing = "draining"
    /\ closing' = "drained"
    /\ forced' = TRUE
    /\ open' = {}
    /\ UNCHANGED <<lifecycle, resources, active, request, nonces, life, now, inputs>>

CloseResources ==
    /\ closing = "drained"
    /\ open' = open \ Idle
    /\ resources' = FALSE
    /\ closing' = "resources"
    /\ UNCHANGED <<lifecycle, forced, active, request, nonces, life, now, inputs>>

\* Promise.allSettled: whether they closed well or failed.
ResourcesSettled ==
    /\ closing = "resources"
    /\ closing' = "server"
    /\ UNCHANGED <<lifecycle, forced, resources, open, active, request, nonces, life, now, inputs>>

\* serverClosed resolves with the last connection; only a forced close() limits the wait.
ServerClosed ==
    /\ closing = "server"
    /\ open = {} \/ forced
    /\ lifecycle' = "closed"
    /\ closing' = "no"
    /\ UNCHANGED <<forced, resources, open, active, request, nonces, life, now, inputs>>

\* A new process, after close() or a crash: only Redis remembers.
Restart ==
    /\ life < MaxLives
    /\ life' = life + 1
    /\ lifecycle' = "running" /\ closing' = "no" /\ forced' = FALSE /\ resources' = TRUE
    /\ active' = 0
    /\ open' = {}
    /\ request' = [r \in Requests |->
          IF Handling(r) THEN [request[r] EXCEPT !.at = "done"] ELSE request[r]]
    /\ nonces' = IF driver = "redis" THEN nonces ELSE [m \in Messages |-> 0]
    /\ UNCHANGED <<now, inputs>>

Tick ==
    /\ now < MaxTime
    /\ now' = now + 1
    /\ UNCHANGED <<lifeVars, active, open, request, nonces, life, inputs>>

RequestStep(r) ==
    \/ Connect(r) \/ Disconnect(r)
    \/ \E m \in Messages : Arrive(r, m)
    \/ Gate(r) \/ Refuse(r) \/ Guard(r) \/ RedisAnswers(r) \/ RedisFails(r) \/ Finish(r)

CloseStep == Close \/ DrainTimeout \/ CloseResources \/ ResourcesSettled \/ ServerClosed

Next == (\E r \in Requests : RequestStep(r)) \/ CloseStep \/ Restart \/ Tick

Spec == Init /\ [][Next]_vars

(***************************************************************************)
(* Fairness: the event loop runs what is ready, timers fire, the store     *)
(* settles every call and Redis its QUIT; Node drops idle connections and  *)
(* ends the body of a request whose connection is gone, if the handler     *)
(* still waits for it.  A SET has no time-out and may stay unanswered;     *)
(* peers owe nothing.                                                      *)
(***************************************************************************)
Fairness ==
    /\ \A r \in Requests :
          /\ WF_vars(Gate(r)) /\ WF_vars(Finish(r))
          /\ WF_vars(r \notin open /\ (Refuse(r) \/ Guard(r)))
          /\ WF_vars(At(r, "done") /\ Disconnect(r))
    /\ WF_vars(DrainTimeout) /\ WF_vars(CloseResources)
    /\ WF_vars(ResourcesSettled) /\ WF_vars(ServerClosed)

FairSpec == Spec /\ Fairness

(***************************************************************************)
(* Properties.                                                             *)
(***************************************************************************)

\* Every variable keeps its type.
TypeOK ==
    /\ lifecycle \in {"running", "closing", "closed"}
    /\ closing \in {"no", "draining", "drained", "resources", "server"}
    /\ forced \in BOOLEAN /\ resources \in BOOLEAN
    /\ active \in Nat
    /\ open \in SUBSET Requests
    /\ request \in [Requests -> Request]
    /\ nonces \in [Messages -> Nat]
    /\ life \in Nat
    /\ now \in Nat
    /\ stamp \in [Messages -> 0..MaxTime]
    /\ driver \in Drivers

\* A signed message passes the guard once, however often it is sent again: a nonce is kept
\* for as long as any clock reading takes the timestamp for fresh, and for the padding.  What
\* the padding does not make up for is a SET that Redis executed that much later than the
\* clock was read, and what MemorySecurityState does not survive is a restart.
AcceptedOnce ==
    \A r, s \in Requests :
        /\ r # s
        /\ request[r].accepted /\ request[s].accepted
        /\ request[r].message = request[s].message
        => IF driver = "memory" THEN request[r].life # request[s].life
                                ELSE request[r].late \/ request[s].late

\* A handler never finds the store or the security state closed under it, but for those the
\* shutdown timeout gave up on.
WorkKeepsStoreOpen ==
    ~resources /\ ~forced => active = 0 /\ \A r \in Requests : ~Handling(r)

\* close() ends, whatever handlers and peers do, unless a connection that has never sent a
\* request is held open: for that one, a close() that was not forced waits without limit.
ShutdownEnds ==
    (\A r \in Requests : []<>~Silent(r)) => (lifecycle = "closing" ~> lifecycle # "closing")
=============================================================================
