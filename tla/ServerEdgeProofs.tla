-------------------------- MODULE ServerEdgeProofs --------------------------
(***************************************************************************)
(* Two facts about the edge of the server for every window and padding,    *)
(* any number of requests and any delay of Redis: a message passes the     *)
(* replay guard twice only where a SET was late by the padding or more, or *)
(* the memory that held it ended with its process; and shutdown closes the *)
(* store under nobody it has not given up on.  The first rests on what the *)
(* security state still remembers, the second on activeRequests counting   *)
(* exactly the handlers at work.                                           *)
(***************************************************************************)
EXTENDS ServerEdge, FiniteSetTheorems, TLAPS

Busy == {r \in Requests : Handling(r)}

Counted == active = Cardinality(Busy)

\* Nobody is at work once close() has stopped waiting, unless it was forced.
Phase ==
    /\ lifecycle = "running" => resources /\ closing = "no"
    /\ ~forced /\ (closing \in {"drained", "resources", "server"}
                   \/ lifecycle = "closed" \/ ~resources) => active = 0

\* A SET on its way to Redis is for a message that was fresh when the clock was read.
Underway ==
    \A r \in Requests : At(r, "checking") =>
        /\ driver = "redis"
        /\ Fresh(request[r].message, request[r].captured)
        /\ request[r].captured <= now

\* The life of a handler is this one, and only the guard accepts.
Lived ==
    \A r \in Requests :
        /\ request[r].life <= life
        /\ Handling(r) => request[r].life = life
        /\ request[r].accepted => request[r].at \in {"working", "done"}

\* What was accepted is remembered for as long as its timestamp can be fresh, and longer by
\* the padding.
Remembered ==
    \A r \in Requests :
        request[r].accepted /\ (driver = "redis" \/ request[r].life = life) =>
            nonces[request[r].message] >= stamp[request[r].message] + Skew + Padding

EdgeInv == TypeOK /\ Underway /\ Lived /\ Remembered /\ AcceptedOnce

-----------------------------------------------------------------------------
LEMMA NewTyped == NewRequest \in Request
<1>1. (CHOOSE m \in Messages : TRUE) \in Messages
  BY EdgeLimits
<1> QED
  BY <1>1 DEF NewRequest, Request

LEMMA TtlTyped ==
    ASSUME TypeOK, NEW m \in Messages, NEW captured \in Nat
    PROVE  /\ NonceTtl(m, captured) \in Nat
           /\ NonceTtl(m, captured) >= 2 * Skew + Padding
<1>1. stamp[m] \in Nat
  BY EdgeLimits DEF TypeOK
<1> QED
  BY <1>1, EdgeLimits DEF NonceTtl

LEMMA RememberTyped ==
    ASSUME TypeOK, NEW r \in Requests, NEW captured \in Nat, Remember(r, captured)
    PROVE  nonces' \in [Messages -> Nat]
<1>1. request[r].message \in Messages
  BY DEF TypeOK, Request
<1>2. now + NonceTtl(request[r].message, captured) \in Nat
  BY <1>1, TtlTyped DEF TypeOK
<1> QED
  BY <1>1, <1>2 DEF TypeOK, Remember

LEMMA MoveTyped ==
    ASSUME TypeOK, NEW r \in Requests,
           NEW place \in {"new", "received", "reading", "checking", "working", "done"},
           Goto(r, place)
    PROVE  request' \in [Requests -> Request]
<1>1. [request[r] EXCEPT !.at = place] \in Request
  BY DEF TypeOK, Request
<1> QED
  BY <1>1 DEF TypeOK, Goto

LEMMA AcceptTyped ==
    ASSUME TypeOK, NEW r \in Requests, NEW late \in BOOLEAN, Accept(r, late)
    PROVE  request' \in [Requests -> Request]
<1>1. [request[r] EXCEPT !.at = "working", !.accepted = TRUE, !.late = late] \in Request
  BY DEF TypeOK, Request
<1> QED
  BY <1>1 DEF TypeOK, Accept

LEMMA EndTyped ==
    ASSUME TypeOK, NEW r \in Requests, EndRequest(r)
    PROVE  /\ request' \in [Requests -> Request]
           /\ active' \in Nat
           /\ closing' \in {"no", "draining", "drained", "resources", "server"}
           /\ UNCHANGED <<lifecycle, forced, resources, open>>
  BY MoveTyped DEF TypeOK, EndRequest

LEMMA TypeStep == TypeOK /\ [Next]_vars => TypeOK'
<1> SUFFICES ASSUME TypeOK, [Next]_vars
             PROVE  TypeOK'
  OBVIOUS
<1>1. ASSUME NEW r \in Requests, RequestStep(r)
      PROVE  TypeOK'
  <2>1. CASE Connect(r) \/ Disconnect(r)
    BY <2>1 DEF TypeOK, Connect, Disconnect, lifeVars, inputs
  <2>2. ASSUME NEW m \in Messages, Arrive(r, m)
        PROVE  TypeOK'
    <3>1. CASE MayBegin /\ active' = active + 1
               /\ request' = [request EXCEPT ![r] =
                     [NewRequest EXCEPT !.at = "received", !.message = m, !.life = life]]
               /\ UNCHANGED open
      <4>1. [NewRequest EXCEPT !.at = "received", !.message = m, !.life = life] \in Request
        BY NewTyped DEF TypeOK, Request
      <4>2. request' \in [Requests -> Request]
        BY <3>1, <4>1 DEF TypeOK
      <4> QED
        BY <2>2, <3>1, <4>2 DEF TypeOK, Arrive, lifeVars, inputs
    <3>2. CASE Goto(r, "done") /\ open' = open \ {r} /\ UNCHANGED active
      BY <2>2, <3>2, MoveTyped DEF TypeOK, Arrive, lifeVars, inputs
    <3> QED
      BY <2>2, <3>1, <3>2 DEF Arrive
  <2>3. CASE Gate(r) /\ ~EndRequest(r)
    BY <2>3, MoveTyped DEF TypeOK, Gate, lifeVars, inputs
  <2>4. CASE Refuse(r) \/ Finish(r) \/ (Gate(r) /\ EndRequest(r))
    BY <2>4, EndTyped DEF TypeOK, Refuse, Finish, Gate, inputs
  <2>5. CASE Guard(r)
    <3>1. CASE EndRequest(r) /\ UNCHANGED nonces
      BY <2>5, <3>1, EndTyped DEF TypeOK, Guard, inputs
    <3>2. CASE Remember(r, now) /\ Accept(r, FALSE) /\ UNCHANGED <<lifeVars, active, open>>
      <4>1. nonces' \in [Messages -> Nat]
        BY <3>2, RememberTyped DEF TypeOK
      <4> QED
        BY <2>5, <3>2, <4>1, AcceptTyped DEF TypeOK, Guard, lifeVars, inputs
    <3>3. CASE /\ request' = [request EXCEPT ![r].at = "checking", ![r].captured = now]
               /\ UNCHANGED <<lifeVars, active, open, nonces>>
      <4>1. [request[r] EXCEPT !.at = "checking", !.captured = now] \in Request
        BY DEF TypeOK, Request
      <4>2. request' \in [Requests -> Request]
        BY <3>3, <4>1 DEF TypeOK
      <4> QED
        BY <2>5, <3>3, <4>2 DEF TypeOK, Guard, lifeVars, inputs
    <3> QED
      BY <2>5, <3>1, <3>2, <3>3 DEF Guard
  <2>6. CASE RedisAnswers(r)
    <3>1. CASE EndRequest(r) /\ UNCHANGED nonces
      BY <2>6, <3>1, EndTyped DEF TypeOK, RedisAnswers, inputs
    <3>2. CASE Remember(r, request[r].captured)
               /\ Accept(r, now - request[r].captured >= Padding)
               /\ UNCHANGED <<lifeVars, active, open>>
      <4>1. nonces' \in [Messages -> Nat]
        BY <3>2, RememberTyped DEF TypeOK, Request
      <4>2. request' \in [Requests -> Request]
        <5> DEFINE late == now - request[r].captured >= Padding
        <5>1. late \in BOOLEAN /\ Accept(r, late)
          BY <3>2
        <5> HIDE DEF late
        <5> QED
          BY <5>1, AcceptTyped
      <4> QED
        BY <2>6, <3>2, <4>1, <4>2 DEF TypeOK, RedisAnswers, lifeVars, inputs
    <3> QED
      BY <2>6, <3>1, <3>2 DEF RedisAnswers
  <2>7. CASE RedisFails(r)
    <3>1. nonces' \in [Messages -> Nat]
      BY <2>7, RememberTyped DEF TypeOK, RedisFails, Request
    <3> QED
      BY <2>7, <3>1, EndTyped DEF TypeOK, RedisFails, inputs
  <2> QED
    BY <1>1, <2>1, <2>2, <2>3, <2>4, <2>5, <2>6, <2>7 DEF RequestStep
<1>2. CASE CloseStep
  BY <1>2 DEF TypeOK, CloseStep, Close, DrainTimeout, CloseResources, ResourcesSettled,
              ServerClosed, Idle, inputs
<1>3. CASE Restart
  <2>1. request' \in [Requests -> Request]
    BY <1>3 DEF TypeOK, Restart, Request
  <2>2. nonces' \in [Messages -> Nat]
    BY <1>3 DEF TypeOK, Restart
  <2>3. life' \in Nat /\ open' = {} /\ active' = 0 /\ lifecycle' = "running"
        /\ closing' = "no" /\ forced' = FALSE /\ resources' = TRUE
        /\ UNCHANGED <<now, stamp, driver>>
    BY <1>3 DEF TypeOK, Restart, inputs
  <2> QED
    BY <2>1, <2>2, <2>3 DEF TypeOK
<1>4. CASE Tick \/ UNCHANGED vars
  BY <1>4 DEF TypeOK, Tick, vars, lifeVars, inputs
<1> QED
  BY <1>1, <1>2, <1>3, <1>4 DEF Next

LEMMA Initial == Init => TypeOK
<1> SUFFICES ASSUME Init
             PROVE  TypeOK
  OBVIOUS
<1> QED
  BY NewTyped DEF Init, TypeOK

\* The state of the edge keeps its type (app.js, replay-guard.js).
THEOREM EdgeTyped == Spec => []TypeOK
<1>1. Init => TypeOK
  BY Initial
<1>2. TypeOK /\ [Next]_vars => TypeOK'
  BY TypeStep
<1> QED
  BY <1>1, <1>2, PTL DEF Spec
-----------------------------------------------------------------------------
\* A message that was fresh less than the padding ago and is not remembered was not accepted
\* where it counts.
LEMMA Forgotten ==
    ASSUME EdgeInv, NEW m \in Messages, NEW captured \in Nat, Fresh(m, captured),
           now - captured < Padding, ~Used(m),
           NEW s \in Requests, request[s].accepted, request[s].message = m
    PROVE  driver # "redis" /\ request[s].life # life
<1>1. stamp[m] \in Nat /\ nonces[m] \in Nat /\ now \in Nat
  BY EdgeLimits DEF EdgeInv, TypeOK
<1>2. now < stamp[m] + Skew + Padding
  BY <1>1, EdgeLimits DEF Fresh
<1>3. now >= nonces[m]
  BY <1>1 DEF Used
<1> QED
  BY <1>1, <1>2, <1>3, EdgeLimits DEF EdgeInv, Remembered

\* A nonce that is set outlives every clock reading that takes its message for fresh.
LEMMA Refreshed ==
    ASSUME EdgeInv, NEW r \in Requests, NEW captured \in Nat, captured <= now,
           Fresh(request[r].message, captured), Remember(r, captured)
    PROVE  nonces'[request[r].message] >= stamp[request[r].message] + Skew + Padding
<1> DEFINE m == request[r].message
<1>1. m \in Messages /\ nonces \in [Messages -> Nat] /\ stamp[m] \in Nat /\ now \in Nat
  BY EdgeLimits DEF EdgeInv, TypeOK, Request
<1>2. nonces'[m] = now + NonceTtl(m, captured)
  BY <1>1 DEF Remember
<1>3. NonceTtl(m, captured) \in Nat /\ NonceTtl(m, captured) >= 2 * Skew + Padding
  BY <1>1, TtlTyped DEF EdgeInv
<1> QED
  BY <1>1, <1>2, <1>3, EdgeLimits DEF Fresh

LEMMA Accepting ==
    ASSUME EdgeInv, NEW r \in Requests, Handling(r), NEW captured \in Nat,
           Fresh(request[r].message, captured), captured <= now,
           ~Used(request[r].message), NEW late \in BOOLEAN, late <=> now - captured >= Padding,
           driver = "memory" => ~late,
           Remember(r, captured), Accept(r, late), UNCHANGED <<life, now, stamp, driver>>
    PROVE  Underway' /\ Lived' /\ Remembered' /\ AcceptedOnce'
<1> DEFINE m == request[r].message
<1>1. /\ request \in [Requests -> Request] /\ m \in Messages
      /\ nonces \in [Messages -> Nat] /\ stamp[m] \in Nat /\ now \in Nat
  BY EdgeLimits DEF EdgeInv, TypeOK, Request
<1>2. /\ request' = [request EXCEPT ![r] =
            [request[r] EXCEPT !.at = "working", !.accepted = TRUE, !.late = late]]
      /\ request[r].life = life
  BY <1>1 DEF Accept, EdgeInv, Lived
<1>3. /\ request'[r].at = "working" /\ request'[r].accepted = TRUE
      /\ request'[r].message = m /\ request'[r].life = life /\ request'[r].late = late
      /\ \A s \in Requests : s # r => request'[s] = request[s]
  BY <1>1, <1>2 DEF Request
<1>4. nonces'[m] >= stamp[m] + Skew + Padding
  BY <1>1, Refreshed
<1>5. \A x \in Messages : x # m => nonces'[x] = nonces[x]
  BY <1>1 DEF Remember
<1>6. \A s \in Requests : ~late /\ request[s].accepted /\ request[s].message = m =>
          driver # "redis" /\ request[s].life # life
  <2>1. ~late => now - captured < Padding
    BY <1>1, EdgeLimits
  <2> QED
    BY <1>1, <2>1, Forgotten
<1>7. Underway'
  BY <1>3 DEF EdgeInv, Underway, At, Fresh
<1>8. Lived'
  BY <1>3 DEF EdgeInv, Lived, Handling
<1>9. Remembered'
  <2> SUFFICES ASSUME NEW s \in Requests, request'[s].accepted,
                      driver = "redis" \/ request'[s].life = life
               PROVE  nonces'[request'[s].message] >= stamp[request'[s].message] + Skew + Padding
    BY DEF Remembered
  <2>1. CASE request'[s].message = m
    BY <1>4, <2>1
  <2>2. CASE request'[s].message # m
    <3>1. request'[s] = request[s]
      BY <1>3, <2>2
    <3>2. request[s].message \in Messages
      BY <1>1 DEF Request
    <3> QED
      BY <1>5, <2>2, <3>1, <3>2 DEF EdgeInv, Remembered
  <2> QED
    BY <2>1, <2>2
<1>10. AcceptedOnce'
  <2>1. driver = "memory" \/ driver = "redis"
    BY EdgeLimits DEF EdgeInv, TypeOK
  <2> QED
    BY <1>3, <1>6, <2>1 DEF EdgeInv, AcceptedOnce
<1> QED
  BY <1>7, <1>8, <1>9, <1>10

\* A handler that goes on or ends without being accepted.
LEMMA Moving ==
    ASSUME EdgeInv, NEW r \in Requests, NEW place \in {"reading", "done"}, Goto(r, place),
           place = "reading" => At(r, "received"),
           UNCHANGED <<nonces, life, now, stamp, driver>>
    PROVE  Underway' /\ Lived' /\ Remembered' /\ AcceptedOnce'
<1>1. request \in [Requests -> Request]
  BY DEF EdgeInv, TypeOK
<1>2. /\ request'[r].at = place /\ request'[r].accepted = request[r].accepted
      /\ request'[r].message = request[r].message /\ request'[r].life = request[r].life
      /\ request'[r].late = request[r].late
      /\ \A s \in Requests : s # r => request'[s] = request[s]
  BY <1>1 DEF Goto, Request
<1>3. Underway'
  BY <1>2 DEF EdgeInv, Underway, At, Fresh
<1>4. Lived'
  BY <1>2 DEF EdgeInv, Lived, Handling, At
<1>5. Remembered' /\ AcceptedOnce'
  BY <1>2 DEF EdgeInv, Remembered, AcceptedOnce
<1> QED
  BY <1>3, <1>4, <1>5

LEMMA EdgeRequestStep ==
    ASSUME EdgeInv, NEW r \in Requests, RequestStep(r)
    PROVE  Underway' /\ Lived' /\ Remembered' /\ AcceptedOnce'
<1>1. /\ request \in [Requests -> Request] /\ request[r].message \in Messages
      /\ now \in Nat /\ request[r].captured \in Nat
  BY DEF EdgeInv, TypeOK, Request
<1>2. CASE Connect(r) \/ Disconnect(r)
  BY <1>2
  DEF Connect, Disconnect, inputs, EdgeInv, Underway, Lived, Remembered, AcceptedOnce,
      At, Handling, Fresh
<1>3. ASSUME NEW m \in Messages, Arrive(r, m)
      PROVE  Underway' /\ Lived' /\ Remembered' /\ AcceptedOnce'
  <2>1. CASE Goto(r, "done")
    BY <1>3, <2>1, Moving DEF Arrive, inputs
  <2>2. CASE request' = [request EXCEPT ![r] =
                [NewRequest EXCEPT !.at = "received", !.message = m, !.life = life]]
    <3>1. /\ request'[r].at = "received" /\ request'[r].accepted = FALSE
          /\ request'[r].life = life
          /\ \A s \in Requests : s # r => request'[s] = request[s]
      BY <1>1, <2>2 DEF NewRequest
    <3>2. UNCHANGED <<nonces, life, now, stamp, driver>> /\ life <= life
      BY <1>3 DEF Arrive, inputs, EdgeInv, TypeOK
    <3>3. Underway' /\ Lived'
      BY <3>1, <3>2 DEF EdgeInv, Underway, Lived, At, Handling, Fresh
    <3>4. Remembered' /\ AcceptedOnce'
      BY <3>1, <3>2 DEF EdgeInv, Remembered, AcceptedOnce
    <3> QED
      BY <3>3, <3>4
  <2> QED
    BY <1>3, <2>1, <2>2 DEF Arrive
<1>4. CASE Gate(r) \/ Refuse(r) \/ Finish(r)
  BY <1>4, Moving DEF Gate, Refuse, Finish, EndRequest, inputs
<1>5. CASE Guard(r)
  <2>1. UNCHANGED <<life, now, stamp, driver>> /\ At(r, "reading")
    BY <1>5 DEF Guard, inputs
  <2>2. CASE EndRequest(r) /\ UNCHANGED nonces
    BY <2>1, <2>2, Moving DEF EndRequest
  <2>3. CASE /\ Fresh(request[r].message, now) /\ ~Used(request[r].message)
             /\ Remember(r, now) /\ Accept(r, FALSE)
    <3>1. Handling(r) /\ now <= now /\ ~(now - now >= Padding)
      BY <1>1, <2>1, EdgeLimits DEF At, Handling
    <3> QED
      BY <1>1, <2>1, <2>3, <3>1, Accepting
  <2>4. CASE /\ Fresh(request[r].message, now) /\ driver = "redis" /\ UNCHANGED nonces
             /\ request' = [request EXCEPT ![r].at = "checking", ![r].captured = now]
    <3>1. /\ request'[r].at = "checking" /\ request'[r].accepted = request[r].accepted
          /\ request'[r].captured = now /\ request'[r].message = request[r].message
          /\ request'[r].life = request[r].life /\ request'[r].late = request[r].late
          /\ \A s \in Requests : s # r => request'[s] = request[s]
      BY <1>1, <2>4 DEF Request
    <3>2. now <= now
      BY <1>1
    <3>3. Underway'
      BY <2>1, <2>4, <3>1, <3>2 DEF EdgeInv, Underway, At, Fresh
    <3>4. Lived'
      BY <2>1, <3>1 DEF EdgeInv, Lived, Handling, At
    <3>5. Remembered'
      BY <2>1, <2>4, <3>1 DEF EdgeInv, Remembered
    <3>6. AcceptedOnce'
      BY <2>1, <3>1 DEF EdgeInv, AcceptedOnce
    <3> QED
      BY <3>3, <3>4, <3>5, <3>6
  <2> QED
    BY <1>5, <2>2, <2>3, <2>4 DEF Guard
<1>6. CASE RedisAnswers(r)
  <2>1. UNCHANGED <<life, now, stamp, driver>> /\ At(r, "checking") /\ Handling(r)
    BY <1>6 DEF RedisAnswers, inputs, At, Handling
  <2>2. CASE Used(request[r].message)
    BY <1>6, <2>1, <2>2, Moving DEF RedisAnswers, EndRequest
  <2>3. CASE ~Used(request[r].message)
    <3> DEFINE late == now - request[r].captured >= Padding
    <3>1. Remember(r, request[r].captured) /\ Accept(r, late) /\ late \in BOOLEAN
      BY <1>6, <2>3 DEF RedisAnswers
    <3>2. /\ Fresh(request[r].message, request[r].captured)
          /\ request[r].captured <= now /\ driver # "memory"
      BY <2>1 DEF EdgeInv, Underway
    <3>3. late <=> now - request[r].captured >= Padding
      OBVIOUS
    <3> HIDE DEF late
    <3> QED
      BY <1>1, <2>1, <2>3, <3>1, <3>2, <3>3, Accepting
  <2> QED
    BY <2>2, <2>3
<1>7. CASE RedisFails(r)
  <2>1. UNCHANGED <<life, now, stamp, driver>> /\ At(r, "checking") /\ Goto(r, "done")
    BY <1>7 DEF RedisFails, EndRequest, inputs
  <2>2. CASE UNCHANGED nonces
    BY <2>1, <2>2, Moving
  <2>3. CASE ~Used(request[r].message) /\ Remember(r, request[r].captured)
    <3>1. /\ request'[r].at = "done" /\ request'[r].accepted = request[r].accepted
          /\ request'[r].message = request[r].message /\ request'[r].life = request[r].life
          /\ request'[r].late = request[r].late
          /\ \A s \in Requests : s # r => request'[s] = request[s]
      BY <1>1, <2>1 DEF Goto, Request
    <3>2. nonces'[request[r].message] >= stamp[request[r].message] + Skew + Padding
      BY <1>1, <2>1, <2>3, Refreshed DEF EdgeInv, Underway
    <3>3. \A x \in Messages : x # request[r].message => nonces'[x] = nonces[x]
      BY <1>1, <2>3 DEF EdgeInv, TypeOK, Remember
    <3>4. \A s \in Requests : request[s].message \in Messages
      BY <1>1 DEF Request
    <3>5. Underway' /\ Lived'
      BY <2>1, <3>1 DEF EdgeInv, Underway, Lived, At, Handling, Fresh
    <3>6. Remembered'
      BY <2>1, <3>1, <3>2, <3>3, <3>4 DEF EdgeInv, Remembered
    <3>7. AcceptedOnce'
      BY <2>1, <3>1 DEF EdgeInv, AcceptedOnce
    <3> QED
      BY <3>5, <3>6, <3>7
  <2> QED
    BY <1>7, <2>2, <2>3 DEF RedisFails
<1> QED
  BY <1>2, <1>3, <1>4, <1>5, <1>6, <1>7 DEF RequestStep

LEMMA EdgeStep == EdgeInv /\ [Next]_vars => EdgeInv'
<1> SUFFICES ASSUME EdgeInv, [Next]_vars
             PROVE  Underway' /\ Lived' /\ Remembered' /\ AcceptedOnce'
  BY TypeStep DEF EdgeInv
<1>1. request \in [Requests -> Request] /\ now \in Nat /\ life \in Nat
  BY DEF EdgeInv, TypeOK
<1>2. CASE CloseStep \/ UNCHANGED vars
  <2>1. UNCHANGED <<request, nonces, life, now, stamp, driver>>
    BY <1>2 DEF CloseStep, Close, DrainTimeout, CloseResources, ResourcesSettled,
                ServerClosed, vars, inputs
  <2> QED
    BY <2>1 DEF EdgeInv, Underway, Lived, Remembered, AcceptedOnce, At, Handling, Fresh
<1>3. CASE Restart
  <2>1. /\ life' = life + 1 /\ UNCHANGED <<now, stamp, driver>>
        /\ nonces' = IF driver = "redis" THEN nonces ELSE [m \in Messages |-> 0]
    BY <1>3 DEF Restart, inputs
  <2>2. \A s \in Requests :
            /\ request'[s].at \notin {"received", "reading", "checking", "working"}
            /\ request[s].at \in {"working", "done"} => request'[s].at = "done"
            /\ request'[s].accepted = request[s].accepted
            /\ request'[s].message = request[s].message
            /\ request'[s].life = request[s].life /\ request'[s].late = request[s].late
    BY <1>1, <1>3 DEF Restart, Handling, Request
  <2>3. \A s \in Requests : request[s].life \in Nat /\ request[s].life <= life
    BY <1>1 DEF EdgeInv, Lived, Request
  <2>4. Underway' /\ Lived'
    BY <1>1, <2>1, <2>2, <2>3 DEF EdgeInv, Underway, Lived, At, Handling
  <2>5. Remembered' /\ AcceptedOnce'
    BY <1>1, <2>1, <2>2, <2>3 DEF EdgeInv, Remembered, AcceptedOnce
  <2> QED
    BY <2>4, <2>5
<1>4. CASE Tick
  <2>1. now' = now + 1 /\ UNCHANGED <<request, nonces, life, stamp, driver>>
    BY <1>4 DEF Tick, inputs
  <2>2. \A r \in Requests : request[r].captured \in Nat
    BY <1>1 DEF Request
  <2>3. Underway'
    BY <1>1, <2>1, <2>2, EdgeLimits DEF EdgeInv, Underway, At, Fresh
  <2>4. Lived' /\ Remembered' /\ AcceptedOnce'
    BY <2>1 DEF EdgeInv, Lived, Remembered, AcceptedOnce, Handling
  <2> QED
    BY <2>3, <2>4
<1> QED
  BY <1>2, <1>3, <1>4, EdgeRequestStep DEF Next

\* A message passes the replay guard once (assertFresh, consumeNonce), for every window and
\* padding, unless Redis executed a SET later than the padding makes up for or the process
\* that remembered it in memory was restarted.
THEOREM ReplaySafe == Spec => []AcceptedOnce
<1>1. Init => EdgeInv
  BY Initial
  DEF Init, EdgeInv, NewRequest, Underway, Lived, Remembered, AcceptedOnce, At, Handling
<1>2. EdgeInv /\ [Next]_vars => EdgeInv'
  BY EdgeStep
<1>3. EdgeInv => AcceptedOnce
  BY DEF EdgeInv
<1> QED
  BY <1>1, <1>2, <1>3, PTL DEF Spec
-----------------------------------------------------------------------------
CloseInv == TypeOK /\ Counted /\ Phase

LEMMA BusyFinite == IsFiniteSet(Busy) /\ Cardinality(Busy) \in Nat
  BY FiniteRequests, FS_Subset, FS_CardinalityType DEF Busy

LEMMA Ending ==
    ASSUME CloseInv, NEW r \in Requests, Handling(r), EndRequest(r)
    PROVE  Counted' /\ Phase'
<1>1. Busy' = Busy \ {r}
  BY DEF CloseInv, TypeOK, EndRequest, Goto, Busy, Handling, Request
<1>2. r \in Busy
  BY DEF Busy
<1>3. Cardinality(Busy \ {r}) = Cardinality(Busy) - 1
  BY <1>2, BusyFinite, FS_RemoveElement
<1>4. Cardinality(Busy) # 0
  BY <1>2, BusyFinite, FS_EmptySet
<1>5. active' = active - 1 /\ active \in Nat /\ active # 0
  BY <1>4, BusyFinite DEF CloseInv, TypeOK, Counted, EndRequest
<1>6. Counted'
  BY <1>1, <1>3, <1>5 DEF CloseInv, Counted
<1>7. Phase'
  BY <1>5 DEF CloseInv, Phase, EndRequest
<1> QED
  BY <1>6, <1>7

\* Steps that begin or end no handler and leave close() alone.
LEMMA Going ==
    ASSUME CloseInv, UNCHANGED <<active, lifecycle, closing, forced, resources>>,
           \A r \in Requests : Handling(r)' <=> Handling(r)
    PROVE  Counted' /\ Phase'
<1>1. Busy' = Busy
  BY DEF Busy
<1> QED
  BY <1>1 DEF CloseInv, Counted, Phase

LEMMA CloseRequestStep ==
    ASSUME CloseInv, NEW r \in Requests, RequestStep(r)
    PROVE  Counted' /\ Phase'
<1>1. request \in [Requests -> Request]
  BY DEF CloseInv, TypeOK
<1>2. CASE Connect(r) \/ Disconnect(r)
  BY <1>2, Going DEF Connect, Disconnect, lifeVars, Handling
<1>3. ASSUME NEW m \in Messages, Arrive(r, m)
      PROVE  Counted' /\ Phase'
  <2>1. CASE MayBegin
    <3>1. /\ request' = [request EXCEPT ![r] =
                [NewRequest EXCEPT !.at = "received", !.message = m, !.life = life]]
          /\ active' = active + 1 /\ lifecycle = "running"
          /\ UNCHANGED <<lifecycle, closing, forced, resources>>
      BY <1>3, <2>1 DEF Arrive, MayBegin, lifeVars
    <3>2. r \notin Busy /\ Busy' = Busy \cup {r}
      BY <1>1, <1>3, <3>1 DEF Arrive, Silent, At, Busy, Handling, NewRequest
    <3>3. Cardinality(Busy \cup {r}) = Cardinality(Busy) + 1
      BY <3>2, BusyFinite, FS_AddElement
    <3> QED
      BY <3>1, <3>2, <3>3 DEF CloseInv, Counted, Phase
  <2>2. CASE ~MayBegin
    BY <1>1, <1>3, <2>2, Going DEF Arrive, Goto, Silent, At, lifeVars, Handling, Request
  <2> QED
    BY <2>1, <2>2
<1>4. CASE (Gate(r) \/ Refuse(r) \/ Guard(r) \/ RedisAnswers(r) \/ RedisFails(r) \/ Finish(r))
           /\ EndRequest(r)
  <2>1. Handling(r)
    BY <1>4 DEF Gate, Refuse, Guard, RedisAnswers, RedisFails, Finish, At, Handling
  <2> QED
    BY <1>4, <2>1, Ending
<1>5. CASE (Gate(r) \/ Guard(r) \/ RedisAnswers(r)) /\ ~EndRequest(r)
  BY <1>1, <1>5, Going
  DEF Gate, Goto, Guard, RedisAnswers, Accept, At, lifeVars, Handling, Request
<1> QED
  BY <1>2, <1>3, <1>4, <1>5 DEF RequestStep, Refuse, RedisFails, Finish

LEMMA CloseInvStep == CloseInv /\ [Next]_vars => CloseInv'
<1> SUFFICES ASSUME CloseInv, [Next]_vars
             PROVE  Counted' /\ Phase'
  BY TypeStep DEF CloseInv
<1>1. CASE CloseStep
  <2>1. UNCHANGED <<active, request>>
    BY <1>1 DEF CloseStep, Close, DrainTimeout, CloseResources, ResourcesSettled, ServerClosed
  <2>2. Counted'
    BY <2>1 DEF CloseInv, Counted, Busy, Handling
  <2>3. Phase'
    BY <1>1 DEF CloseInv, Phase, TypeOK, CloseStep, Close, DrainTimeout, CloseResources,
                ResourcesSettled, ServerClosed
  <2> QED
    BY <2>2, <2>3
<1>2. CASE Restart
  <2>1. Busy' = {} /\ active' = 0
    BY <1>2 DEF CloseInv, TypeOK, Restart, Busy, Handling, Request
  <2>2. Counted'
    BY <2>1, FS_EmptySet DEF Counted
  <2>3. Phase'
    BY <1>2 DEF Restart, Phase
  <2> QED
    BY <2>2, <2>3
<1>3. CASE Tick \/ UNCHANGED vars
  BY <1>3, Going DEF Tick, vars, lifeVars, Handling
<1> QED
  BY <1>1, <1>2, <1>3, CloseRequestStep DEF Next

\* Unless shutdown gave up on it, no handler is at work when close() closes the store and
\* the security state (close, beginRequest, endRequest).
THEOREM GracefulClose == Spec => []WorkKeepsStoreOpen
<1>1. Init => CloseInv
  <2> SUFFICES ASSUME Init
               PROVE  Counted /\ Phase
    BY Initial DEF CloseInv
  <2>1. Busy = {}
    BY DEF Init, Busy, Handling, NewRequest
  <2> QED
    BY <2>1, FS_EmptySet DEF Init, Counted, Phase
<1>2. CloseInv /\ [Next]_vars => CloseInv'
  BY CloseInvStep
<1>3. CloseInv => WorkKeepsStoreOpen
  <2> SUFFICES ASSUME CloseInv, ~resources, ~forced
               PROVE  active = 0 /\ \A r \in Requests : ~Handling(r)
    BY DEF WorkKeepsStoreOpen
  <2>1. active = 0
    BY DEF CloseInv, Phase
  <2>2. Busy = {}
    BY <2>1, BusyFinite, FS_EmptySet DEF CloseInv, Counted
  <2> QED
    BY <2>1, <2>2 DEF Busy
<1> QED
  BY <1>1, <1>2, <1>3, PTL DEF Spec
=============================================================================
