# KMXT: a formal model

TLA+ models of the KMXT 0.7 licence-key service, the TLC configurations that check them on small
instances, and TLAPS proofs of the theorems that hold for every instance. Paths are relative to
the repository root; `PROJECT.json` maps every definition to the lines it stands for.

## 1. The system

KMXT is a multi-tenant service that sells and verifies licence keys ("cards"). Merchants own
programs; a program's licences are generated in batches or by fulfilling a storefront order; a
device that activates a licence takes a seat (a device binding) and gets a client session token
with which it verifies from then on; a verified device may lease the key of an encrypted model.
A Node.js process serves the HTTP API. In production it keeps its state in MySQL and its nonces and
counters in Redis; in development in one JSON file and in memory. `docs/DEPLOYMENT.md` allows one
Node.js instance; the concurrency is that of requests interleaving at every `await`, of MySQL
transactions on the connections of a pool, and of threads in the native client runtime.

### Inventory

| component | state | operations | interacts with |
|---|---|---|---|
| licence verification (`src/services/verification-service.js`) | licences, bindings, client sessions | activate, verify, unbind | replay guard before, store transaction or MySQL repository after a captured `now` |
| licence administration (`license-service.js`, `online-device-service.js`, `maintenance-service.js`) | the same rows | generate, set status, delete, unbind one or all, disconnect, clean up | the same rows; orders forbid deletion |
| merchants and programs (`merchant-service.js`, `application-service.js`) | status, settings | create, update, enable, disable | disabling removes sessions |
| administrator identity (`auth-service.js`) | accounts, admin sessions | bootstrap, login, authenticate, logout, password, role and status changes | slow hashing between read and write; login counter |
| store orders and products (`order-service.js`, `product-service.js`) | products, orders, licences | create, edit, place, fulfil, reject, query | creates licences |
| model delivery (`model-delivery-service.js`) | artifacts, leases | register, status, delete, issue lease | runs the verify transaction first |
| JSON store (`src/storage/json-store.js`, `schema.js`) | state in memory, data file, `.bak`, temporary file, promise queue | initialize, read, transaction | every service in development |
| MySQL repositories and pool (`src/storage/`) | tables, row locks, connections | the statements of each operation | every service in production |
| replay guard, rate limits (`src/security/`, `src/http/rate-limiter.js`) | nonces and counters with lifetimes | consume nonce, increment, clear | called before transactions |
| router and process lifecycle (`src/http/router.js`, `src/app.js`) | active requests, closing flag | handle, drain, close | every request |
| announcements (`announcement-service.js`) | announcements, sequence numbers | create, update, publish, delete, public notice | clients persist the highest sequence |
| Android client (`sdk/android/.../native_runtime.cpp`, `validation.cpp`, `KmxtLicenseClient.kt`, `SessionStore.kt`) | pending nonces, authorization epoch, content keys, in memory; session token and notice watermark in preferences | activate, verify, unbind, lease, fetch notices, clear session; begin, cancel, validate, decrypt, release | signed answers of the server |
| publisher, CLI, migrations (`src/tools`, `cli`, `src/storage/migrate.js`) | files, schema version | publish, bootstrap, migrate | the stores |
| dashboard, audit, presenters, UI, SDK wrappers | none of their own | reports and pages | read only |

### What is hard here

* *Stale instants and stale reads.* A request reads the program and captures `Date.now()` long
  before its transaction runs; login verifies a password and adds a session in a later
  transaction; a lease is stored in a transaction after the one that verified its session.
* *Seats under concurrency.* Counting bindings and inserting one are separate statements.
* *Revocation.* Disabling, unbinding and deleting must leave no authority behind, also none that a
  request already under way brings back.
* *Retries.* MySQL deadlock victims start again; a fulfilment is repeated by administrators.
* *Crashes.* The JSON store replaces a file with several operations, each of which may fail.
* *Lock order.* Client calls lock from the merchant row down, administration from the leaf up.
* *Late answers.* The client's calls overlap; native code validates an answer without its lock, and
  the authorization may be cleared or replaced before the verdict is applied.
* *Clocks.* A nonce is remembered for a time computed from one clock reading and checked against others,
  by a store with a clock of its own.
* *Shutdown.* Handlers, idle and silent connections, timers and the store end in any order.

### What makes each component correct

* Licence verification and administration: no more seats than the limit and one per device;
  sessions only on standing authority and no longer than the licence; the expiry is fixed by the
  first activation; a revoked binding stays revoked.
* Administrator identity: no session of a disabled account or an old role; no password change
  lost; after a password change only logins with the new password.
* Orders: an order is decided once; a fulfilled one has exactly one licence, on the terms it was
  placed under, that cannot be deleted.
* Model delivery: a revoked artifact leases nothing; leases need standing authority and end with
  licence and session.
* JSON store: atomic, durable, answered; MySQL repositories: the atomic services, whatever
  interleaves, and every call ends.
* Android client: an answer authorizes only in its own epoch and for its own request; nothing begun
  before a revocation outlives it; content keys always have an owner and a bounded table.
* Announcements: no honest notice is refused as a rollback.
* Replay guard: a signed message is accepted once. Lifecycle: the store is closed under nobody, and
  shutdown ends.

## 2. Modules

```
LicenseCore  <---EXTENDS--- ModelDelivery            AtomicStore
   ^  ^                        +-- ModelDeliveryProofs   ^
   |  +--implements-- MysqlActivation                    +--implements-- JsonStore
   |                     +-- MysqlActivationProofs                          +-- JsonStoreProofs
   +-- LicenseCoreProofs <------+
OrderBook  <---EXTENDS and implements--- MysqlOrders     AdminSessions
                                            |               +-- AdminSessionsProofs
                                            +-- MysqlOrdersProofs
NativeRuntime  <---EXTENDS--- AndroidClient              ServerEdge
                                 +-- AndroidClientProofs    +-- ServerEdgeProofs
```

**LicenseCore** is the licence machine as the JSON store runs it: a `store.transaction()` is one
action. `pending` holds the client requests between the capture of `now` (`SubmitActivate`,
`SubmitVerify`, `SubmitUnbind`) and their transaction (`Activate`, `Verify`, `Unbind`), between
which everything else may commit; `Reject` is any failed check. `Generate`, `SetLicenseStatus`,
`DeleteLicense`, `UnbindDevice`, `UnbindAllDevices`, `Disconnect`, `SetApplicationStatus`,
`SetMerchantStatus` and `CleanupSessions` are the administrative transactions; `Tick` is the clock.
A null expiry is 0 and instants are positive. Rows carry what the rules tell apart: names, payloads
and audit rows are left out. A row's id is a constant; "absent" is a row that does not exist, and
only random ids (tokens, bindings) that no request holds are given out anew.

**MysqlActivation** is the same machine as the MySQL repositories run it. `Program` lists the
statements of every method that writes these rows but the clean-up of expired sessions, which is
left out with time, named for the rows they lock; `Execute` takes
the locks of a statement and applies the checks that follow it, `Lock` takes part of them,
`Refuse` rolls back, `Commit*` writes. `Retry` and `GiveUp` are the client calls that a deadlock or
a lock wait timeout ends, with and without attempts left; `Timeout` is a lock wait timeout
that is not retried, the client-side statement timeout, or a lost connection. The read view of REPEATABLE
READ is the field `seen`: the count of active bindings at the transaction's first plain SELECT,
which is the view `COUNT(*)` reads later. *Refinement:* `Core == INSTANCE LicenseCore WITH ...` maps
the committed rows to LicenseCore's rows and a transaction whose lookup has passed to an accepted
request; time stands still and the device limit, which MySQL does not keep (section 6), is mapped
to "unlimited".

**AdminSessions**: `request` holds what an operation has seen, `ready` that the slow hashing is
done. `Login`/`FinalizeLogin` and `Authenticate`/`ReadTarget`/`SetPassword` are the steps with
other transactions between them; the others check and write in one transaction after
`Authenticate`. Password hashes are numbers, so that "the hash it read" can be compared.

**ModelDelivery** composes artifacts and leases with LicenseCore: `VerifyForLease` is the verify
transaction of `issueLease`, `IssueLease` the second transaction with its own checks; deletion of a
licence and the clean-up are replaced by their forms that remove leases too. On MySQL the second
transaction locks every row it reads until it commits, so that it is one action as well.

**OrderBook** is the storefront, one action per transaction, for one program of one merchant. An
order stands for its order number and a licence for its key, because these are what the code
chooses at random and checks. **MysqlOrders** EXTENDS it: the tables are the committed rows, and
each transaction is its locking statements, the gap a deletion locks included, with collisions of numbers and keys, deadlocks,
lock wait timeouts, lost connections and the retries of `createPublic` and `fulfill`. Writes use
the copy of the row that was read. `ImplementsOrderBook` is `BookSpec` over the same variables.

**AtomicStore** says what a store promises: transactions take effect one by one on a durable value,
and a caller who is told "failed" finds no effect. **JsonStore** is `json-store.js`: the promise
chain `queue`, the file operations of `#persist` as actions that may each fail, start-up with
schema upgrade, crashes at any point. `Durable` is the refinement mapping: the data file's log or,
while that file is missing or about to be taken back, the backup's. Where no data file exists the
store is `exposed`, and only there may the abstract store lose its value.

**NativeRuntime** is `native_runtime.cpp`: one action per critical section of its mutex. `Consume`
takes a pending request out of its slot; `Reject`, `AcceptStale`, `AcceptActivation`,
`AcceptVerification`, `AcceptUnbind` apply a verdict later; a lease needs a third section in
between (`Snapshot`), after which `StoreLease`, `StoreRefused` or `StoreStale` looks again. Here
every verdict is possible at any time, so that what is proved of it holds for every caller.
**AndroidClient** EXTENDS it with its one caller: a call is a little program (`at`) whose steps are
the calls into native code, the preferences and the network, `answers` is what the server ever
answered, any part of which may be delivered to any call at any time, and the server is reduced to
the sessions of this device and the announcements. `disk` is the set of contents the preferences
file may have after a kill, since `apply()` writes in the background. `KmxtLicenseClient`'s error codes
become "clears the session" or not. `grant` and `revoked` are history for the properties.

**ServerEdge** is what surrounds the transactions: `Arrive`, `Gate`, `Refuse`, `Guard`,
`RedisAnswers`, `RedisFails`, `Finish` are the steps of a signed request between two awaits,
`Close` to `ServerClosed` those of `close()`. `open` is Node's view of the connections, `active` the
code's counter; the memory driver and Redis differ in when the nonce is consumed and what a restart
forgets. A SET may reach Redis at any time, also after close() began; `late` marks one that was
executed a padding or more after the guard read the clock.

The MC modules only bind constants and declare symmetry. Operators that begin with the comment
"Mutant of" are the faulty variants used to show that each property can fail.

## 3. Runs

| run | shows | instance |
|---|---|---|
| license_core | seats, sessions, bindings, expiry and revocation under stale requests | 1 program, 1 licence, 2 devices, bindings, tokens, requests; limit 0 or 1; 3 ticks |
| mysql_activation | every MySQL commit is a LicenseCore transaction; client calls alone never deadlock | 2 connections, 2 devices, bindings, tokens; all 11 methods |
| mysql_progress | every call ends | 2 connections, all methods, 1 device and binding |
| mysql_device_limit | *violation*: two activations of a one-device licence succeed | activate and generate only |
| mysql_orders | orders are atomic, settled once, delivered on their terms; a customer deadlocks only with a product edit or a licence deletion | 2 connections, 1 product, 2 orders, 2 keys, 2 terms, 2 attempts |
| admin_sessions | no session without account or of an old role; no lost password change | 3 accounts, 2 tokens, 2 requests, 2 password changes |
| admin_password | *violation*: a login with the old password survives the change | the same |
| model_delivery | leases need and follow authority | 1 artifact, 2 leases, 2 requests, 2 bindings |
| json_store | atomic but for the moments without a data file; what was read stays on disk, but for a start-up that finds no data file; calls are answered | 3 transactions, 2 crashes |
| json_store_crash | *violation*: a crash between two renames loses everything | the same |
| android_client | late, repeated and misdirected answers revive nothing; no key without owner; the handle table refuses only when full; no honest notice is a rollback | 3 calls of any kind, 2 bindings, 1 handle, a clock of 2 instants; or 3 notice calls with 2 announcements |
| server_edge | a message passes the guard once, but for the memory driver's restarts and late commands of Redis; nobody works on a closed store; shutdown ends | 2 connections, 1 message, both drivers, skew 1, padding 2, 7 instants, 2 lives |

**Bounds.** The rules relate at most two rows of a kind (two devices that compete for a seat, a
session and the one that replaces it), so two of each give every conflict, and two requests every
interleaving of one actor with another; a second program or licence only adds rows no rule
relates to the first (the proofs do not depend on this). One licence limited to one seat reaches
the limit. Three ticks let an instant be captured, expire and be used after expiry, and let session
lifetime and licence term (both 2) end in either order. `MaxAttempts` is 3 in the code and 2 in
the runs: one retry and one giving up. Three stored transactions and two crashes reach a write
after a recovery that followed a failed write. In android_client a property is broken by at most
three calls: one that authorizes, one that revokes and one whose answer is late (the mutants need no
more); `PendingTtl` 0 and a lease life of one tick make everything expire at the second instant, and
one handle makes the table full. Notices share nothing with the other calls but the preferences file,
hence the two `Plans`. In server_edge two connections carry the two copies of one message; the clock
runs past the window of any timestamp it starts in, and the second life is the restart. `MaxTime`,
`MaxChanges`, `MaxCrashes`, `MaxLives`, `MaxSequence`, `Calls` and `Plans` are the bounds that do not
come from the code; each is a guard on starting something new. So is the guard of `Revoke` in
AndroidClient (a revocation is seen in the next answer, so it may wait until one is due).
Identities are interchangeable, hence the symmetry; no run with a liveness property uses it.

**Deadlock** is checked everywhere but in four runs, where the end is legal: json_store and
json_store_crash when every call is answered and no crash is left, android_client and server_edge when
every call has been made and every connection used.

**Fairness.** `mysql_progress` assumes that a statement whose row is free again and again gets it
(InnoDB grants locks in order; strong fairness, since other transactions may take the row in
between), that a commit and a victim's handling happen (weak fairness: the connection's code
goes on), and nothing about new calls or timeouts. `json_store` assumes weak fairness of the running
process's steps: Node.js resumes an awaited file operation. Crashes and callers are not fair.
`server_edge` assumes weak fairness of the event loop, of timers, of the store settling each
call (it has operation timeouts), of Redis answering the QUIT of close(), of Node dropping a connection
whose answer is written, and of a body ending when its connection is gone. Redis owes no
answer to a SET, which has no time-out, and peers owe nothing, not even the rest of a body: that
close() ends nevertheless is the forced close's merit. The premise of
`ShutdownEnds` is a connection that never sends a request: `closeIdleConnections` does not count
it as idle and `server.close` stops the check of the headers timeout, so that nothing in the code
ends it, and a close() that was not forced waits for its peer. android_client has safety only.

## 4. Proofs

Every theorem holds for every value of the constants its module's assumptions allow: any number
of rows, connections, requests, threads or crashes, of which the runs of section 3 check a few.

`LicenseCoreProofs` proves, for every set of merchants, programs, licences,
devices, bindings, tokens and requests and every bound, from the assumptions of LicenseCore only
(constants are of their types, `Bindings` is finite, `None` is no id):

| theorem | statement |
|---|---|
| TypeCorrect, SessionAuthority, SessionLifetime, BindingOwnership | `TypeOK`, `SessionsHaveAuthority`, `SessionsBounded`, `BindingsHaveLicense` always hold |
| OneSeat, DeviceLimit | `OneSeatPerDevice`, `DeviceLimitHolds` always hold |
| ExpiryFinal, RevocationFinal | every step satisfies `ExpiryIsFinal`, `RevocationIsFinal` |

The invariants are not inductive alone. That a new session has authority follows from what the
transaction checks, but that it keeps it needs that every session refers to existing rows
(`SessionReferences`), that requests refer to possible ones (`RequestReferences`), that a binding's
licence exists (`BindingReferences`, `BindingsHaveLicense`), that "active" and "activated" agree and
an activated licence has an expiry (`LicenseLifecycle`: otherwise a null expiry would be the
minimum and sessions would be born expired), and that captured instants lie in the past
(`RequestsPast`: otherwise a session could outlast `clock + SessionTtl`). `Inv` is their conjunction;
each action has a lemma, and `InvNext` combines them. For seats a step either takes one seat the
device did not have while one was free (`SeatTaken`) or only gives seats back (`SeatsGivenBack`);
the limit then follows from the cardinality of a set with one element more.

`MysqlActivationProofs` is about the repositories' transactions, for any number of connections,
devices, bindings, tokens and retries.

* `MysqlTyped` (`TypeOK`) and `Overshoot`: a licence limited to n devices never has more than
  n + connections - 1 active bindings. No run checks this one, because three bindings and two
  connections with every method are too many states. The measure is the number of active bindings
  plus the number of *hopeful* activations, those whose read view still shows a free seat and that
  have not yet saved; it is at most n + connections, an activation that commits trades one for the
  other, and a new view that shows a free seat was opened under a count below n. `LockInv` is needed
  for the step that saves: its transaction still owns the rows it locked, so the device it found
  unbound is unbound.
* `DeadlockFree` (`DeadlocksNeedAdmin`): every method but the four administrative ones locks the
  merchant row before any other (`MerchantFirst`), so that in a deadlock without an administrator
  whoever is waited for would own that one row.
* `LicensingRefines` (`ImplementsLicenseCore`): whatever the statements interleave, each commit is one
  transaction of LicenseCore. Its invariant `IsolationInv` says what the locks are for: the statuses a
  statement checked still hold when the transaction commits (`MerchantKept`, `AppKept`,
  `LicenseKept`), the session and binding it looked up are still the ones it holds (`SessionKept`,
  `BindingKept`), an activation's device is still unbound or bound to the binding found
  (`SeatKept`), what a method will delete or revoke it owns (`DeletesOwned`, `BindingsOwned`), and new
  ids are nobody else's (`Inputs`). Then the lookup of a client call is its acceptance, a call rolled
  back after it a rejection, a retry both, and each `Commit*` has a lemma that names its LicenseCore
  action.
* `MysqlSessionAuthority`, `MysqlOneSeat`, `MysqlBindingOwnership`, `MysqlRevocationFinal`: by that
  refinement the theorems of `LicenseCoreProofs` hold of the MySQL rows (`Machine` is its instance
  on them, `MachineAssumptions` its assumptions). Only the device limit does not carry over: it is
  the one thing the mapping leaves out, and `Overshoot` is what is true instead.

`MysqlOrdersProofs` first proves `OrdersDeliver`, `LicenseUnique` and `OrdersFinal` of the atomic
OrderBook. The two invariants support each other: a licence may be deleted only if no order names
it, which keeps orders deliverable only because orders and licences name each other exactly;
`PendingHasNoKey` completes the induction. Then it proves that MySQL implements OrderBook
(`OrdersRefine`) and so keeps the same promises (`MysqlOrdersDeliver`, `MysqlLicenseUnique`,
`MysqlOrdersFinal`): `Holds` says that the row a transaction has a copy of is owned by it, hence
unchanged, so that writing the copy back is writing the current row. `OrdersLockOrder`
(`OrdersDeadlockOnlyWithAdmin`) follows from `Locked`, which lists what a transaction at each statement
has locked, and from the order in which the programs lock: in a
deadlock an order being placed holds the merchant row, and whoever it can then wait for edits its product
or deletes a licence.

`AdminSessionsProofs` proves `AdminTyped`, `AccountsServe` (`SessionsHaveAccount`), `RolesCurrent`
(`SessionsHaveRole`) and `PasswordsKept` (`NoLostPasswordChange`). A request is believed only for what
stays true while it waits: which rows it names (`RequestsNameRows`). All else about a session comes
from the transaction that stores it and from those that take it away; this is why a login that
verified an old password cannot be excluded (section 6) and one of a disabled account can.

`ModelDeliveryProofs` proves that the composition is a run of LicenseCore (`DeliveryKeepsLicensing`),
so that `Inv` holds in it, and from it `DeliveryTyped`, `RevocationReaches`
(`RevokedArtifactsLeaseNothing`), `LeasesOwned` (`LeasesHaveLicense`), `LeasesEnd` (`LeasesBounded`) and
`LeasesAuthorized` (`LeasesNeedAuthority`). What `DeliveryInv` adds is that leases and lease requests
name rows, and that a row they name stays what it is until it is deleted together with them
(`RowsKept`).

`JsonStoreProofs` proves `StoreTyped`, `StoreReadsDurable` (`ReadsStayDurable`) and `StoreRefines`
(`ImplementsAtomicStore`). `ReadsStayDurable` is an action property: a transaction that a reader could
see is in the durable log, and no step, a crash included, takes it out again; the one exception
it names is the start-up that finds no data file, which is finding 3. The argument follows two copies of the state: until a write is beyond
recall one of file and backup holds what memory holds, afterwards the file holds the draft, which
is memory and the running transaction. `DiskInv` says what each file is at each await, `ValueInv` which copy the value is
in, `TaskInv` and `QueueInv` that the running transaction is the queue's first and that no call is
queued twice or after its answer. A first `ValueInv` held in every reachable state and was not
inductive: it did not say that a running store has a data file before it moves one aside.

`AndroidClientProofs` begins with NativeRuntime alone: `NativeTyped`, `NativeLeasesCurrent`
(`LeasesBelongToAuthorization`) and `NativeHandlesBounded` for any number of threads and any caller. An
activation ends the old epoch and its leases in one critical section, and a lease is stored in the
critical section that compares its epoch and binding again; the invariant adds only that a
validation that goes on has a request. Then it proves all six properties of the `android_client` run for any number of calls,
bindings and announcements and any lifetimes. `ClientInv` says what a call's record refers to (a
verdict is on an answer of the server, and that names a binding), so that every step is a step of
NativeRuntime's specification or leaves native state alone: `ClientRunsNative`, from which
`ClientLeasesCurrent` follows without another induction. For `ClientGrantsLive` the invariant `LiveInv`
says that a pending request is of the current epoch and was begun after the last revocation, and
that a validation in progress either is too or belongs to an epoch that is over; a revocation
empties the slots and starts an epoch, so it preserves both. `ClientKeysOwned` follows a lease from the
call that stored it to the one that removes it (`Owns`), and the pending key from "sent" to the step
that empties its slot (`KeyPending`). `ClientRefusals` is an action property: of the steps a validated
call can take, only `StoreRefused` ends in a cancellation. `ClientTyped` and `NoRollback`
(`NoHonestRollback`) are parts of `ClientInv`, which bounds all stored and signed sequences by the
server's counter.

`ServerEdgeProofs` proves `EdgeTyped`, `ReplaySafe` (`AcceptedOnce`) and `GracefulClose`
(`WorkKeepsStoreOpen`) for every skew, padding and number of requests and however long Redis takes.
What makes `AcceptedOnce` inductive is that a message accepted in time is kept until after
stamp + Skew + Padding (`Remembered`), so that a command executed less than the padding after a
clock reading that found the stamp fresh finds the message; one executed later is `late`, and
the property names it. `GracefulClose` needs that `activeRequests` is exactly the number
of handlers at work (`Counted`), so that `Math.max(0, ...)` in endRequest never hides a miscount.

Only model-checked: `TransactionsEnd`, `CallsAnswered` and `ShutdownEnds`, which need fairness
(liveness and ENABLED are beyond the prover). Every other property of a passing run is a theorem.
The three findings are counterexamples of TLC. No module uses a RECURSIVE operator.

## 5. Abstractions

* *InnoDB.* Row locks are exclusive; the shared lock that a foreign key takes on the merchant row is
  modelled as exclusive, which adds waits and removes none. (The one that the verification log of a
  client's unbind takes is on a merchant row its transaction already holds.) Gap locks are modelled
  in MysqlOrders (`GapHolders`): a deletion that found no order keeps others from inserting into
  `uq_orders_license`, be it the licence a fulfilment links or the NULL of a new order. Whether a gap
  takes in the new entry depends on random ids, so that there a transaction of `WaitsFor` *may* wait.
  They are left out in MysqlActivation, where the licence row is locked
  before its bindings' index range; `activate` also locks neighbouring records and gaps of
  (license_id, status), so that transactions of different licences, even of different merchants, may
  wait for each other, and a deadlock between them is outside the model.
  `DeadlocksNeedAdmin` and `OrdersDeadlockOnlyWithAdmin` are about the locks modelled. The announcements'
  SERIALIZABLE transactions share no row but the merchant's with these and are left out.
* *Maintenance on MySQL.* The DELETE of expired sessions (`mysql-maintenance-repository.js:15`) is
  LicenseCore's `CleanupSessions`; MysqlActivation, in which nothing expires, does not have it.
* *Reading the program* and capturing `now` are one step in `SubmitActivate` and `SubmitVerify`, though an
  await is between them: everything the captured instant is compared with is read later.
* *Time* in MysqlActivation stands still; expiry is LicenseCore's.
* *The JSON store's* single process: `cli/kmxt.js` opens the same file in a process of its own, which
  is listed as a hazard and not modelled. A third failure within one write (restoring the backup
  fails too) is left out, and so is a data file of another shape than the schema's
  (`assertStateShape`): it fails the start or, in a write, the call, before anything is stored. No other
  program removes the directory or files in it, so that ENOENT at start-up means a missing data file,
  though the code's `catch` would also take one from the upgrade's `#persist` for it. A crash is of the process: the operating system keeps what was written.
* *Access control* is modelled where it interleaves (AdminSessions); elsewhere an operation is one
  the actor may perform.
* *The Android client.* A nonce stands for its request, and for the handle of the lease the request
  may store; the 64-bit counters `authorization_epoch` and `model_request_generation` do not wrap; the
  wall clock and the steady clock run alike (in the code the lease deadline is on the steady clock,
  which stops while the device is suspended); failures of the random generator and of key agreement
  are answers that do not verify, and after that a lease is stored without `random_handle()` or memory
  failing (`RefusedOnlyWhenFull` is about a device where they work). There is one device, so that the
  server never answers DEVICE_MISMATCH; DEVICE_LIMIT_REACHED answers only `activate()`, which clears nothing
  for it, and is one of `Refused`'s failures. The keystore can decrypt what it encrypted: that `load()` drops
  an entry it cannot is left out. Signatures hold: an answer is one of the server's or garbage.
* *ServerEdge.* A connection carries one request. Timers that only limit a wait fire at any time.
  Requests that carry no nonce are the same without `Guard`. Redis may
  execute a command any time after it was sent: the client queues commands while it reconnects and
  gives them no time-out, so that after an outage longer than the padding (1 s) a message can pass
  twice, which `AcceptedOnce` excepts. A command of a process that has died
  reaches Redis before its successor starts, or never. Rate limits only refuse and are left out.
* *Random ids* do not collide, except order numbers and keys, whose collisions the code handles.

## 6. Findings

1. `mysql-verification-repository.js:72`: the device limit is not atomic on MySQL. The count comes
   from a read view that is older than the locks (run mysql_device_limit; docs/STORAGE.md:11,
   docs/MODULES.md:53). The theorem `Overshoot` says how far it can go.
2. `auth-service.js:121`: a login that verified the old password before a change gets its session
   after it (run admin_password; docs/API.md:163).
3. `json-store.js:92`: on a system that refuses to replace an open file, a crash between two
   renames makes the next start create an empty store beside an intact backup (run
   json_store_crash; docs/MODULES.md:72).

Observations without a run, met while modelling:

* `docs/API.md:665` says a consumed nonce is kept for its window; the memory driver forgets it on restart,
  and a SET that Redis executes after an outage may come when an accepted copy has run out. `AcceptedOnce`
  excepts both.
* A customer's order that is the victim of a deadlock with a product edit or the deletion of a licence is
  not tried again (`mysql-order-repository.js:20` retries collisions only); `OrdersDeadlockOnlyWithAdmin`
  says that it has no other cause.
* `docs/ANDROID_SDK.md:159` gives a notice five minutes of freshness, the code ten; `:161` names a
  NOTICE_ROLLBACK error that the client reports as INVALID_RESPONSE.
* Concurrent calls of the client may undo each other on the safe side: verify() with an old token
  clears the session a concurrent activate() has just saved, and a late answer that does not verify
  clears a newer authorization.
* close() waits without limit for a connection that never sends a request (see Fairness).
* The publisher deletes its ciphertext on any 4xx or 5xx (`model-artifact-publisher.js:359`), also on
  the 503 of a registration whose commit was lost on the way back and on a gateway's 502 or 504.

## 7. Plan

Done, in order of importance: licence machine, its MySQL implementation, administrator sessions,
JSON store, model delivery, storefront and its MySQL implementation, the Android client, the edge of
the server.

Proved: every invariant, action property and refinement the passing runs check.

Next theorems: the observations of section 6 on concurrent calls of the client, stated as action
properties of AndroidClient (what a stale answer may still clear), and the same transfer to leases on
MySQL once ModelDelivery's second transaction is modelled by statements.

Modules that could follow: the publisher's ambiguous registration composed with ModelDelivery, and
migrations as restarts.

## 8. Running

In this directory: `tlc -config MCLicenseCore.cfg MCLicenseCore` and likewise for the other
configurations (each between seconds and about two minutes); `tlapm LicenseCoreProofs.tla` and
likewise for `MysqlActivationProofs`, `MysqlOrdersProofs`, `AdminSessionsProofs`,
`ModelDeliveryProofs`, `JsonStoreProofs`, `AndroidClientProofs` and `ServerEdgeProofs` (up to two
minutes each, five for the first).

## Not modelled, and why

Reports, audit rows, presenters and pages hold no state a property is about. Validation and
cryptographic primitives are pure; the models take their results (a digest is the value digested,
a signature holds). The publisher is a sequential pipeline of files and HTTP calls: its ambiguous
registration is listed as a hazard. Migrations are data interpreted by MySQL. Rate limits and
login counters only refuse. Log retention removes rows nothing reads back.

Most of the C and C++ lines of the repository are the vendored OpenSSL headers under
`sdk/android/prebuilt/` (some 46,000), third-party declarations without behaviour to model. Of the
program's own C++, `native_runtime.cpp` is modelled to the last critical section and `validation.cpp` by
its verdicts.
