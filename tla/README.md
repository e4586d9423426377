# DarkTunnel PKI: a verification development

TLA+ models of this repository's own logic, checked with TLC on small
instances, and theorems about them, proved with TLAPS for every value of the
constants.

    tlc -workers 2 -config RelayServerStamps.cfg MCRelayEngine.tla   # one run
    tlapm RelayEngineProofs.tla                                      # one proof module

`PROJECT.json` lists components, runs, planted mutants, the source lines of
every definition, hazards and theorems.

## The system

The repository holds two programs that share nothing but their subject.

**DarkTunnel** is an Express server with a React client. A registered user
sends a message; the server signs it, wraps it in three onion layers, walks it
through three simulated relay nodes (all in the same process) and keeps the
outcome in SQLite (`better-sqlite3`, synchronous, autocommit).

**SecureVault** is a Python toolkit with a command line: a certificate
authority on files, a keystore, file signatures, hybrid encryption and a
replay cache.

| Component | State | Operations | Talks to |
|---|---|---|---|
| Relay engine (`backend/services/relayEngine.js`) | table `nonces` | `processPacket` | PKI service (is this certificate valid), audit log; called by the message service and by `POST /api/relay/process` |
| Message service (`messageService.js`, `encryptionService.js`) | table `messages` | `sendMessage`, `getMessageStatus`, `getUserMessages`, `createOnionPacket` | relay engine, PKI service, audit log |
| PKI service (`pkiService.js`) | CA key pair, serial counter and CRL in memory; `crl.json`; tables `nodes` and `users` | `initialize`, `issueCertificate`, `verifyCertificate`, `revokeCertificate` | database, file system; called by auth and PKI controllers |
| Auth (`authService.js`, `authMiddleware.js`) | table `users`; the token at the client | `register`, `login`, `authenticate` | PKI service, audit log |
| HTTP pipeline (`index.js`, `rateLimiter.js`, `validator.js`) | request counters in memory | one chain per request | everything above |
| Audit log (`auditLogger.js`) | table `audit_logs` | `log`, `getLogs` | called inside every handler, and may throw |
| Crypto primitives (`backend/crypto`) | none | AES-GCM, RSA-OAEP, RSA-PSS, key generation | `node:crypto` |
| Replay protector (`securevault/replay_protection.py`) | `_nonces` under `_lock` | `check_nonce`, `generate_nonce` | threads of one process |
| Certificate authority (`certificate_authority.py`) | `ca_key.enc`, `ca_cert.json`, `crl.json`, `serial.json` | `init_ca`, `issue_certificate`, `revoke_certificate`, `verify_issued_cert` | several processes through the files |
| Key manager (`key_manager.py`) | `{name}.priv`, `{name}.pub` | `generate_keypair`, `delete_key`, load, list | several processes through the files |
| Certificates, signatures (`pki_utils.py`, `signature_engine.py`) | none | sign and verify certificates, files, messages | the CA, the command line |
| Encryption engine (`encryption_engine.py`, `crypto_utils.py`) | none | hybrid encryption | library |
| Schema validation (`schema_validation.py`) | none | predicates over dictionaries | the command line |
| Command line, log (`securevault_cli.py`, `logging_utils.py`) | log file | one command per process | all of SecureVault |
| Web client (`frontend/src`) | session in `localStorage` and in React state | pages, API calls | the server |

### What is hard here

* Handlers of the server are synchronous, so they do not interleave. They are
  not atomic either: each SQL statement commits alone, each may throw, the
  clock moves between two of them, and the process may die between two.
* A nonce is remembered by the server's clock while a packet's age is measured
  by its own stamp; and anybody may send a packet with a nonce and a stamp of
  their own choice, for neither is part of the layers or of the signature.
* What survives a restart (database, CRL file) does not match what does not
  (CA key pair, serial counter, CRL in memory).
* SecureVault's commands read, compute and write files without a lock, and
  `write_text` truncates before it writes.
* `check_nonce` reads the clock once outside its lock and once inside.
* The login limiter takes the hit of a successful login back when its response
  has *finished*: from the counter as it is then, perhaps of another window.
* A user's role is copied into a token at login and stays there for 24 hours.
* A verdict of `verify` depends on five files of different ages, any of which
  may be edited, torn or of another directory.
* Three layers of the web client unwrap the answer to a login, and its token
  is kept in two places per tab, one of which all tabs share.

## The modules

Each `MCx` module instantiates `x` for TLC (model values, symmetry). Operators
whose comment begins with *Mutant of* are versions of the definition below them
with one planted bug. They are in no next-state relation. They are kept to show
that each property notices at least one plausible mistake: put in the place of
their definition, TLC finds the property violated.

### RelayEngine — `relayEngine.js`, `relayController.js`

One action per stretch of `processPacket` that ends in a durable write or a
clock reading: `ValidateNonce` (purge by age, then look up),
`ValidateTimestamp`, `RouteThroughNodes`, `CheckSender`, `StoreNonce`,
`LogProcessed`. `rpc` is the position in the handler, `cur` the packet,
`result` what the call returned or threw. With `DbFaults` every statement may
throw. The environment lets time pass, lets certificates run out at any moment,
issues and revokes them between requests, and kills the process at any step.
`trust` abstracts the PKI service to the set of subjects whose stored
certificate verifies now.

`POST /api/relay/process` asks for no token, and takes nonce and timestamp from
the body, beside the layers. So `Receive` hands over any packet: layers of every
kind the code tells apart (`Kinds`: good, not opening, of an unknown sender,
badly signed), new or copied from another packet, under any nonce or none or one
that SQLite cannot bind, with a stamp behind the clock, ahead of it, missing, or
no number (`NaN`, which `TooFar` lets pass as the code does). `accepted` is the
history of the packets that got past every check, and when.

What such a relay can promise is about nonces and stamps and not about layers:
`AtMostOnce` (no nonce and stamp are accepted again once they were accepted with
a stamp not ahead of the clock), `OncePerWindow` (no nonce twice within the
window, whatever the stamps), `OnlyVerifiedBurns` (only a packet that passes
takes a nonce) and `RowsLeaveByAge`. Layers that were captured and are sent under another
nonce, or under another stamp once the window is over, are another packet to the
code, and are accepted.

### MessageService — `messageService.js`, `encryptionService.js`

Extends RelayEngine. `sendMessage` is `BeginSend` (insert the pending row),
`CreateOnionPacket`, `StorePayload`, the relay's own steps, `UpdateStatus`,
`LogSent`; the catch block is `MarkFailed` and `LogFailed`, which may throw
again. `GetMessageStatus` and `GetUserMessages` show rows to the user who sent
them (`MayRead`). `told` records what a client was last told by any of these,
`outcome` what the relay returned. The nonces of the server's own packets are
16 random bytes: `FreshNonce` draws one that nobody used and no client will
think of (`ClientNonces`), and clients may send it once it was drawn. Because handlers are synchronous a send and a relay request exclude
each other (`Idle`). The composed system is checked and proved to implement
`RelaySpec` with the identity mapping, so the guarantees of the relay carry
over.

### PKIService — `pkiService.js`, `pkiController.js`, `register`

A handler is one action, for handlers do not interleave and the only durable
step besides a single row is the CRL file, which `SaveCRL` and `Crash` may
leave old, new or torn. The audit entry after a revocation may throw, when the
serial is in the CRL and the answer is an error: `requested` is the history of
what administrators asked for, `revoked` of what was answered with success. The start is split: `Start` (key pair, the CA's own
certificate, CRL, counter), `CreateNode` per row, `Announce`. A CA key pair is named by the start that drew
it; a certificate verifies when its serial is not in the CRL in memory, the
date is in its period and its key pair is the present one. `Found` is what
`GET /verify/:id` looks up: users first, then nodes. A day is the unit of time.

### AuthService — `rateLimiter.js`, `validator.js`, `authMiddleware.js`, `authController.js`, `adminController.js`, `authService.js`

A request is one action: its middlewares in the order in which `index.js` and
the routes mount them, then the controller, each statement of which may throw
(`Register`, `Login`; `Refuse` when the general limiter stops it). The routes
behind `authMiddleware` are `SendMessage`, `GetMessageStatus`,
`GetUserMessages`, `GenerateCert`, `VerifyCert` (`ForUser`), `RevokeCert` and
`GetLogs` (`ForAdmin`, which asks `MayAdminister` for the role in the token):
who gets which answer is here, what their handlers do to the tables is in
MessageService and PKIService. `ProcessPacket` is the one route that does work
for a client without a token.
`FinishLogin` is the one asynchronous step, the correction of the login
counter. Windows are fixed, counters are in memory (`Restart`), no endpoint
changes a role (`SetRole` is an operator's edit of the table). History:
`attempts` counts, per client and window, what failed, what succeeded and is
not finished, and which corrections came from an earlier window (`late`);
`lastAdmin` is when a user's row last said admin; `created` the registrations
answered 201. The requirements on names and passwords are one refusal (400).

### WebClient — `frontend/src`

Extends AuthService. `stored` is the item of `localStorage`, `session`, `page`
and `call` are per tab: `Load`, `Navigate`, `Logout`; the calls each page makes,
`SubmitLogin`, `SubmitRegistration`, `FetchStats`, `FetchMessages`,
`HandleSend`, `FetchLogs`; `Serve` is the backend's action; `LoggedIn`,
`Registered`, `Shown`, `Rejected` are what the interceptors and the pages do
with the answer. `NobodyGetsIn` is what follows from how `login` unwraps it.

### ReplayProtector — `replay_protection.py`

Per thread: `Call` reads the clock and takes the caller's timestamp or that
reading, `Acquire` the lock, `Evict` reads the clock again, `Check` compares the
age *at the call* and looks up, `Record` stores. Leaving the `with` block is
part of the last step (`Return`).

### CertificateAuthority — `certificate_authority.py` — and TrustRegister

Each command is a process; each read and write of a file a step; each write two
steps (truncate, fill). A file is absent, torn or holds a value. A read of a
file that is not legible ends the process, as its exception does; so does a
wrong password. `Interrupt` kills a process anywhere, a failing write included.
Key pairs are named by the `init_ca` that drew them. Validity periods are in
SecureVault.

`TrustRegister` is the abstract specification: a sequence of certificates that
only grows, with serial numbers that grow under each key, a set of revocations
that only grows, and the set of certificates that verify, of which none is
revoked. CertificateAuthority implements it (`ImplementsRegister`; `valid <- Valid`).
The register does not promise availability: each save of the list truncates the
file first, so nothing verifies for a moment, and afterwards some, all or none do.

### KeyManager — `key_manager.py`

The same file model on two files per name, plus `unlink`: a process that is
writing a file that another one unlinks goes on writing a file without a name.
`contended` remembers the names two processes worked on at a time and `killed`
the names a process was interrupted on; the properties say what holds for the
other names.

### SchemaValidation — `schema_validation.py`

The four validators as operators over documents. A document is a record of the
values that its readers tell apart and a mark that says which one of its JSON
fields is missing, of another type, garbled, of a wrong size, empty, ahead
of the clock, or a PEM of a key of another type. The word in `key_type` is a value of its own
beside the key, so a certificate may say `ecc` of an RSA key.

### SecureVault — `securevault_cli.py`, `signature_engine.py`, `encryption_engine.py`, `pki_utils.py`, `crypto_utils.py`

The commands over the files they share, one at a time (several at a time are
CertificateAuthority and KeyManager). Two directories have a CA each; one
document has a certificate, a signature and an encryption. A command that only
reads is an operator: its checks in their order, each with the verdict or
exception it ends in (`When`), joined by `??`, the early return. A command that writes
is an action and may leave its file torn. Signatures are symbolic: the key and
what it was made over. The properties speak of every *version* of a file:
another value in one field, or one field damaged. `condemned` is the history
that `NoRevival` needs: the directories and CAs under which the present signature
file was expired or revoked in any state since it was written, so that a verdict
cannot come back by way of an error either.

## The runs

| Run | What it shows |
|---|---|
| `RelayServerStamps` | any client, any nonce and any stamp: what was accepted with a stamp not ahead of the clock is not accepted again (`AtMostOnce`), a nonce is accepted once per window (`OncePerWindow`), its row is the only one (`NonceRowsUnique`), and only accepted packets take one (`OnlyVerifiedBurns`), under crashes and throwing statements |
| `RelayClientStamps` | *violated*: a packet whose stamp is no number passes the timestamp check for ever and is accepted again when its nonce row is purged (`ReplayRejected`); one stamped ahead, which `Math.abs` admits, does the same |
| `MessageFaults` | throwing statements and crashes anywhere: a row that reads delivered was delivered and is complete (`DeliveredIsTrue`), a final status a client was told is never taken back (`ToldIsFinal`), and `RelaySpec` is implemented |
| `MessageQuiet` | nothing fails: no row stays pending, a row follows the relay's result, every send is answered |
| `PKIRestarts` | restarts, crashes, lost and torn CRL files: a revoked certificate never verifies again (`RevokedStaysRevoked`), one is refused before its time only if its serial number was asked to be revoked (`RefusedWasRequested`), serials are unique per key pair and never collide with a node's, the service never listens with an incomplete set of nodes |
| `PKIRestartKey` | *violated*: after a restart no relay node's certificate verifies, for the CA key pair is new; no message can be sent from then on |
| `AuthLimits` | failed logins stay limited per window, late corrections aside (`FailedLoginsLimited`); who may read the audit log or revoke certificates was an admin less than a token's life ago (`AdminWasAdmin`); users, audit log, tokens and answers agree whichever statement throws (`RecordsAreTrue`) |
| `WebLogin` | *violated*: a login that succeeded leaves the text `undefined` in `localStorage`, and its user is not authenticated |
| `ReplayThreads` | two threads: mutual exclusion, the lock is always given back, no nonce is accepted twice within the window of the timestamp it was accepted with |
| `CAOneProcess` | one command at a time, given a wrong password or killed anywhere: serials grow, acknowledged revocations stay or nothing verifies, what was issued verifies; as long as nothing was interrupted an initialized CA has all its files; `TrustRegister` is implemented |
| `KeyTwoProcesses` | two processes, two names, killed anywhere: a name that they do not meet on never mixes two pairs (`PairsMatch`), keeps what was reported (`ReportedIsKept`) and, unless somebody was killed on it, is whole (`NamesAreWhole`) |
| `VaultVerdicts` | a verdict *valid* on any version of a signature file is backed by the CA named and by the owner of the certified key, over what the document holds now (`ValidIsSigned`); a file that was ever *expired* or *revoked* since it was written is not valid, whatever came in between (`NoRevival`); what commands write passes the validators, and what passes them is read without a traceback, but for the exceptions named (`SchemasAgree`) |

### Bounds, and why they are enough

* Relay: two nonces (one remembered, one new), one node and one sender (all
  three nodes are needed together, so one stands for them), a window of one
  instant, stamps up to one instant ahead (`Ahead`) and a clock of three: a row
  can be too young, exactly at the edge and too old for the purge, a packet the
  same for the timestamp check, independently, and a packet stamped ahead can
  outlive its row. Stamps further ahead are refused like one too old.
* Messages: the window is 1 and the clock 2, so that a packet can grow too old
  inside one handler. `MessageFaults` has one message beside the packets of
  other clients, who choose among one nonce of their own and those the server drew;
  `MessageQuiet` has two messages, and clients that send copies of the server's
  packets. What clients gain by stamps ahead of the clock is the relay's run.
* PKI: two starts, two nodes (a start can die between them), one user, serials
  for one certificate beyond the nodes', two days, with certificates that are
  valid on the day of their issue: a certificate can be valid, at its last day
  and expired.
* Replay: two threads, two nonces, a window and a tolerance of 1 and a clock of
  3: stamps can be missing, stale, at each edge and too far ahead.
* CA: three key pairs, four serial numbers, one process; TLC sees the start, the
  interruption and the repetition of every command.
* Auth: one user, one client, a window of two instants, three requests and one
  failed login in it, tokens of one instant, a clock of three: a window can end
  under an unfinished response, and a role be taken away, with and without a
  live token. Clients do not share anything but the tables, so one is enough; a
  refused client's further requests are left out until its window is over
  (`Asks`), for they would only be counted.
* Web: two tabs, tokens of two instants. `NobodyGetsIn` holds in this state
  space for one tab completely; for any number of tabs it is proved.
* Vault: two directories, an RSA and an ECC pair, an empty and a non-empty
  document, one serial number per CA (the same in both, so that the list of
  one can be held against a certificate of the other), certificates of one
  instant and a clock of two. At most one file is torn or one CA half
  initialized at a time (`MayTear`); a document once written is not removed.
* Keys: two processes, two names, three pairs: a name can be generated, deleted
  and generated again beside the other.

`CHECK_DEADLOCK FALSE` is set where the system may stop: the PKI service when
the process is down for good, and the commands of SecureVault (`CAOneProcess`, `KeyTwoProcesses`,
`VaultVerdicts`), of which none need be running. Symmetry is used for model values that are interchangeable,
and never in a run with a liveness property.

### Fairness

`FairMessageSpec` assumes `WF(SendMessage \/ RelayRuns)`: a synchronous handler
that has begun is run to its end by the event loop. Nothing is assumed of
clients, of the clock, or of `GetMessageStatus`. `FairSpec` of ReplayProtector
assumes `WF(InsideLock(t))`: a thread that holds the lock keeps running.
`threading.Lock` promises no order, so nothing is assumed of `Acquire`.

## The proofs

Eight modules: `RelayEngineProofs`, `MessageServiceProofs`, `PKIServiceProofs`,
`AuthServiceProofs`, `ReplayProtectorProofs`, `CertificateAuthorityProofs`,
`KeyManagerProofs`, `SecureVaultProofs`. They assume nothing but the named assumptions on the
constants, which TLC evaluates in the runs, and what is stated here.

* **Relay.** `RelayTypeCorrect`, `RelayRowsUnique`, `RelayRowsLeaveByAge`,
  `RelayAtMostOnce`, `RelayOncePerWindow` and `RelayOnlyVerifiedBurns`, for any
  nonces, stamps, windows and clients; none assumes a clock of the clients.
  Three layers of invariants: the types (`RelayTyped`); one row per nonce, and none for
  the nonce of a handler past the lookup (`RowsInv`); and for the history
  (`OnceInv`), an accepted nonce is in the table as long as the window lasts
  since it was accepted (`Remembered`), and a handler past the timestamp check
  does not hold a nonce and stamp that were accepted in time before
  (`NotInTimeBefore`): after the window their stamp is too old for the check.
  Type correctness alone is not inductive for this, for `AtMostOnce` depends on
  what the table *was* at the lookup. `CheckedSoFar` is the same for
  `RelayOnlyVerifiedBurns`: what a packet has passed at its position.
* **Messages.** `MessageImplementsRelay`: every step of the composed system is
  a step of the relay or changes nothing of it. With it what is
  proved of the relay carries over: `MessageAtMostOnce`, `MessageOncePerWindow`,
  `MessageKeepsNonces`. `MessageDeliveredIsTrue` and
  `MessageToldIsFinal` need to know where the handler stands: the row in work
  is pending until `UpdateStatus`, and only the row in work changes.
  `MessageTypeCorrect`; `MessageNothingPending` and `MessageFollowsRelay`
  assume that nothing throws or dies (`QuietInv`).
* **PKI.** `PKITypeCorrect`, `PKISerialsUniquePerKey` (every certificate of the
  present key pair has a serial below the counter), `PKIRevokedStaysRevoked` (a
  revocation under the present key is in the CRL in memory, and one under an
  older key belongs to a certificate the present key did not sign),
  `PKIRefusedWasRequested` (every number in the CRL, in memory or on disk, was
  in a request to revoke),
  `PKINodeSerialsReserved` and `PKINodesComplete` (node *i* has serial
  `FirstSerial + i`; the counter never falls below the last node's serial while
  the service runs). How far `ServingNodesValid`, which a restart violates, can
  be relied on is proved, too: `PKIFirstStartValid` until the second start, and
  `PKINodesAllOrNone` for all later ones, for one start signed all stored node
  certificates (`NodeKeyInv`), so they verify together or not at all.
* **Auth.** `TypeCorrect`; `LoginsAreLimited`: failures and unfinished successes
  of a window are at most its hits and the late corrections (`Covers`), and a
  failure is counted only within the limit (`Within`); `FailedLoginsLimited`
  alone is not inductive, for it does not mention the counter.
  `AdminsWereAdmins`: a row that says admin is current in `lastAdmin`, and a
  token is covered by it (`RowCurrent`, `TokenCovered`). `RecordsStayTrue`.
* **Web.** `WebImplementsAuth`: a browser with any number of tabs uses the
  backend as any client may, so `WebKeepsGuarantees` follows. The step that is
  not immediate is a call whose token the backend never handed out
  (`ForeignToken`): it is answered like one without a token.
  `WebNobodyGetsIn`: storage and every session hold no token or the text
  `undefined`, of which neither has a user in it (`WebInv`), so a tab that wants
  a page behind `ProtectedRoute` ends at the login page.
* **Replay.** `ReplayTypeCorrect`, `ReplayOneInside`, and `ReplayNotTwice` for
  any number of threads: a nonce that may still be within its window is in the
  cache with the timestamp it was last accepted with, and a thread past the
  lookup holds the lock and found nothing.
* **Certificate authority.** `CATypeCorrect` for any number of processes.
  `CASerialsIncrease`, `CARevocationsKept` and `CAIssuedVerifies` for one
  process, whatever its number of runs and wherever it is killed; two processes
  break them. The invariant has four parts: nothing is issued or revoked before
  there is a CA certificate, so `init_ca` overwrites nothing that counts
  (`Phases`); `serial.json`, when it parses, is ahead of every certificate, and
  ahead of the one about to be signed (`Serials`); the list about to be saved
  has all that was revoked (`Lists`); the keys on disk, in use and in the
  certificates are one (`Keys`). A file that does not parse breaks none of
  them: no command goes on after it read one. `CAImplementsRegister` is the
  refinement: each step is an `Issue`, `Revoke`, `Suspend`, `Resume` or a
  stutter of TrustRegister. `CAInitializedIsUsable` needs to know which file of
  `init_ca` is open and which are written (`UsableInv`).
* **Keys.** `KeyTypeCorrect`, `KeyPairsMatch`, `KeyReportedIsKept`,
  `KeyNamesAreWhole` for any number of processes, names and pairs. The
  invariant `Store` is per name: on a name that is not contended at most one
  process works (`Alone`), the files are what its position says (`Stage`), and
  from that the pairs match, what was reported is there, and a name nobody
  works on is whole. Each action changes one name's files (`StoreHere`) and
  leaves the others' as they were (`StoreElsewhere`).
* **SecureVault.** `VaultTypeCorrect`, `VaultValidIsSigned`, `VaultNoRevival`,
  `VaultSchemasAgree` for any number of directories, key pairs and contents.
  One half of the argument is about commands that read: a list of checks lets
  pass when all its checks do (`AllPass`), so *valid* says what each of them
  says, of any version of the file (`VerifySays`). The other is about commands
  that write (`VaultInv`): each document in a file that parses is one that a
  command made, from what was issued and signed. `VaultNoRevival` needs a reason
  for every refusal that outlives the steps after it (`Lost`): the period is over, and the clock does
  not run back (`TimeRuns`), or there is a CA whose list has the number or does
  not parse, and a list keeps what it has or stays torn (`NothingForgotten`).

Only model-checked: the liveness properties `SendIsAnswered` and
`LockIsReleased`, which are out of the prover's reach. The proofs of
`CertificateAuthority` are for one process at a time, for two refute them.

## Where the code and what it says of itself part

Three runs end in a violation; each quotes the statement it contradicts in
`PROJECT.json`. Reading the code for the models showed more, which the models
admit and the properties are worded around. RQ and SR are
`.kiro/specs/darktunnel-pki-web/requirements.md` and
`.kiro/specs/securevault-pki/requirements.md`.

Server:

* A nonce and a timestamp are bound to nothing (`relayEngine.js:37,81`): whoever
  has seen the layers of a packet can send them to `POST /api/relay/process` under
  a nonce and a stamp of their own, and the relay answers *delivered* (RQ:111).
  `AtMostOnce` and `OncePerWindow` speak of nonces and stamps for this reason.
* An exception of the UPDATE or of the audit entry after a delivery lands in the
  same catch block as all others and marks a delivered message failed
  (`messageService.js:84`; RQ:146). `DeliveredIsTrue` is the other direction.
* A process that dies inside `sendMessage` leaves the row pending; nothing looks
  at pending rows at start (`NothingLeftPending` needs `Crashes = FALSE`).
* After a restart the serial counter continues after the last *node's*
  certificate, so a serial that is in the users table is given out again
  (`SerialsUniquePerKey` is per key pair for this reason). `verify/:id` may then
  find another user's certificate, and since the CRL does outlive the restart a
  certificate can be born revoked (`RefusedWasRequested` allows for it).
* When the audit entry of a revocation throws, the client gets a 500 and the
  certificate is revoked (`pkiService.js:176`); an administrator who reads the
  answer and the audit log cannot tell.
* A start that dies between two relay nodes makes each later one fail on the
  UNIQUE name (`CreateNode`, second disjunct).
* A failing write of `crl.json` is logged and dropped while the revocation is
  acknowledged (`SaveCRL`). What keeps the certificate from verifying after the
  next start is the new CA key pair, not the CRL.
* `register` inserts the row before its audit entry; when that throws the client
  is told the registration failed and the name is taken (RQ:40 asks for a
  rollback). `RecordsAreTrue` speaks of the acknowledged ones for this reason.
* A login of an unknown user leaves no audit entry (RQ:157: login failure).
* `rateLimiter.js:8` says sliding window; the store's windows are fixed, so
  twice the limit can fall into one span, and a restart clears all counters.

Web client:

* Since a login never authenticates, no protected page can be reached
  (`WebNobodyGetsIn`).
* `DashboardPage`, `TrackingPage` and `AdminLogsPage` take the body
  `{success, data}` for the list in it; the filter of `AdminLogsPage.jsx:15-28`
  has names that no code logs.
* `SendMessagePage.jsx:53` reports a delivery for every answer of the server,
  a failed one included; `StatusBadge.jsx:24` and `DashboardPage.jsx:21` know
  `invalid_signature` where `db.js:74` has `signature-invalid`.

SecureVault:

* Eviction reads a later clock than the age check (`replay_protection.py:105`):
  a message with a stamp is accepted a second time around the end of its
  window, and one that grew stale while its thread waited is accepted.
* `serial.json` is read and written without a lock: two `issue` commands at a
  time use one number (`certificate_authority.py:317`; SR:81). Two `revoke` at a
  time lose one revocation, and two `init` may leave the key of one beside the
  certificate of the other.
* An interrupted `init_ca` leaves a CA that counts as initialized and cannot
  issue (`InitializedIsUsable` says *unless interrupted*).
* `revoke_certificate` takes any number, issued or not.
* Two processes that generate one name at a time both succeed, and the files
  may hold halves of two pairs (`contended`).
* `verify` asks the CRL of the directory it runs in, whatever CA certificate it
  is given: without a CA there, nothing is revoked; with another CA, its numbers
  count (SR:157). `ValidIsSigned` says what remains.
* `InvalidTag`, `KeyError`, `TypeError` and `AttributeError` leave `main` as
  tracebacks (`Tracebacks`; SR:222, `securevault_cli.py:8`).
* `validate_encrypted_message` refuses what `encrypt` writes for an empty
  document; `validate_signature_payload` looks at the presence of the fields of
  `signer_cert` only (SR:231); `validate_certificate` does not compare
  `key_type` with the key, nor does `encrypt_message`, whose docstring promises
  a `ValueError` for a recipient without an ECC key (`encryption_engine.py:76`):
  a certificate that says `ecc` of an RSA key, and a message whose
  `ephemeral_pub_b64` is a PEM of one, pass the validators and end in a
  traceback (`crypto_utils.py:255`). `SchemasAgree` names these four and says
  there is no other.
* `b64_decode` says it takes unpadded text (`crypto_utils.py:310`) and does not.
* `sign` does not check that the certificate is for the key, `encrypt` does not
  verify the recipient's certificate, `issue-cert` writes over the certificate a
  subject had, `decrypt` by default over the document, and `decrypt` never asks
  the replay protector.

## Not modelled, and why

* The cryptographic primitives of both programs are libraries; a key pair is a
  name and a signature a record of what made it.
* What pages draw, layout, the hints of forms, log formatting, SQL text and
  argument parsing carry no state that a property could be about.
* The filters and the limit of the audit query: one SELECT statement.
* A year after their creation the relay nodes' certificates run out, and no
  message can be sent. There is no code that renews them, hence nothing to model
  but the expiry, which RelayEngine and PKIService have.

## What could follow

* `DarkTunnelBackend`: PKIService composed with MessageService, `trust` being the
  subjects whose stored certificate verifies. At present RelayEngine lets trust
  change freely, which covers every behaviour of the composition.
* An abstract replay filter that the relay and the replay protector both
  implement.
