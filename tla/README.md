# TLA+ models of the dashboard backend

These modules model the server in `src/`: sessions and rotating refresh tokens,
access tokens and their Redis blacklist, the second factor, registration,
passwords, the profile cache, user administration, the database client, the
codecs, and the life of the process. TLC checks them on small
instances; TLAPS proves their safety properties for every value of the
constants. The modules follow the code, not its documentation; where the two
disagree, *Findings* says so.

## The system

A Drogon server (HTTP on 8080, gRPC on 50051) in front of SurrealDB and Redis.

| Component | State | Operations | Interacts with |
|---|---|---|---|
| Sessions and refresh tokens (`AuthController.cc`) | tables `session`, `refresh_token`, `password_reset`; `user.status` | login, issueTokens, refresh, logout, forgotPassword, resetPassword | SurrealDB through SurrealClient; user administration writes `status` |
| Access tokens and blacklist (`AuthFilter.cc`, `jwt.hpp`, logout) | the token itself (`exp`, `jti`, `sid`); Redis keys `blacklist:jti:<jti>` | doFilter; SETEX of logout | Redis by asynchronous commands with two callbacks |
| Second factor (`AuthController.cc`) | `user.totp_secret`, `totp_enabled`, `backup_codes` | totpEnable, totpVerify, totpDisable, backupCodes, login with a backup code | the user record, by read and later `UPDATE ... MERGE` |
| Registration, email verification (`AuthController.cc`) | `user`, `email_verification` | registerUser, verifyEmail | ends in issueTokens |
| Password change (`UserController.cc`) | `user.password_hash`, `password_reset` | changePassword, resetPassword | login in flight; refresh tokens |
| Profile and cache (`UserController.cc`) | Redis keys `cache:user:<id>` | me, updateMe, invalidateCache | Redis, SurrealDB |
| User administration (`UserController.cc`) | `user.status`, `role`, `deleted_at`; `invite` | updateUser, deleteUser, listUsers, getUser, bulkInvite | claims of the access token; refresh and login read `status` |
| SurrealDB client (`SurrealClient.cc`) | none | exec and the helpers on it | HTTP, one blocking call per statement list |
| gRPC user service (`UserServiceImpl.cc`) | none | GetUser | SurrealClient, and through it the HTTP event loop |
| Server life cycle (`main.cc`) | event loop, gRPC server, its thread | start, run, signal, Shutdown, join | every call in flight |
| Codecs (`jwt.hpp`, `totp.hpp`, `crypto.hpp`) | none | base64, base64url, base32, hex, stored hashes, TOTP window | |
| Logging (`logging.hpp`) | `gmtime`'s struct, `std::cout` | log (not modelled) | every thread |
| JWKS, schema, scripts, build | none that the server changes | | |

What is hard in it:

* **Read, decide, write.** No handler uses a transaction or a conditional
  write. A handler is a sequence of blocking calls, any number of which run at
  once on the server's threads; whatever a handler has read may have changed
  when it writes.
* **Partial failure.** Every call may fail between two writes, with or without
  having been executed; there is no compensation. A statement the database
  *refuses* is not even an exception (`SurrealClient.cc:52-60`).
* **Two answers to one question.** logout's answer is given by a Redis callback
  and, when the database fails, by its catch block too.
* **Clocks.** The blacklist key lives `exp - now` whole seconds; the token is
  good while `exp >= now`. A TOTP code is good for three periods. Claims are as
  old as the token.
* **Late commands.** me fills the cache after it has read and answered; Redis
  executes SETEX and DEL when they arrive, or never, and nobody waits for them.
* **Two servers in one process.** gRPC takes calls from before the event loop
  runs until after it has stopped, and each call needs that loop.
* **Width and boundary.** A shift count in a `size_t`, padding that is dropped
  and restored, digits that must keep a leading 0.

What makes each part correct: nothing is minted on a dead credential; rotation
and revocation leak no more than the requests in flight; a 204 of logout means
that the access token is refused from then on; every request is answered, and
once; a backup code works once, and the enabled second factor is one the user
has; an address has one user, whoever registered can verify it for a day, and
few become administrators by a race; a replaced
password is good for nothing but requests in flight; an outdated profile or
role lives no longer than its time; invites are told whole or not at all; what
is encoded can be read back; the process starts and ends. The full list of
hazards, each at its line, is in `PROJECT.json`.

## Modules

| Module | Models | Lines up with |
|---|---|---|
| `SurrealCalls` | how one call of `exec` can end | `SurrealClient.cc` |
| `AuthSessions` | sessions, refresh tokens, reset tokens | `AuthController.cc:122-190, 261-524`, `UserController.cc:253-317` |
| `AccessTokens` | filter, blacklist, Redis part of logout | `AuthFilter.cc`, `jwt.hpp:80-109`, `AuthController.cc:325-371` |
| `SecondFactor` | TOTP enrolment, backup codes | `AuthController.cc:91-112, 293-310, 585-766` |
| `RotatingTokens` | abstract specification: what sessions and refresh tokens promise | |
| `AuthSessionsRefinement` | the mapping by which `AuthSessions` implements it | |
| `Registration` | registerUser, verifyEmail | `AuthController.cc:194-258, 526-566` |
| `Passwords` | changePassword, login, resetPassword | `UserController.cc:162-199`, `AuthController.cc:261-291, 433-523` |
| `UserCache` | me, the writes of the record with and without invalidation, Redis | `UserController.cc:60-66, 81-160`, the writes in `AuthController.cc` |
| `UserAdmin` | updateUser, deleteUser, listUsers, roles in claims | `UserController.cc:16-18, 202-317` |
| `Invites` | bulkInvite | `UserController.cc:319-363` |
| `SurrealClient` | result sets, lookups, ids | `SurrealClient.cc:63-113` |
| `ServerLifecycle` | main and the gRPC calls | `main.cc`, `UserServiceImpl.cc:45-83` |
| `BitStrings` | reference definition of Base64 and Base32 (RFC 4648) | |
| `Base64` | the loop of both base64 encoders, by integer type | `SurrealClient.cc:10-26`, `jwt.hpp:16-32` |
| `Codecs` | base64url, base32, hex, stored password hashes | `jwt.hpp:16-54`, `totp.hpp:17-64`, `crypto.hpp:12-94` |
| `Totp` | the window of verify_code | `totp.hpp:72-129` |
| `MC...` | symmetry sets for TLC | |
| `MCParts` | one instance of `Codecs` (with `Base64`), `Totp`, `SurrealClient` and `ServerLifecycle` | |
| `...Proofs` | theorems about the module of that name; `AuthSessionsProofs` has the refinement too | |
| `PartsProofs` | theorems about `Invites`, `ServerLifecycle`, `Totp`, `SurrealClient`, `Base64`, `Codecs` | |

### SurrealCalls

Every database call is one atomic action that ends in one of the `Outcomes`:
`"ok"`; `"lost"` (not executed, throws); `"noreply"` (executed, throws);
`"error"` (not executed, does **not** throw: the JSON error body is returned
and the caller sees a result without rows). `Faults` selects the outcomes an
instance allows, and whether the process may crash (`"crash"`). A read that is
not `"ok"` throws or yields no row; both refuse the request, so reads carry no
outcome of their own where a refusal changes nothing.

### AuthSessions

`thread[h]` holds the program counter and the locals of the handler that thread
`h` runs; `status`, `session`, `token`, `reset` are the tables. An action is
one call and the code up to the next; its name is the handler's and the step's
(`RefreshLookup`, `RefreshSession`, `RefreshUser`, `RefreshRotate`, then
`IssueTouch`, `IssueToken`, `IssueFinish`). The audit row and `last_login_at`
are part of the step that ends the handler: they change nothing a property is
about, but a failure there still withholds the answer.

* `issued` are the ids a client holds the secret of; a request can only present
  those. A record whose secret never reached a client is dead weight.
* A wrong password, TOTP code or an expired date refuses a request, and a refused
  request writes nothing: it is the same as no request. Passwords are not told
  apart, so a token's expiry is a client that does not present it.
* An access token is represented by its `sid` where logout takes it.
* `alive[h]` is history: what was valid when the request in hand arrived, plus
  users enabled since. `parent`, `by` and `late` of a token are history too. No
  guard reads them.
* Lookups of the form `LET ...; SELECT ...` yield the rows of the `SELECT`, as
  the code expects of them.

### AccessTokens

`request[r]` is a request from its arrival at the filter to its last answer;
`cmd` the state of the SETEX that logout sent, so that Redis, its callback and
logout's handler move independently. `key[j]` is the second from which
`blacklist:jti:<j>` no longer exists. The clock `now` is common to the server
and Redis and moves by `Tick`, between any two steps. `ended` and `late` are
history: tokens whose logout was answered with 204, requests that came with one.
A token without a jti does not occur: `issueTokens` always sets it.

### SecondFactor

The record of one user. Handlers of different users do not meet, so one record
is enough. `Read` takes the copy `thread[h].read`; the writes replace the fields
they name, whatever the record has become. The set `outdated` is history: it
names the writes (`"verify"`, `"consume"`) that relied on a secret, or on codes,
no longer those of the record. The properties about single use, lockout and
retired codes hold as long as the write in question has not happened; they are
broken once it has, which is the exact extent of the hazard.
A TOTP code is right if it is of the copy's secret; the time window is in `Totp`.

### RotatingTokens and AuthSessionsRefinement

`RotatingTokens` knows no database, user, password or fault. A token is born
once, is live, and dies once; a request presents a live token, is admitted while
its session is open, and kills the token before it is granted one new token of
that session; a login is granted one token of the session it opens. There is no
lock: between those steps anything may happen. The mapping reads the abstract
state off the records (created, active, revoked) and how far a request has come
off the handler's program counter. The touch of the session, the user check, the
audit row, a read that refuses and every other table are stutters. A crash maps
to `DropAll`, the bulk updates of logout and resetPassword to `Kill`. A rotation
that the database refuses in silence is not an abstract step, so `"error"` is
excluded.

### Registration

One action per call of registerUser: `Register` (the lookup of the address),
`Count`, `Create`, `Activate`, `Reload`, `CreateCode`, `Finish`; and three of
verifyEmail. The unique index `idx_user_email_norm` (`001_init.surql:21`) is part
of `Create`, because createUser throws when the database gives it no row.

* The administrator. registerUser makes the first user one: it asks for
  `SELECT count() AS total FROM user` and compares the first row's total with 0.
  The constant `GroupsCount` is the reading of that query. If it gives one total
  for the table, as the code takes it, count and create are a race, and
  `OneAdminPerThread` bounds what it leaks; this is the instance that TLC checks.
  If it gives a row of total 1 for each user, as SurrealDB does without `GROUP
  ALL`, no total is ever 0 and registration makes no administrator at all. The
  theorem covers both. `by` of a user is history.
* The 24 hours. `Lapse` ends them for any code at any time; `Verify`, which is
  verifyEmail's lookup, wants a code that is unused and not expired (`Good`).
  No handler makes a second code, so a user who lets the day pass can never
  verify, and his address stays taken. `OnlyTimeLocksOut` says that
  nothing else does this to him: no failure or crash in verifyEmail uses up a
  code that has not verified its user.

`registered` is history. `Finish` stands for issueTokens, the audit row and the
answer, which succeed together or throw.

### Passwords

A password stands for itself and its hash; clients never choose one twice, so a
password says who set it. `thread[h].under` is the password that was checked, or
that a reset replaced. `late` of a token, `changed` and `resets` are history.
Refresh is left out: it never looks at a password (`AuthSessions` has it).

### UserCache

One user's record is a version number, and so is a cached profile. `me[r]` is a
request from its GET to its SETEX; `dels` counts DELs on their way. Time is
counted in ages (of a fill on its way, of the key) and has no end. There are two
kinds of writers. `Update` is updateMe, changePassword, updateUser and deleteUser
of UserController, which send a DEL after the write. `AuthUpdate` is AuthController,
whose handlers write the same record and send none: `last_login_at` (issueTokens),
`email_verified` and `status` (registerUser, verifyEmail), the password and
`profile_updated_at` (resetPassword), `totp_enabled` (totpEnable, totpVerify,
totpDisable), the backup codes. The cached profile has these fields, or the
`updated_at` that every write of the record changes. `escaped` is history: it names
the way by which the profile in the cache got past invalidation - a fill that overtook
the DEL, a refused read that was cached as null, a write that was executed but threw,
a DEL that failed, a crash, and a write without a DEL.
me's success callback uses `claims` without capturing it; it is modelled as if
it were captured, which is what its text means.

### UserAdmin

`grant[u]` is for how much longer the youngest token of `u` with the role
`admin` is accepted; `lost[u]` (history) for how long `u` has not been an active
administrator. login and refresh are the two steps `ReadUser` and `Mint`: the
role is read in one call and signed some calls later. The first administrators are
there at the start. updateUser takes any string for the status: `"other"` stands for
all that are neither `"active"` nor `"disabled"`; they bar from login and refresh and
leave `deleted_at` alone.

### Invites

`batch[h]` is one request with its place in the list, the items of its answer
and the tokens it has used. No handler consumes an invite.

### SurrealClient

One call at a time, no failures: the module is about what a statement and its
answer are, for every table that `CreateUser` brings about. An id is `"user:01H"`
or `"01H"`; an address is a name and the case of its letters. Whether a LET
yields a result of its own is SurrealDB's affair and an argument of the lookup
(`letAnswers`). `LookupFindsUser` is about the lookups as the code means them: the
LET has no result, and ids come cut. The other two, `LoginFindsUser` and
`DocumentedIdFound`, are what the documents say of them, and are violated (findings 2
and 3).

### ServerLifecycle

`main` walks through `main()`; `loop`, `server` and `waiter` are the event loop,
the gRPC server and grpcThread. A call is `"entered"`, then `"query"` while exec
blocks; only a running loop completes it. Shutdown takes no deadline and waits
for every call.

### Base64, Codecs, Totp and MCParts

`Base64` runs the two loops turn by turn with integers of `Width` bits, for
`int` (jwt.hpp) and for `size_t` (SurrealClient.cc); a shift by more than the
width may yield anything and is the digit `Garbage`. `Codecs` has the encoders
and decoders as operators; their argument is the input of `Base64`, whose output
they use. A character is its place in the table. A function of bytes that has no
state between its turns is the sequence that it returns: `UrlEncoded` is `out` up
to the last character that is not `'='`, `ToHex` has two digits for each byte.
OpenSSL's decoder and PBKDF2 are external.
In `Totp` HMAC and truncation are one function, the constant `Truncated`. Period,
window and the width of the counter are constants as well (30, 1 and 64 bits in
the code). `NoCollision` assumes that it gives no two counters the same six
digits, of those that the clock of an instance comes to and of those below 0 that
wrap; two counters with the same code are accepted for each other, and there is
no more to say of them. `generate_code_now` plays the authenticator, and the clock
is the one variable.

These modules, `SurrealClient` and `ServerLifecycle` share nothing, so `MCParts` puts
them beside each other in one instance, in which one is followed while the others are
at their beginning: time passes and users are created beside the empty input and a
process not yet started, and the process is started beside the empty input, the clock
at 0 and the empty table.

## Runs

| Run (`.cfg`) | Checks | Bounds | States | What it shows |
|---|---|---|---|---|
| `AuthSessions` | `OnlyLiveCredentials`, `OneChildPerThread`, `OneLateTokenPerThread`, `LogoutCompleteIfErrorsThrow`, `ResetComplete`, `ImplementsRotatingTokens` | 2 threads, 1 user, 1 session, 3 tokens, 1 reset; lost, noreply, crash | 530 k | no handler goes on with what was dead when its request came; the leak of unsynchronised rotation is one token per thread; logout and reset that end have done it all; each step of a handler is a step of `RotatingTokens` or none |
| `AccessTokens` | `BlacklistOutlivesToken`, `LoggedOutRefused`, `EveryRequestAnswered` | 2 requests, 1 token, 3 seconds; lost, noreply, error, Redis fails | 208 k | what logout's 204 guarantees, and that every request is answered |
| `SecondFactor` | `BackupCodeOnce`, `EnabledIsProven`, `RetiredCodesDead` | 2 threads, 2 secrets, 2 batches of 2 codes; lost, noreply, crash | 515 k | which stale writes break the second factor, and that nothing else does |
| `Registration` | `OneUserPerEmail`, `OneAdminPerThread`, `VerifiedByOwnCode`, `OnlyTimeLocksOut` | 2 threads, 3 addresses, 3 users, 3 codes, one total; lost, noreply, crash | 143 k | who exists, how many the race makes administrators, whose code verified whom, and that nobody who got a 201 is locked out but by time |
| `Passwords` | `OneUsePerThread`, `ResetLeavesOnlyLate`, `OneResetPerThread` | 2 threads, 4 passwords, 2 tokens, 2 resets; lost, noreply, crash | 389 k | what a replaced password is still good for, and what an answered reset guarantees |
| `UserCache` | `StaleOnlyByEscape`, `AnswersRecent`, `EveryMeAnswered`, `EventuallyFresh` | 2 readers, 3 writes, 2 DELs, TTL 3, delay 2, all faults | 168 k | every way an old profile stays, how long, and that it goes |
| `UserAdminRights` | `RightsExpire`, `DisabledHidden` | 2 users, 2 threads, lifetime 2, delay 1; lost, noreply, error | 237 k | how long rights outlive the role, and that the disabled are hidden |
| `Invites` | `TypeOK`, `AnsweredExist`, `WholeRequest`, `AllOrNothing` | 2 threads, 2 addresses, requests of 3, 4 tokens; lost, noreply, crash | 227 k | an answer is whole, a failed request tells nothing |
| `Parts` | `IsBase64`, `Returns` of `Base64`; `UrlRoundTrip`, `SecretReadBack`, `PasswordAdmitted` of `Codecs`; `CodeWindow` of `Totp`; `LookupFindsUser` of `SurrealClient`; `EndsClean`, `CallAnswered`, `EndsUnlessStuck` of `ServerLifecycle` | inputs of up to 5 bytes of 4 values, 16 bits; period 3, window 1, 2 digits, 8 periods; 3 keys, 3 addresses in 2 spellings; 3 gRPC calls | 25 k | the loop with int is Base64 and ends, what is written is read back, which codes are accepted and for how long, whom a lookup finds, that calls are answered and the process ends |
| `Base64Unsigned` | `Returns` (violated) | up to two bytes | | finding 1 |
| `LoginLookup` | `LoginFindsUser` (violated) | 2 keys, 2 addresses | | finding 2 |
| `DocumentedIds` | `DocumentedIdFound` (violated) | 2 keys, 2 addresses | | finding 3 |

**Why the bounds are enough.** Two threads give every pairwise race, and the
properties relate at most two requests. Three refresh tokens let both threads
rotate the same token, or one of them rotate a token and then its successor.
Sessions and users interact only through their tokens, so one of each is enough.
In `AccessTokens` three seconds hold a token that expires before, during and
after a SETEX that is sent, delayed and repeated. In `Registration` two threads race
for one address, and for being the first; three addresses and users let a
thread register again after it has made its administrator, and repeat a registration
that got no answer; four passwords allow three changes in a row, so that a thread could
use a replaced password twice. Three versions and two DELs let a fill be
overtaken by two updates whose DELs come in between.
In `UserAdmin` a lifetime of two ticks and a delay of one let a role be lost
between read and signature, token and request, request and write. Requests of
three addresses reach an empty one first, last and repeated.
The encoders handle groups of 3 and 5 bytes; up to 5 bytes gives every remainder,
and the four values set and clear the highest, lowest and middle bits. Eight
TOTP periods of three seconds with every time an authenticator may show cover
early, punctual and late codes on both sides and the wrap below counter 0.
Finite id sets bound how many records are ever created, `MaxTime` and `MaxClock`
bound clocks, `MaxOut` the memory. The theorems remove the bounds of the modules
they are about.

**Refused statements.** `"error"` is in the instances of `AccessTokens`,
`UserCache` and `UserAdminRights`. It is left out of `AuthSessions`,
`SecondFactor`, `Registration` and `Passwords`, because each has a property that
speaks of it only where failures throw and would say nothing with it. That the
other properties of these modules hold with `"error"` too is what their theorems
prove.

**Deadlock** is checked for `AuthSessions`, where an administrator can always
act, and for `UserCache`, `UserAdmin` and `Invites`, where clients or the clock
can always go on. It is off where the system, or the instance, may really stop:
`AccessTokens` when the clock is at `MaxTime` and no token is left to present,
`SecondFactor`, `Registration` and `Passwords` when their ids are used up,
`MCParts` when the process has ended or is stuck, and at the end of its input, as
`Base64`, and `SurrealClient` when its ids are used up.

**Fairness** is assumed for liveness only (`FairSpec`). `AccessTokens`,
`UserCache`: Redis executes a command or its client reports an error (both
callbacks are passed to `execCommandAsync`), event loops run the callbacks that
are due, a database call returns or throws; in `UserCache` time passes, as keys
expire by it. `ServerLifecycle`: threads that can go on do, and a running event
loop gets to every request. `Base64`: the function runs on. `MCParts` assumes the same
of each part. Clients need not send anything and no signal need come.

**Types.** The type invariant of `Invites` says more than types and is checked;
those of `ServerLifecycle` and `Base64` are part of `EndsClean` and `IsBase64`.
The others are the theorems `TypeCorrect`; TLC need not repeat them.

**Mutants.** Every property of a passing run has a mutant beside the definition
it changes (`RefreshUserExists`, `TimeToLiveShort`, ...), which breaks it.

## Findings

1. **An encoder that does not end.** `SurrealClient.cc:14` counts a shift down in
   a `size_t` and loops `while (valb>=0)`. The first byte of the credentials is
   never done (`Base64Unsigned`), so that the header of the "Basic auth" of
   README.md:86 is never built. The other modules take the constructor to return,
   as every handler does.

2. **A login that finds nobody.** `selectOneByEmail` sends `LET $email := ...;` and a
   `SELECT`, and takes the first row of the first result set
   (`SurrealClient.cc:65-71`). `SurrealClient.h:10-11` says of exec that it "Executes a
   SurrealQL query (single or multiple statements). Returns parsed JSON array (result
   sets)", as SurrealDB's `/sql` does with one set for each statement, the LET's null
   among them. Then no registered address is found (`LoginLookup`), and
   `POST /api/auth/login` does not give the "`{ token, user }`" of README.md:40. The
   same goes for the other lookups behind a LET: refresh, resetPassword, verifyEmail. The other modules show what the handlers do where the lookups work, so
   they take these to yield the SELECT's row (`LookupFindsUser`).
3. **A documented id that is not found.** README.md:64 calls GetUser with
   `{"id":"user:01H..."}` and :60 promises "a sanitized user profile". GetUser passes
   the id on as it is (`UserServiceImpl.cc:61`), `selectById` puts `user:` in front of
   it again (`SurrealClient.cc:110`), and the statement does not parse: NOT_FOUND
   (`DocumentedIds`).

Remarks. These limits of the code are built into the properties, which say
exactly how far they reach:

* `SurrealClient.h:10-11` says that `exec` "throws on error", but it returns every
  JSON body (`SurrealClient.cc:52-60`), that of a refused statement included. A
  logout whose updates were refused ends without error and has revoked nothing;
  `LogoutCompleteIfErrorsThrow` and `ResetComplete` hold where errors throw.
* README.md:41 and :80 promise the blacklist "until expiry". `verify_hs256`
  refuses a token when `exp < now`, so it is good through second `exp`, in which
  the key is gone already. `LoggedOutRefused` says that this second is all.
* When the database part of logout throws, its catch block answers although the
  callback of SETEX answers too. `TypeOK` of `AccessTokens` says that there is
  never a third answer.
* updateUser with an id that has its table in front answers ok, changes nothing, and
  deletes another cache key.
* updateUser sets `deleted_at` when it disables a user and never clears it, so
  who is enabled again can log in and is not in the list: `DisabledHidden` has no
  converse.
* Whether registration makes several administrators or none depends on what the
  database answers to a count without `GROUP ALL` (see *Registration*); no document
  promises one of them. Nothing keeps the last administrator from demoting himself;
  registerUser's `status = "active"` undoes a disabling that came in between.
* A verification code is good for 24 hours, and there is no second: who misses them
  cannot verify, and nobody can register the address again (`OnlyTimeLocksOut`).
* After a login, a verification of the address, a reset of the password or a change of
  the second factor me answers the profile of before until the key expires: none
  of AuthController's writes invalidates it (`StaleOnlyByEscape`).
* changePassword revokes no session and no token.
* A process with a gRPC call stuck in a stopped loop never ends
  (`EndsUnlessStuck` names it as the only way).

## Proofs

Each proof module states an inductive invariant `IInv`, proves that `Init`
implies it and that every action preserves it (one lemma per action), and
derives the properties.

* **AuthSessions** (`AuthSessionsProofs`): `TypeOK`, `OnlyLiveCredentials`,
  `OneChildPerThread`, `OneLateTokenPerThread`, `LogoutCompleteIfErrorsThrow`,
  `ResetComplete`, `NeverStranded`. None is inductive. `OnlyLiveCredentials` needs to know of a
  handler which of its checks are behind it (`PendingChecks`,
  `LiveCredentials`); `OneChildPerThread` that a thread past its rotation has
  not yet minted from that token and that the token is not active any more, so
  that the thread cannot look it up again (`FirstMint`); `OneLateTokenPerThread`
  that a thread minting late was past its session check when the session was
  revoked; the two completeness properties what each earlier step of the
  handler has achieved and nobody undoes (`Revoking`).
  Frame lemmas (`OthersKeep`, `RecordsKeep`) say that a thread's facts survive
  the steps of the others because records only move one way: sessions are
  revoked, tokens deactivated, resets used, never the reverse.
  `NeverStranded` (without faults) needs an account of where a live session's
  token is: active in a client's hands, or spent by a thread that is about to
  create, or to hand over, its successor (`SInv`, with `Held` and `Chain`); a
  logout or reset that takes it has revoked the session, or is what the property
  excludes. It says nothing as soon as a call may fail, so no run has it.
* **The refinement** (in `AuthSessionsProofs`, too): if failures throw, every
  step of `AuthSessions` is a step of `RotatingTokens` or leaves the mapped state
  alone. It rests on the invariant of `AuthSessionsProofs`, which says that what a
  handler presents and mints has records, and on `Unborn`: an id without a record
  has no field set, so that it maps to the abstract `"none"`.
* **AccessTokens** (`AccessTokensProofs`): `TypeOK`, `BlacklistOutlivesToken`,
  `LoggedOutRefused`. The argument: the time to live in a SETEX on its way was
  enough when it was computed, and the later it is executed the later the key
  ends; so no deadline ever set, by a first or a later logout, is short of the
  token's expiry (`Covered`, `KeysInv`).
* **SecondFactor** (`SecondFactorProofs`): `TypeOK`, `BackupCodeOnce`,
  `EnabledIsProven`, `RetiredCodesDead`. The strengthening: spent and retired
  codes are not valid, new batches are disjoint from everything made before,
  and a copy has at most one batch (`SpentIsGone`, `Generated`, `Handler`).

* **Registration** (`RegistrationProofs`): `TypeOK`, `OneUserPerEmail`,
  `OneAdminPerThread`, `VerifiedByOwnCode`, `OnlyTimeLocksOut`, for either value of
  `GroupsCount`. The strengthening: a thread that has found the table empty and is
  about to create has created nobody who is in it (`CountedInv`), for users are
  never removed; a code a client was told, or that a handler is about to tell, is of
  nobody else; a code that is used, or about to be, has verified its user, so that
  a registered user is verified or has a code that was not used, on whichever side
  of its date (`CodeLeft`).
* **Passwords** (`PasswordsProofs`): `TypeOK`, `OneUsePerThread`,
  `ResetLeavesOnlyLate`, `OneResetPerThread`. All rest on one fact: a replaced
  password never comes back. A handler's next password is nobody's current one
  and no other handler's (`Fresh`, `Apart`), and what was replaced is no longer
  the record's (`Replaced`); so a thread that used an old password cannot pass
  the check with it again.
* **UserCache** (`UserCacheProofs`): `TypeOK`, `StaleOnlyByEscape`,
  `AnswersRecent`. That the six ways are all holds because each step that makes the
  record differ from the key either is one of them or has its DEL on the way. The
  strengthening of `AnswersRecent` relates the age of a fill on its way to the
  age and time to live of the key it becomes.
* **UserAdmin** (`UserAdminProofs`): `TypeOK`, `RightsExpire`, `DisabledHidden`.
  The strengthening bounds, for each place where a right can be - the copy in a
  login, the token, the claims in a request - how long ago it was given.


`PartsProofs` has the rest, each with an invariant of its own:

* **Invites** (`InvitesInv`): `TypeOK`, `AnsweredExist`, `WholeRequest`,
  `AllOrNothing`. A handler's tokens are those of its items, in the order of the
  addresses passed, each with a record of that address (`Accounted`, `Recorded`);
  no token is in two hands, or in one and in an answer or in what has failed
  (`OneHolder`). Without it a failed request could take the token of another's
  answer with it.
* **ServerLifecycle** (`LifeInv`): `EndsClean`. Between the end of `Shutdown` and
  the exit no call is in hand, which is why join returns.
* **Totp**: `CodeWindow`, for every period, window, counter width and clock. Its
  content is arithmetic: the two divisions by the period differ by at most the
  window exactly when the instants are as close as the property says, and the
  counters that wrap are not among those that the clock comes to; six digits, a
  leading 0 included, are the number again.
* **SurrealClient** (`TableInv`): `LookupFindsUser`. Stored
  addresses are lower case and no two users have the same.
* **Base64** (`EncodeInv`): `IsBase64` of the loop with `int`, for every input,
  width and memory. `valb` is always `8 * pos - 6 * Len(out) - 6`, so that it lies
  between -6 and 6 and no shift is ever as wide as the type; `val` wraps, but its
  lowest twelve bits are the last byte and half of the one before, and a digit
  needs no others; what has been put out are the first digits of the encoding.
* **Codecs**: `UrlRoundTrip` of a JWT segment, from `IsBase64` at the end of the
  loop: only the padding is cut, since no digit is a `'='`; `Padded` puts back as
  many as there were; and the three bytes that OpenSSL makes of four digits are
  those that they were made of. `PasswordAdmitted`, for a salt of any length: no hex
  digit and no digit of `Decimal` is a `'$'`, so that the three that `find` comes
  upon are those of the format; what lies between them reads back as the iterations,
  the salt and the derived key. Cut before the third it is refused; cut later it
  yields a key that is too short. `SecretReadBack`, for a secret of any length:
  after n bytes the encoder has put out the first 8n ÷ 5 digits of the RFC 4648
  encoding, and its integer, although it wraps, ends in the last byte
  (`EncodeLoop`); after n digits the decoder has the first 5n ÷ 8 bytes, and the
  bits above them in its buffer (`DecodeLoop`). Both loops are recursive functions.
  That these exist and what they give is an induction over the naturals; as the
  library's induction theorems take an operator, it goes by the least
  counterexample, from the library's well-foundedness of < (`LeastNumber`, `UpTo`).

The runs check the properties that follow from these invariants, not the
invariants themselves.

Assumptions are those on the constants: id sets leave `Null` out (and are
disjoint where it matters), bounds are naturals, the set of backup codes is
finite, `Empty` is no address. `PowerAssumption` is a fact of arithmetic that the
provers do not do themselves: 2 to a power of 12 or more is a multiple of 4096.
`NoCollision` is explained above. Theorems about what happens when failures throw
have `"error" \notin Faults` in their statement, as their properties do; those about
the loop with `int` have `Signed`, for the other type does not end (finding 1).

Only model-checked: liveness (`EveryRequestAnswered`, `EveryMeAnswered`,
`EventuallyFresh`, `CallAnswered`, `EndsUnlessStuck`, `Returns`), which is out of
the prover's reach.

## Not modelled

* `log`: it formats a record and writes it to `std::cout`. Threads that log at
  once share gmtime's struct and the stream without a lock, so that a timestamp
  may mix two instants and lines may run together; nothing reads them back.
* Wording and layout of answers, fields of log events and audit rows (a body such
  as `Json::Value{{"error", ...}}` is taken to be the object it spells), the
  copying of profile fields, CORS headers, `otpauth_uri`, the quoting of values in
  statements and `recordAudit`'s text: no property is about them.
* Hashes, HMAC, PBKDF2 and random numbers are OpenSSL's; they are fresh ids or
  functions that tell their arguments apart. Parsing JSON is JsonCpp's.
* `jwks` computes its answer from an environment variable.
* Migrations, scripts, build files and `config.json` (main does not read it, although
  README.md:34 passes `--config`); the tables that no code touches.
* Refresh and the admin handlers on one user record are joined in `AuthSessions`
  by the status alone; the full product of all modules is not checked. They meet
  in the user record, whose fields `password_hash`, `totp_*`, `role`, `status` and
  `email_verified` are written by handlers of one module each (`status` by two,
  `password_hash` by the two in `Passwords`), each by a `MERGE` of those fields.
