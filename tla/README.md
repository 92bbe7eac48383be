# userservice in TLA+

A verification development of `userservice`, a Go service that keeps users, their
passwords and their logins. It has specifications of its core as TLA+ modules,
TLC configurations that check them on small instances, and TLAPS proofs of the
main safety properties for every value of the constants.

    tlc -workers 2 -config MCTokenStore.cfg MCTokenStore.tla      # one run
    tlapm TokenStoreProofs.tla                                    # the proofs of a module

Contents: 1 the system · 2 the modules · 3 the runs · 4 what the model checker
found in the code · 5 the proofs · 6 what is not modelled · 7 what is left.

## 1. The system

| component | source | state | operations |
|---|---|---|---|
| validator | `internal/validation/validator.go` | Redis: hashes `token:<uuid>`, `pad:<uuid>` with a time to live; sets `logins:<uid>` | Login, Logout, Valid, OTP, LoginOTP, CompleteOTP |
| passwords | `internal/relational/basicauth.go` | MySQL: one row of `users` per account | Login, ChangePassword, ResetPassword |
| authentication handlers | `internal/router/basicauth.go`, `validator.go` | none of their own, cookies at the client | PostLogin, PatchLogin (with `authnPad`), DeleteLogin, PostLogout, GetValid, GetLoginOTP |
| relays | `internal/messaging/{maild,smsd}/sender.go` | a channel of 10 messages and a goroutine each | Send, Close |
| lifecycle | `internal/cmd/serve-mysql/main.go` | connections, server, signals | start, Shutdown with a timeout, deferred Closes |
| users, contacts, addresses | `internal/relational/{user,contact,address}.go` and their handlers | MySQL rows | add, get, update, soft delete |
| middleware | `internal/router/routes.go` | the shared logger | `wrapContext` |
| browser client | `nginx/www/login.js` | the form | checks the user name, creates, logs in, changes the password |

**How they interact.** The HTTP server runs each request in a goroutine. A request
calls the two stores one after the other and never in a transaction: PostLogin
reads and writes MySQL, then issues a token in Redis. A password reset spans
three requests and both stores: DeleteLogin issues a pad in Redis and has it
mailed by the relays; GetLoginOTP turns the link into a cookie; PatchLogin with
that cookie redeems the pad (which revokes every token and pad of the user),
replaces the password by a random one, sleeps for half a second and then changes
it to the one the user typed.

**What is hard.** Every call is a sequence of separate Redis commands or SQL
statements, and calls of the same user interleave at each of them: check then
act on the number of logins, read-modify-write of the account's row, a hash and
its index entry in two commands. Commands fail with or without effect, go-redis
sends them again, keys expire at any time, Redis has no volume and restarts
empty, and the service can die between any two steps. The columns of MySQL
have a resolution of a second and an UPDATE that changes nothing is taken for a
failure. A reading of a user is four SELECTs, with writes between them. Sends block on full channels, and shutdown closes these channels under
requests that may still be using them.

**What makes each component correct.**

* validator: what a client holds can be found and revoked by a reset; nothing
  lives for ever; an acknowledged revocation is complete; the dead stay dead; the
  number of logins is limited.
* passwords: wrong passwords lock the account after a bounded number of answers;
  the counter never wraps; the password that counts is the one set last; the two
  updates of a reset both take effect.
* relays: an accepted message is delivered or tried, once and in its turn; no send
  blocks for ever; a send is refused only when the service is going down anyway.
* handlers: a password is changed only by who has shown the old one or the user's
  own pad; a reset ends the logins made before it; a mailed pad can be revoked.
* users, contacts, addresses: a stored user can be reached; a user that is there is
  found; a deletion holds; the times of a row agree; every request is answered.

## 2. The modules

| module | is |
|---|---|
| `Credentials` | abstract specification: what the validator promises of tokens and pads, without Redis |
| `TokenStore` | the validator over Redis, one action per Redis command |
| `TokenStoreProofs`, `TokenStoreBoundProofs` | its proofs; EXTEND it |
| `PasswordCheck` | abstract specification: what the service promises of an account's password and lock, without columns and times |
| `BasicAuth` | passwords over MySQL, one action per SQL statement, with PatchLogin's sleep |
| `BasicAuthProofs`, `LockoutProofs` | its proofs: the invariants, then the lockout bound and the refinement |
| `Sender` | the relays, the end of DeleteLogin and the shutdown of the service |
| `Delivery` | abstract specification: what the relays promise to the requests, without channels and goroutines |
| `SenderProofs` | the proofs of Sender |
| `ResetFlow` | the authentication handlers across both stores, for several users |
| `ResetFlowProofs`, `ResetFlowBoundProofs` | its proofs |
| `Accounts` | users, contacts and addresses, one action per SQL statement |
| `AccountsProofs` | its proofs |
| `MCTokenStore`, `MCBasicAuth`, `MCSender`, `MCResetFlow`, `MCAccounts` | symmetry and small values for TLC |

TokenStore and BasicAuth follow one store at the granularity of its commands;
ResetFlow composes the two and keeps of each what the other depends on.

The definitions called *faulty variants* are plausible bugs in the code next to
them. No behaviour uses them; they show that each property notices one.

### TokenStore

`hash[k]` is the set of fields of a hash, `{}` when Redis has no such key: Redis
drops a hash with its last field. `owner[k]` is its `userid` and stays when the
hash is gone, so that properties can speak of dead keys; no action reads it unless
the hash has that field. `ttl[k]` says whether it has an expiry, `logins[u]` is
the index, `issued` are the keys some call returned to a client. The rest is
local to each request: `pc` names the next Redis command, `key`, `user`, `snap`
(the reply of SMEMBERS), `todo` and `gone` (the loops) are Go variables. `held`
is for the properties: the keys that a revocation, when it succeeds, has promised
to kill.

Each Redis command has an action with the Go code up to the next command. Each
can also *fail* for its caller, with or without having been executed (`Fails`).
go-redis sends a command again when the reply is lost (vendored `options.go`, up
to three times). For most commands the second execution changes nothing and is
covered by the first; where it changes the *reply*, it is modelled: SREM may
reply 0 (`SRemReplies`) and the second SADD of OTP replies 0, which OTP reports as
an error (`Fails`). Keys expire at any time (`KeyExpires`), which stands for the
15 minutes of a pad and the timeout of a token. A uuid is used once. Clients
present keys they were given.

| code | action |
|---|---|
| `checkCount` | `CountMembers`, `Probe`, `Sweep` |
| `Login`, `OTP` | these, then `HSet`, `SetExpiry`, `SAdd` |
| `Valid` | `CheckExists`, `Touch` |
| `Logout` | these, then `LogoutUser`, `LogoutHDel`, `LogoutSRem` |
| `LoginOTP` | `Lookup` |
| `CompleteOTP`, `clearLogins`, `clearTokens` | `Redeem`, `Members`, `ClearToken`, `Unindex` |

### BasicAuth

One account. `row` is its row, `clock` the time in ticks of half a second;
`Rounded` and `Truncated` are how MySQL puts a Go time and `current_timestamp`
into a DATETIME without fraction. `Update` models `RowsAffected`: the driver is
not configured with `clientFoundRows`, so an UPDATE that leaves the row as it was
counts no row and the code returns `UserNotUpdatedError`. That is the behaviour
that the comment in `authnPad` calls "mysql has a problem updating the same row
twice"; the sleep of 500 ms is `Wake`, one tick or more after `ResetStore`. A
password stands for its hash; `generateSalt` is a constant in this code.
`current`, `misses` and `sole` are for the properties: the password stored last by a
change or a reset, the answers to wrong passwords, and the request that has been
alone with the row since its reset.

| code | action |
|---|---|
| `SoftLogin`, `Login` | `Select`, then `Miss` or `Hit` |
| `ChangePassword` | these, then `Validate`, `Store` |
| `ResetPassword` | `ResetSelect`, `Reseed`, `ResetStore` |
| `authnPad` and the rest of `PatchLogin` | these, `Wake`, then as `ChangePassword` |

PasswordCheck is the same for a client. A call looks at the account once (`Look`) and
is turned away if it is locked then; a wrong password may lock it and is answered
fewer than `Limit` times before a right one opens it (`Wrong`, `Right`); a new
password is set only by a call that gave the right one or has a pad (`Change`,
`Reset`). It does not hide the flaw of section 4, 3: a login may bring back the
password it saw. `Promise` is the refinement mapping: the failure count becomes
locked or not, a statement of a call becomes what the client could know of it
(`Stage`), and `Limit` is the bound of `LockoutBounded`. Tick, Validate, the reads of a
reset, the draw of its seed and its sleep are stutters.

### Sender

`channel[s]`, `waiting[s]`, `closed` are a Go channel: its buffer, the senders that
are blocked, in order, and whether it is closed. A receive from a full channel
moves the first blocked sender's message into the buffer (`Receive`). A send on a
closed channel, or one blocked when it is closed, panics; `Send` recovers and
returns the error (`SendRefused`, `Close`). `stage` is where `main` is: a signal,
`Shutdown` for up to 5 seconds, the deferred Closes (SMS first), the end. `gaveUp`
records that `Shutdown` timed out with requests running. The relays deliver
once and log a failure: `Try` stands for both. `Exits` is the end of the process at
the end of `main` or, killed, at any earlier time.

Delivery is the same for who knows nothing of channels: a relay takes a message
(`Take`) from a request that has it `left`, tries them in that order and drops each
(`Deliver`), and turns requests away only after the service gave up on them
(`Refuse`). `Promise` is the refinement mapping: a message is taken when it comes into
the channel, by the send or by the receive that lets a blocked request in; the one
the goroutine works on is still the head of the abstract queue; a Close refuses
at once all that wait for the relay.

### ResetFlow

The handlers of `router/basicauth.go`, each from its first statement to its answer,
for several users at a time. Of BasicAuth it keeps the password of each user
(`pass`), of TokenStore which keys are `alive` and which of these are in the `index`.
What these modules have in detail and this one only needs the outcome of is a choice:
a call may find the account locked, its UPDATE without effect, too many logins.
Statements between which nothing of this happens are one action (HSET with
EXPIRE; CompleteOTP's HGETALL with the arrival of the request). Everything that
ties the stores together is kept: the order of MySQL and Redis in each handler,
the password that is read and written back, the reply of SMEMBERS, the user id of
the pad against the one in the URL, the error text that becomes a pad.

`proof`, `chosen`, `before` and `old` are for the properties: whose password or pad a
request has shown, the passwords set by requests that had shown it, and which
tokens and requests were there before a redemption that succeeded.

| code | action |
|---|---|
| `PostLogin` | `PostLogin` (the SELECT), `Miss` or `Hit`, `Create`, `Index` |
| `PatchLogin` | `PatchLogin`, `Miss` or `Hit`, `Store`, `Create`, `Index` |
| `PatchLogin` with a pad | `PatchLoginWithPad`, `Members`, `ClearToken`, `Unindex`, `ResetStore`, `SelectAgain`, then as above |
| `DeleteLogin` | `DeleteLogin`, `Create`, `Index`, `SendMail`, `Sent` |

### Accounts

The tables `users`, `contacts`, `addresses` as functions from uuids to rows. A row keeps
what the properties tell apart: the name, how the user can be reached, the times;
the two addresses of a contact; that an address is there. `job[r]` has the local
variables of a handler. `UpdateRow` is an UPDATE with its `RowsAffected`, over a
clock in half seconds as in BasicAuth; the columns of BasicAuth are left to it,
except that its UPDATE writes `mtime` (`BasicAuthWrites`). A statement can fail
with or without having been executed (`Fails`). The keys of the schema are guards
of the statements: the unique name (`NameTaken`), the foreign keys (`Refers`, and
`INSERT ... SELECT` for a contact's user).

| code | action |
|---|---|
| `PostUser`, `AddUser` | `PostUser`, `DrawUuid`, `InsertUser`, and again if the uuid is taken |
| `PatchUser`, `DeleteUser` | `PatchUser`, `UpdateUser`; `DeleteUser`, `SetDTime` |
| `GetUser`, `getContact` | `GetUser`, `SelectUser`, `SelectContact`, `SelectBillTo`, `SelectShipTo` |
| `CreateContact` | `CreateContact`, these, `InsertContact` |
| `PatchContact` | `PatchContact`, `UpdateContact` |
| `PostAddress`, `PatchAddress`, `GetAddress` | the same names, then `InsertAddress`, `UpdateAddress`, `SelectAddress` |

## 3. The runs

| run | instance | checks | states |
|---|---|---|---|
| `token_store` | 2 calls, 1 user, 2 tokens, 1 pad, MaxLogins 2, all faults | `TypeOK`, `IssuedIndexed`, `HeldKeysExpire`, `ResetRevokes`, `LogoutRevokes`, `IndexBound`, `NoResurrection`; `KeepsPromise`: TokenStore implements Credentials | 841 k |
| `basic_auth` | 2 calls, maxfailure 1, one seed, 1 s | `TypeOK`, `CountBounded`, `ResetAloneSucceeds`, `LockoutBounded` | 4.1 M |
| `account_promise` | 2 calls, maxfailure 0, one seed, half a second | `KeepsPromise`: BasicAuth implements PasswordCheck | 219 k |
| `sender` | 2 requests, 3 messages, capacity 1, users with mail and SMS or SMS alone | `TypeOK`, `OkMeansTaken`, `RefusedAfterTimeout`, `SendReturns`, `TakenIsTried`, `KeepsPromise`: Sender implements Delivery | 119 k |
| `reset_flow` | 2 requests, 2 users, 2 tokens, 1 pad, all faults | `TypeOK`, `PasswordIsOwners`, `OldLoginsBounded`, `MailedIsIndexed` | 1.8 M |
| `accounts` | 2 requests, 2 user ids, 1 name, 1 address, a clock of one tick | `TypeOK`, `Deliverable`, `FoundIsWhole`, `RefusedDeleteIsDone`, `TimesAgree`, `CallsReturn` | 219 k |
| `logins_within_max`, `refusal_justified`, `password_is_current`, `seed_is_transient`, `mailed_pad`, `add_user_returns` | 1 or 2 calls | one property each, violated by the code: section 4 | |

What the properties say is written above each of them in its module. In short:

* `IssuedIndexed`: a live key that a client holds is in the index, the only thing a
  reset reads. `HeldKeysExpire`: it has a time to live. Both must hold with commands
  failing half-way, in Login as in OTP.
* `ResetRevokes`, `LogoutRevokes`: acknowledged revocations are complete although
  they work from a snapshot of the index. `NoResurrection`: no late command brings
  a dead key back.
* `IndexBound`: the limit that concurrent calls really respect, MaxLogins plus the
  other calls in flight; calls let through but not yet in the index count too.
* `CountBounded`: the failure count ends at maxfailure + 1 under any interleaving.
* `LockoutBounded`: with n calls at a time, an account answers fewer than
  C(n + maxfailure + 1, n) wrong passwords before it locks: 4 with one call and
  the code's maxfailure of 3, 14 with two, 5 with two calls and the maxfailure of 1
  of the run.
* `ResetAloneSucceeds`: the sleep is long enough, for every alignment of the
  second, if nobody else writes the row.
* `KeepsPromise` (of BasicAuth): whatever statements of other calls come between, a
  locked account turns a call away when it looks, no call sets a password without
  proof, and what it answers agrees with what it saw.
* `OkMeansTaken`, `RefusedAfterTimeout`: what 204 and 500 of DeleteLogin mean during
  shutdown. `SendReturns`, `TakenIsTried`: no request waits for ever, and a message
  taken is tried unless the process ends. `KeepsPromise` (of Sender): it is tried once
  and in its turn, whether its request found room, waited, or met the shutdown.
* `PasswordIsOwners`: the password in a row is one that somebody set who had shown
  that user's password or pad, whatever is written back late and whichever pad is
  used with whichever user id.
* `OldLoginsBounded`: what a reset does not revoke. A request that has passed the
  password check and has no token yet when the reset reads the index gets its token
  later and keeps it; there is at most one per other request.
* `MailedIsIndexed`: a mail that was taken although its request was answered 500
  holds a pad that the next reset revokes.
* `Deliverable`: the CHECK of the table is disabled, so each handler has to see to it.
  `FoundIsWhole`: no SELECT of a user that is there comes back without rows.
  `RefusedDeleteIsDone`: a DELETE is refused only when there is nothing to delete.
  `TimesAgree`: rounded and truncated times differ by less than two seconds.
  `CallsReturn`: every request ends, AddUser with its retries included.

**The bounds, and why they are enough.** Two concurrent calls are what every
race in this code takes: each one is between a read and a write of one call, with
commands of one other call in between. A call can be made again and again, so
sequences of any length are explored; what runs out are the uuids, and two tokens
and a pad let a login, a second login and a reset meet. `token_store` has one user
since the calls of another use keys and an index of their own; what ties users
together, a pad with the wrong id, is in `reset_flow`, and the theorems have any
number of users. MaxLogins 2 makes the index full, and overfull, with the tokens
there are. In `basic_auth` the clock runs over one second in half-second ticks,
which has both alignments of a reset; maxfailure 1 leaves room for one wrong password before the lock, and two calls
for the count that gets lost. In `account_promise` the first wrong password locks,
which lets two calls miss, lock and open in every order; times make no difference
to PasswordCheck, so half a second will do. Capacity 1 with three messages fills
a channel and blocks a sender with the goroutine busy. In `reset_flow` two users let
a pad meet the wrong id, and two tokens a login from before and one from after a redemption.
In `accounts` one name is what two requests compete for, so that there is one row of
`users` at most; two uuids let the second draw meet the first, and the tick takes the
rounded time to the next second, so that two writes fall into one second or not. A
second name makes the run too long for the liveness check; a PATCH to the name of
another user, which the unique key refuses, is therefore left to the theorems. These
remove the bounds for all invariants and refinements (section 5).

**Symmetry** is used where no property is a liveness property and the permuted
values are interchangeable; `KeepsPromise` and `NoResurrection` are of the form
Init and box-action, which symmetry does not disturb. `sender` and `accounts` check
liveness and have none.

**Fairness** is assumed in `Sender` and `Accounts`. In `Sender`, a goroutine that can run does run (weak
fairness of each request's send and of each relay), and a delivery ends one way or
another. The first is the Go scheduler's. The second holds for Twilio's client, which
has a timeout, and for gomail when the mail server answers or closes the
connection: `DialAndSend` has a timeout for dialling and none for reading, so a
mail server that keeps silent would block the relay, and with 10 messages more
every request. Nothing makes clients call, signals arrive or the process stop.
A closed relay's goroutine is covered by the same fairness until it is empty.
In `Accounts`, a request that has a statement to send sends it and gets a result or
an error (weak fairness of its `Statement`), and a random uuid is not taken every
time (strong fairness of `DrawFree`, which a retry enables again and again).

**Deadlock** is checked for all modules but Sender, although a crash is always
possible there and the check says little: no command of these calls waits for
another call. In Sender, where requests do wait, the process may end for good, so
the check is off and `SendReturns` says that nobody waits for ever.

## 4. What the model checker found in the code

1. *More logins than MaxLogins* (`logins_within_max`). checkCount
   (`validator.go:318-324`) reserves nothing, SADD comes three commands later. The
   trace: r1 and r2 count 0 members, both go on to HSET, EXPIRE, SADD; 2 members
   with MaxLogins 1. Only concurrency does this: `OneCallWithinMax` proves the limit
   for one call at a time, with failing commands, expiry and crashes.
2. *A refusal without cause* (`refusal_justified`). r1 and r2 both find the one
   member expired; r1's SREM removes it; r2's SREM replies 0 and
   `len(tokens)-removed < maxLogins` is false: 429 with no login alive.
   `OneCallRefusedRightly`: with one call at a time, and commands sent once, this cannot be.
3. *A change of password undone* (`password_is_current`). A login with the right
   old password has read the row; the change is stored; the login's UPDATE
   (`relational/basicauth.go:90-99`) writes the old password back. The change was
   answered with 204. `OneCallKeepsPassword`: it takes two calls at a time.
4. *An unknown password after a refused reset* (`seed_is_transient`). With a new
   password that `validate` refuses, the pad is spent and the row keeps the random
   password of ResetPassword, contrary to the comment in `authnPad`.
5. *An error text for a pad* (`mailed_pad`). A command of OTP fails; OTP returns the text of the
   error (`validator.go:214`), DeleteLogin tests for an empty pad only, mails a link with
   the text and answers 204.
6. *AddUser does not return* (`add_user_returns`). MySQL's message on a duplicate name
   quotes the name; if that contains `users.PRIMARY`, AddUser takes it for a duplicate
   uuid (`relational/user.go:87`) and calls itself, each time with the same result.

## 5. The proofs

TLAPS proves these for every value of the constants, under the assumptions named
in the modules: finitely many requests (needed for `IndexBound`, `LockoutBounded`, the refinement
that has the latter's bound and `OldLoginsBounded` only, and by the cardinality
`Spare`; for `OldLoginsBounded` at least one), distinct kinds of keys,
sentinels outside the sets they complete, MaxLogins positive; for BasicAuth, seeds
that nobody types, a blank first password that `validate` would refuse.

| theorem | property |
|---|---|
| `TokenStoreProofs!TypeCorrect`, `IssuedAreIndexed`, `HeldKeysDoExpire`, `ResetDoesRevoke`, `LogoutDoesRevoke`, `DeadStaysDead` | the invariants and the action property of `token_store` |
| `TokenStoreProofs!ValidatorKeepsPromise` | `Spec => KeepsPromise`, the refinement |
| `TokenStoreBoundProofs!IndexStaysBounded` | `IndexBound` |
| `TokenStoreBoundProofs!OneCallWithinMax`, `OneCallRefusedRightly` | `LoginsWithinMax` for one call at a time; `RefusalJustified` for one call at a time without faults |
| `BasicAuthProofs!TypeCorrect`, `CountStaysBounded`, `UndisturbedResetSucceeds` | the invariants of `basic_auth`, without `LockoutBounded` |
| `BasicAuthProofs!OneCallKeepsPassword`, `OneCallLocksInTime` | `PasswordIsCurrent`, and at most maxfailure + 1 answers to wrong passwords, for one call at a time |
| `LockoutProofs!LockoutStaysBounded` | `LockoutBounded` |
| `LockoutProofs!AccountKeepsPromise` | `Spec => KeepsPromise` of BasicAuth, the refinement |
| `SenderProofs!TypeCorrect`, `OkDoesMeanTaken`, `RefusalsAreLate` | the invariants of `sender` |
| `SenderProofs!RelaysKeepPromise` | `Spec => KeepsPromise` of Sender, the refinement |
| `ResetFlowProofs!TypeCorrect`, `PasswordStaysOwners`, `MailedStaysIndexed` | the invariants of `reset_flow`, without `OldLoginsBounded` |
| `ResetFlowBoundProofs!OldLoginsStayBounded` | `OldLoginsBounded` |
| `AccountsProofs!TypeCorrect`, `UsersStayDeliverable`, `FoundStaysWhole`, `RefusedDeletesAreDone`, `TimesDoAgree` | the invariants of `accounts` |

**TokenStore: rely and guarantee.** The properties are not inductive: that an
acknowledged reset is complete depends on what the request knew at each command.
`IInv` is the type invariant, an invariant of the store (`StoreInv`: the index of a
user has only its keys, `IssuedIndexed`, `HeldKeysExpire`, which fields a hash can
have), and for each request what it knows (`RequestInv`): while creating, its key
is nobody else's and not yet issued; while sweeping, what it found gone is dead;
while revoking, each key it promised to kill is dead or still in `snap` and, once
visited, dead. Each command keeps the store's invariant (lemmas `Store...`), and is
one step of `Guarantee`: dead keys stay dead, owners stay, live issued keys are
not taken out of an index. The lemma `Interference` says that a `Guarantee` step
by one request does not disturb what another knows; so each command needs a proof
for its own request only. `NoResurrection` is part of `Guarantee`. The refinement
maps each command to Reserve (HSET), Issue (SADD), Die (HDEL, expiry, restart),
BeginRevoke, Acknowledge, Forget (calls and their ends) or a stutter.

`IndexStaysBounded` needs a strengthening of its own (`BoundInv`): a call that
sweeps saw at least MaxLogins members, so it is let through only if it removed
some. With one call at a time the same invariant gives the limit itself, and
`SweepInv` says why a refusal is justified then: the index is still what the call
has read, what it removes is all in there, and what it leaves it has found alive.

**BasicAuth.** `IInv` says where passwords and seeds can be (`PassInv`,
`SeedInv`: the seed of a reset that is not yet stored is known to nobody else), that
a request about to write a failure has read a count that was not locked
(`CountInv`), and what the row looks like while a request is alone with it
(`AloneInv`: pass, times and count as that request left them, and the clock a tick
later after the sleep). Each step has a lemma for its shape (what it writes, where
it goes) and the parts of the invariant follow from the shapes. The heart of
`UndisturbedResetSucceeds` is the arithmetic lemma `HalfSecond`: half a second
later either the rounded or the truncated second is another one.

With one call at a time the row stays as the call read it until it writes
(`SerialInv`): the two theorems about this case say that the lost counts and the
password that comes back are the work of concurrency alone.

**The lockout bound.** `LockoutBounded` is no property of the row: a call that has read
a low count can set the column back to it, after which the others can count up
again and read new counts on the way. `Held(r)` is the count a request goes on from:
the one it has read, if it is about to write that back, or else the column. `Spent(v)`
are the requests with fewer than v attempts left, `Levels[v]` their number. The invariant
(`LockoutInv`) bounds the answers by a sum over v: what k spent requests can have used up at
v is C(k - 1 + v, v). An answer makes its request spent at one more level, and that is
worth it (`OneMoreFits`); reading keeps what is held; a right password sets `misses` to 0.
With n requests the sum stays below C(n + maxfailure + 1, n). That
binomials obey Pascal's triangle, are monotone, and are what the module
Combinatorics computes from factorials (`WaysIsQuotient`, `Pascal`, `WaysMonotone`) is
proved from `LeastNat`, that a set of natural numbers has a least element: the
library's induction theorems take an operator as a parameter, which the provers
here cannot instantiate, and a set does as well.

**The account.** Each statement of BasicAuth is one step of PasswordCheck or none
(`SelectPromise`, `MissPromise`, ...). `CallsKnown` writes down what the refinement mapping
says of a call at each statement, and `OneCall` that a step changes it for its own
request only. The guard of `Wrong` is `LockoutBounded` in the state after the step;
that an UPDATE with a right password opens the account needs `CountedInv`: the
column is 0 only when no wrong password has been answered since. `PassInv` and
`SeedInv` give the passwords that a change and a reset store.

**Sender.** `OkMeansTaken` speaks of the end of a request whose message may have been
put into the channel by somebody else, the goroutine whose receive let it in.
`WaitInv` says that a request waits once, for one relay, and that it wants that
relay; `TakenInv` that every relay a request has behind it has its message, in
the channel, with the goroutine or tried; `StageInv` what is left after Shutdown. The lemmas
on sequences (`ToSetAppend`, `HeadOnce`, ...) carry the queues. The refinement uses
the same invariant before and after each step: `LeftBy` says what a request has
left by where it is, `Others` that the step of one request is seen in that request only,
and the lemmas `HeadBack`, `ConsTail`, `ConsAppend` that the goroutine's message in
front of the channel makes the abstract queue.

**ResetFlow.** That a password is its owner's depends on what each request knows: the
password it read is one the owner chose, the new one is written by a request that
has shown a password or pad of that user, and after a redemption only if the two
ids are the same. `MailedIsIndexed` needs that a pad on its way to the mail is
indexed if it is alive. `OldLoginsBounded` needs an invariant of its own (`BInv`), for
redemptions that overlap: each adds to what is old when it ends, and a request may
get a token between two of them and come again. So `SurvivorInv` counts, for every
set of redemptions under way, what would be old if all of them came to their end
(`Survivors`), without the tokens that one of them has seen in the index. A
redemption that has just read the index leaves only other requests; one that ends
takes its survivors over from the set it was in; and a token only takes the place
of the request it is issued to.

**Accounts.** What a request has read must still hold when it uses it: rows are
never removed, so a user or an address that was there is there (`FoundIsWhole`); a
deletion sets `dtime` and no other statement touches it (`RefusedDeleteIsDone`: an
UPDATE that changes nothing found the `dtime` it wanted to write, which is not
0). `TimesAgree` needs that the time a request carries is not before the second in
which its row was made.

**Only model-checked:** liveness under fairness (`SendReturns`, `TakenIsTried`,
`CallsReturn`), which is out of the prover's reach.

## 6. What is not modelled, and why

* Configuration, metrics, logging, the SQL loader, `/settings`, the `shared/v2`
  aliases: no behaviour of their own.
* `GetAuth`, `GetAllUsers`, `GetAllAddresses`: one SELECT each, and no change of state.
* A promise that a pad works once: PatchLogins with the same cookie that overlap all
  pass, in the models as in the code. What is checked is that the pad is dead for
  good once one of them was answered (`ResetRevokes`, `NoResurrection`), and that all
  of them change the password of its user only (`PasswordIsOwners`).
* A promise that messages survive the end of the process. They do not: `TakenIsTried`
  and `Delivery` excuse what the end takes with it.
* What a deleted user may do: DeleteUser sets `dtime`, and neither the login nor the
  tokens look at it. Nothing in the repository says that they should.
* Of rows, all columns but those of section 2: street names, first names, the phone
  of a contact (which no statement writes).
* The contents of cookies, mails and redirects; routing; the comparison of addresses in
  DeleteLogin; the test-mode senders.
* The data race on `log` in `wrapContext` (`routes.go:154`): it mixes log fields.
* `login.js` and nginx: clients may send any request at any time in the models.
* Deployment, backups, vendored code. Redis, MySQL, go-redis and the driver
  are modelled as far as the code depends on them and marked external.

## 7. What is left

A refinement from the pair of TokenStore and BasicAuth to ResetFlow, which now
rests on the choices described in section 2.
