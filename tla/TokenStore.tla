----------------------------- MODULE TokenStore -----------------------------
(***************************************************************************)
(* The validator (src/internal/validation/validator.go): login tokens and  *)
(* one-time password-reset pads, kept in Redis.                            *)
(*                                                                         *)
(* Redis holds, for every token or pad it issued, a hash "token:<uuid>" or *)
(* "pad:<uuid>" with a time to live, and, for every user, the index        *)
(* "logins:<uid>", a set of the keys of these hashes.  A call of the       *)
(* validator is a sequence of Redis commands, each of them atomic; the     *)
(* commands of concurrent calls interleave, and between any two of them a  *)
(* hash may expire, Redis may restart empty, or the service may crash.     *)
(***************************************************************************)
EXTENDS Naturals, FiniteSets

CONSTANTS
    Requests,   \* concurrent calls of the validator
    Users,      \* user ids
    Tokens,     \* the uuids login tokens get, one each
    Pads,       \* the uuids one-time pads get, one each
    MaxLogins,  \* config.MaxLogins
    Faults,     \* what may go wrong besides: "resend" (go-redis sends a command
                \* again when it gets no reply), "restart" (of Redis)
    NoUser,     \* the owner of a uuid not generated yet
    NoKey       \* the key of a request that has none yet

Keys == Tokens \cup Pads

ASSUME RequestsFinite == IsFiniteSet(Requests)
ASSUME KeysDistinct   == Tokens \cap Pads = {}
ASSUME NoUserFresh    == NoUser \notin Users
ASSUME NoKeyFresh     == NoKey \notin Keys
ASSUME MaxPositive    == MaxLogins \in Nat \ {0}
ASSUME FaultsKnown    == Faults \subseteq {"resend", "restart"}

VARIABLES
    hash,     \* hash[k]: the fields of hash k ({}: Redis has no such key)
    owner,    \* owner[k]: the value of its userid field, kept after it is gone
    ttl,      \* ttl[k]: whether k has a time to live
    logins,   \* logins[u]: the set "logins:<u>"
    issued,   \* the keys some call returned with 200
    pc,       \* pc[r]: the next Redis command of request r, or its outcome
    op,       \* op[r]: the validator method r runs
    user,     \* user[r]: the uid r works for
    key,      \* key[r]: the key r creates, checks or redeems
    snap,     \* snap[r]: r's last SMEMBERS reply
    todo,     \* todo[r]: members of snap[r] the loop has still to visit
    gone,     \* gone[r]: members of snap[r] that checkCount found expired
    held      \* held[r]: the keys r, when it succeeds, promises to have revoked

redis == <<hash, owner, ttl, logins>>
local == <<op, user, key, snap, todo, gone, held>>
vars  == <<redis, issued, pc, local>>

Fields  == {"userid", "remote", "redirect"}
Ops     == {"none", "login", "otp", "valid", "logout", "loginOTP", "completeOTP"}
\* ok: 200, 204, 302 or 410; refused: 429; denied: 307 or 403; error: 500.
Outcomes == {"ok", "refused", "denied", "error"}
Commands == {"count", "probe", "sweep", "hset", "expire", "sadd",
             "exists", "touch", "hget", "hdel", "srem",
             "lookup", "redeem", "members", "clear", "unindex"}

TypeOK ==
    /\ hash   \in [Keys -> SUBSET Fields]
    /\ owner  \in [Keys -> Users \cup {NoUser}]
    /\ ttl    \in [Keys -> BOOLEAN]
    /\ logins \in [Users -> SUBSET Keys]
    /\ issued \in SUBSET Keys
    /\ pc     \in [Requests -> {"idle"} \cup Commands \cup Outcomes]
    /\ op     \in [Requests -> Ops]
    /\ user   \in [Requests -> Users \cup {NoUser}]
    /\ key    \in [Requests -> Keys \cup {NoKey}]
    /\ snap   \in [Requests -> SUBSET Keys]
    /\ todo   \in [Requests -> SUBSET Keys]
    /\ gone   \in [Requests -> SUBSET Keys]
    /\ held   \in [Requests -> SUBSET Keys]

Init ==
    /\ hash   = [k \in Keys |-> {}]
    /\ owner  = [k \in Keys |-> NoUser]
    /\ ttl    = [k \in Keys |-> FALSE]
    /\ logins = [u \in Users |-> {}]
    /\ issued = {}
    /\ pc     = [r \in Requests |-> "idle"]
    /\ op     = [r \in Requests |-> "none"]
    /\ user   = [r \in Requests |-> NoUser]
    /\ key    = [r \in Requests |-> NoKey]
    /\ snap   = [r \in Requests |-> {}]
    /\ todo   = [r \in Requests |-> {}]
    /\ gone   = [r \in Requests |-> {}]
    /\ held   = [r \in Requests |-> {}]

Live(k)  == hash[k] # {}
Fresh(k) == owner[k] = NoUser
-----------------------------------------------------------------------------
(* The Redis commands the validator sends, as Redis executes them.  A hash *)
(* that loses its last field is no longer a key and has no time to live.   *)

\* HSET k userid <u> ...: k is a uuid nobody has used.
HSetKey(k, u, fields) ==
    /\ hash'  = [hash EXCEPT ![k] = fields]
    /\ owner' = [owner EXCEPT ![k] = u]
    /\ UNCHANGED <<ttl, logins>>

ExpireKey(k) ==
    /\ ttl' = [ttl EXCEPT ![k] = Live(k)]
    /\ UNCHANGED <<hash, owner, logins>>

HDelFields(k, fields) ==
    /\ hash' = [hash EXCEPT ![k] = @ \ fields]
    /\ ttl'  = [ttl EXCEPT ![k] = @ /\ hash[k] \ fields # {}]
    /\ UNCHANGED <<owner, logins>>

SAddKey(u, k) ==
    /\ logins' = [logins EXCEPT ![u] = @ \cup {k}]
    /\ UNCHANGED <<hash, owner, ttl>>

SRemKeys(u, ks) ==
    /\ logins' = [logins EXCEPT ![u] = @ \ ks]
    /\ UNCHANGED <<hash, owner, ttl>>

At(r, l)   == pc[r] = l
Goto(r, l) == pc' = [pc EXCEPT ![r] = l]

\* The command fails for the caller: a timeout, a lost connection or a
\* cancelled context.  The command may have been executed all the same.
Fails(r, command) ==
    /\ command \/ UNCHANGED redis
    /\ Goto(r, "error")
    /\ snap' = [snap EXCEPT ![r] = {}]
    /\ todo' = [todo EXCEPT ![r] = {}]
    /\ gone' = [gone EXCEPT ![r] = {}]
    /\ UNCHANGED <<issued, op, user, key, held>>
-----------------------------------------------------------------------------
(* Login and OTP: checkCount, then the new hash, its expiry, the index.    *)

Call(r, o, u, k, command) ==
    /\ At(r, "idle")
    /\ Goto(r, command)
    /\ op'   = [op EXCEPT ![r] = o]
    /\ user' = [user EXCEPT ![r] = u]
    /\ key'  = [key EXCEPT ![r] = k]
    /\ UNCHANGED <<redis, issued, snap, todo, gone>>

Login(r) == \E u \in Users : Call(r, "login", u, NoKey, "count") /\ UNCHANGED held
OTP(r)   == \E u \in Users : Call(r, "otp", u, NoKey, "count") /\ UNCHANGED held

\* Faulty variant: a login is admitted when the index is already full.
CountMembersOffByOne(r) ==
    /\ At(r, "count")
    /\ snap' = [snap EXCEPT ![r] = logins[user[r]]]
    /\ IF Cardinality(logins[user[r]]) <= MaxLogins
       THEN Goto(r, "hset") /\ UNCHANGED todo
       ELSE Goto(r, "probe") /\ todo' = [todo EXCEPT ![r] = logins[user[r]]]
    /\ UNCHANGED <<redis, issued, op, user, key, gone, held>>

CountMembers(r) ==
    /\ At(r, "count")
    /\ \/ /\ snap' = [snap EXCEPT ![r] = logins[user[r]]]
          /\ IF Cardinality(logins[user[r]]) < MaxLogins
             THEN Goto(r, "hset") /\ UNCHANGED todo
             ELSE Goto(r, "probe") /\ todo' = [todo EXCEPT ![r] = logins[user[r]]]
          /\ UNCHANGED <<redis, issued, op, user, key, gone, held>>
       \/ Fails(r, UNCHANGED redis)

\* One EXISTS per member, in the order SMEMBERS returned them.
Probe(r) ==
    /\ At(r, "probe")
    /\ \/ \E k \in todo[r] :
            LET dead == IF Live(k) THEN gone[r] ELSE gone[r] \cup {k} IN
            /\ todo' = [todo EXCEPT ![r] = @ \ {k}]
            /\ gone' = [gone EXCEPT ![r] = dead]
            /\ Goto(r, CASE todo[r] # {k} -> "probe"
                         [] todo[r] = {k} /\ dead = {} -> "refused"
                         [] OTHER -> "sweep")
            /\ UNCHANGED <<redis, issued, op, user, key, snap, held>>
       \/ Fails(r, UNCHANGED redis)

\* What SREM may reply: how many members it removed, fewer than gone[r] when
\* another request swept them first; 0 when go-redis sent the command again.
SRemReplies(r) ==
    {Cardinality(gone[r] \cap logins[user[r]])} \cup {n \in {0} : "resend" \in Faults}

Sweep(r) ==
    /\ At(r, "sweep")
    /\ \/ /\ SRemKeys(user[r], gone[r])
          /\ \E removed \in SRemReplies(r) :
               Goto(r, IF Cardinality(snap[r]) - removed < MaxLogins
                       THEN "hset" ELSE "refused")
          /\ UNCHANGED <<issued, local>>
       \/ Fails(r, SRemKeys(user[r], gone[r]))

\* Faulty variant: a pad also stores the validator's unused "pad" field.
NewFieldsWithPad(r) == IF op[r] = "login" THEN {"userid", "remote"} ELSE Fields \cup {"pad"}

NewFields(r) == IF op[r] = "login" THEN {"userid", "remote"} ELSE Fields
NewKeys(r)   == IF op[r] = "login" THEN Tokens ELSE Pads

\* Faulty variant: the hash is written under a uuid that was in use before.
HSetReuses(r) ==
    /\ At(r, "hset")
    /\ \E k \in NewKeys(r) :
         /\ ~Live(k)
         /\ HSetKey(k, user[r], NewFields(r))
         /\ key' = [key EXCEPT ![r] = k]
         /\ Goto(r, "expire")
         /\ UNCHANGED <<issued, op, user, snap, todo, gone, held>>

HSet(r) ==
    /\ At(r, "hset")
    /\ \/ \E k \in NewKeys(r) :
            /\ Fresh(k)
            /\ key' = [key EXCEPT ![r] = k]
            /\ HSetKey(k, user[r], NewFields(r))
            /\ Goto(r, "expire")
            /\ UNCHANGED <<issued, op, user, snap, todo, gone, held>>
       \/ Fails(r, \E k \in NewKeys(r) : Fresh(k) /\ HSetKey(k, user[r], NewFields(r)))

\* Faulty variant: the expiry is forgotten.
SkipExpiry(r) ==
    /\ At(r, "expire")
    /\ Goto(r, "sadd")
    /\ UNCHANGED <<redis, issued, local>>

\* Login insists that EXPIRE found the token; OTP looks at the error only.
SetExpiry(r) ==
    /\ At(r, "expire")
    /\ \/ /\ ExpireKey(key[r])
          /\ Goto(r, IF op[r] = "login" /\ ~Live(key[r]) THEN "error" ELSE "sadd")
          /\ UNCHANGED <<issued, local>>
       \/ Fails(r, ExpireKey(key[r]))

\* OTP also insists that SADD added a member; it did unless go-redis sent the
\* command twice, which is the failure after execution.
SAdd(r) ==
    /\ At(r, "sadd")
    /\ \/ /\ SAddKey(user[r], key[r])
          /\ issued' = issued \cup {key[r]}
          /\ Goto(r, "ok")
          /\ UNCHANGED local
       \/ Fails(r, SAddKey(user[r], key[r]))
-----------------------------------------------------------------------------
(* Valid and Logout: the token comes from the client's us-authn cookie.    *)

Valid(r)  == \E k \in issued \cap Tokens :
                Call(r, "valid", NoUser, k, "exists") /\ UNCHANGED held
Logout(r) == \E k \in issued \cap Tokens :
                /\ Call(r, "logout", NoUser, k, "exists")
                /\ held' = [held EXCEPT ![r] = {k}]

CheckExists(r) ==
    /\ At(r, "exists")
    /\ \/ /\ Goto(r, IF Live(key[r]) THEN "touch" ELSE "denied")
          /\ UNCHANGED <<redis, issued, local>>
       \/ Fails(r, UNCHANGED redis)

\* Faulty variant: Valid writes the hash back while it renews the expiry.
TouchRewrites(r) ==
    /\ At(r, "touch")
    /\ hash' = [hash EXCEPT ![key[r]] = {"userid", "remote"}]
    /\ ttl'  = [ttl EXCEPT ![key[r]] = TRUE]
    /\ Goto(r, IF op[r] = "logout" THEN "hget" ELSE "ok")
    /\ UNCHANGED <<owner, logins, issued, local>>

Touch(r) ==
    /\ At(r, "touch")
    /\ \/ /\ ExpireKey(key[r])
          /\ Goto(r, CASE ~Live(key[r]) -> "denied"
                       [] Live(key[r]) /\ op[r] = "logout" -> "hget"
                       [] OTHER -> "ok")
          /\ UNCHANGED <<issued, local>>
       \/ Fails(r, ExpireKey(key[r]))

LogoutUser(r) ==
    /\ At(r, "hget")
    /\ \/ /\ "userid" \in hash[key[r]]
          /\ user' = [user EXCEPT ![r] = owner[key[r]]]
          /\ Goto(r, "hdel")
          /\ UNCHANGED <<redis, issued, op, key, snap, todo, gone, held>>
       \/ /\ "userid" \notin hash[key[r]]
          /\ Goto(r, "denied")
          /\ UNCHANGED <<redis, issued, local>>
       \/ Fails(r, UNCHANGED redis)

\* Faulty variant: the index entry is dropped without the hash.
LogoutKeepsHash(r) ==
    /\ At(r, "hdel")
    /\ Goto(r, "srem")
    /\ UNCHANGED <<redis, issued, local>>

LogoutHDel(r) ==
    /\ At(r, "hdel")
    /\ \/ /\ HDelFields(key[r], {"userid", "remote"})
          /\ Goto(r, "srem")
          /\ UNCHANGED <<issued, local>>
       \/ Fails(r, HDelFields(key[r], {"userid", "remote"}))

LogoutSRem(r) ==
    /\ At(r, "srem")
    /\ \/ /\ SRemKeys(user[r], {key[r]})
          /\ Goto(r, "ok")
          /\ UNCHANGED <<issued, local>>
       \/ Fails(r, SRemKeys(user[r], {key[r]}))
-----------------------------------------------------------------------------
(* LoginOTP and CompleteOTP: the pad comes from the link in a mail, then   *)
(* from the authn-pad cookie.  CompleteOTP revokes everything in the       *)
(* user's index: clearLogins, and clearTokens for each member.             *)

LoginOTP(r) == \E k \in issued \cap Pads :
                  Call(r, "loginOTP", NoUser, k, "lookup") /\ UNCHANGED held

Lookup(r) ==
    /\ At(r, "lookup")
    /\ \/ /\ Goto(r, IF {"userid", "redirect"} \subseteq hash[key[r]]
                     THEN "ok" ELSE "error")
          /\ UNCHANGED <<redis, issued, local>>
       \/ Fails(r, UNCHANGED redis)

CompleteOTP(r) ==
    \E k \in issued \cap Pads :
       /\ Call(r, "completeOTP", NoUser, k, "redeem")
       /\ held' = [held EXCEPT ![r] = {j \in issued : owner[j] = owner[k]}]

Redeem(r) ==
    /\ At(r, "redeem")
    /\ \/ /\ "userid" \in hash[key[r]]
          /\ user' = [user EXCEPT ![r] = owner[key[r]]]
          /\ Goto(r, "members")
          /\ UNCHANGED <<redis, issued, op, key, snap, todo, gone, held>>
       \/ /\ "userid" \notin hash[key[r]]
          /\ Goto(r, "error")
          /\ UNCHANGED <<redis, issued, local>>
       \/ Fails(r, UNCHANGED redis)

\* clearLogins: an empty index is a success (410) with nothing to clear.
Members(r) ==
    /\ At(r, "members")
    /\ \/ /\ snap' = [snap EXCEPT ![r] = logins[user[r]]]
          /\ todo' = [todo EXCEPT ![r] = logins[user[r]]]
          /\ Goto(r, IF logins[user[r]] = {} THEN "ok" ELSE "clear")
          /\ UNCHANGED <<redis, issued, op, user, key, gone, held>>
       \/ Fails(r, UNCHANGED redis)

\* Faulty variant: HDEL without the field only pads have.
ClearTokenFields(r) ==
    /\ At(r, "clear")
    /\ \E k \in todo[r] :
         /\ HDelFields(k, {"userid", "remote"})
         /\ todo' = [todo EXCEPT ![r] = @ \ {k}]
         /\ Goto(r, IF todo[r] = {k} THEN "unindex" ELSE "clear")
    /\ UNCHANGED <<issued, op, user, key, snap, gone, held>>

ClearToken(r) ==
    /\ At(r, "clear")
    /\ \E k \in todo[r] :
         \/ /\ HDelFields(k, Fields)
            /\ todo' = [todo EXCEPT ![r] = @ \ {k}]
            /\ Goto(r, IF todo[r] = {k} THEN "unindex" ELSE "clear")
            /\ UNCHANGED <<issued, op, user, key, snap, gone, held>>
         \/ Fails(r, HDelFields(k, Fields))

\* Faulty variant: the whole index is dropped, not the members that were cleared.
UnindexAll(r) ==
    /\ At(r, "unindex")
    /\ SRemKeys(user[r], Keys)
    /\ Goto(r, "ok")
    /\ UNCHANGED <<issued, local>>

Unindex(r) ==
    /\ At(r, "unindex")
    /\ \/ /\ SRemKeys(user[r], snap[r])
          /\ Goto(r, "ok")
          /\ UNCHANGED <<issued, local>>
       \/ Fails(r, SRemKeys(user[r], snap[r]))
-----------------------------------------------------------------------------
\* The router has the outcome; the request's locals are gone with it.
Reply(r) ==
    /\ pc[r] \in Outcomes
    /\ Goto(r, "idle")
    /\ op'   = [op EXCEPT ![r] = "none"]
    /\ user' = [user EXCEPT ![r] = NoUser]
    /\ key'  = [key EXCEPT ![r] = NoKey]
    /\ snap' = [snap EXCEPT ![r] = {}]
    /\ todo' = [todo EXCEPT ![r] = {}]
    /\ gone' = [gone EXCEPT ![r] = {}]
    /\ held' = [held EXCEPT ![r] = {}]
    /\ UNCHANGED <<redis, issued>>

\* Redis drops a hash whose time to live is over.
KeyExpires(k) ==
    /\ Live(k) /\ ttl[k]
    /\ hash' = [hash EXCEPT ![k] = {}]
    /\ ttl'  = [ttl EXCEPT ![k] = FALSE]
    /\ UNCHANGED <<owner, logins, issued, pc, local>>

\* Redis is deployed without a volume: it restarts empty.
RedisRestarts ==
    /\ "restart" \in Faults
    /\ hash'   = [k \in Keys |-> {}]
    /\ ttl'    = [k \in Keys |-> FALSE]
    /\ logins' = [u \in Users |-> {}]
    /\ UNCHANGED <<owner, issued, pc, local>>

\* The service dies with all its requests; what it issued stays with clients.
ServerCrashes ==
    /\ pc'   = [r \in Requests |-> "idle"]
    /\ op'   = [r \in Requests |-> "none"]
    /\ user' = [r \in Requests |-> NoUser]
    /\ key'  = [r \in Requests |-> NoKey]
    /\ snap' = [r \in Requests |-> {}]
    /\ todo' = [r \in Requests |-> {}]
    /\ gone' = [r \in Requests |-> {}]
    /\ held' = [r \in Requests |-> {}]
    /\ UNCHANGED <<redis, issued>>

Request(r) ==
    \/ Login(r) \/ OTP(r)
    \/ CountMembers(r) \/ Probe(r) \/ Sweep(r)
    \/ HSet(r) \/ SetExpiry(r) \/ SAdd(r)
    \/ Valid(r) \/ Logout(r) \/ CheckExists(r) \/ Touch(r)
    \/ LogoutUser(r) \/ LogoutHDel(r) \/ LogoutSRem(r)
    \/ LoginOTP(r) \/ Lookup(r)
    \/ CompleteOTP(r) \/ Redeem(r) \/ Members(r) \/ ClearToken(r) \/ Unindex(r)
    \/ Reply(r)

Next ==
    \/ \E r \in Requests : Request(r)
    \/ \E k \in Keys : KeyExpires(k)
    \/ RedisRestarts
    \/ ServerCrashes

Spec == Init /\ [][Next]_vars
-----------------------------------------------------------------------------
(* Properties.                                                             *)

\* A key a client can use is in its user's index, so that a password reset
\* (clearLogins reads nothing but the index) reaches it: hash first, index
\* second in Login and OTP, the other way round in Logout, nothing else but
\* expired keys swept by checkCount.
IssuedIndexed ==
    \A k \in issued : Live(k) => k \in logins[owner[k]]

\* No login slot is lost for good and no credential lasts for ever: a live key
\* that a client holds or that an index counts has a time to live, although
\* Login and OTP set it in a command of its own and OTP ignores its reply.
HeldKeysExpire ==
    \A k \in issued \cup UNION {logins[u] : u \in Users} : Live(k) => ttl[k]

\* The redemption of a pad that answers 200 has revoked every token and pad
\* that the user held when it started, the pad itself included, whatever
\* logins, logouts and redemptions of the same user ran at the same time.
ResetRevokes ==
    \A r \in Requests : op[r] = "completeOTP" /\ pc[r] = "ok" =>
        /\ key[r] \in held[r]
        /\ \A k \in held[r] : ~Live(k)

\* A logout that answers 204 has revoked its token and freed its slot.
LogoutRevokes ==
    \A r \in Requests : op[r] = "logout" /\ pc[r] = "ok" =>
        /\ ~Live(key[r])
        /\ key[r] \notin logins[owner[key[r]]]

\* The index never counts for one user a key that belongs to another.
IndexHasOwnKeys ==
    \A u \in Users : \A k \in logins[u] : owner[k] = u

\* Requests that checkCount has let through and that have not reached the index.
Admitted(u) == {r \in Requests : /\ user[r] = u
                                 /\ op[r] \in {"login", "otp"}
                                 /\ pc[r] \in {"hset", "expire", "sadd"}}

\* The limit concurrent calls really respect: checkCount is a check without a
\* reservation, so each other call in flight can exceed MaxLogins by one.
IndexBound ==
    \A u \in Users :
        Cardinality(logins[u]) + Cardinality(Admitted(u))
            <= MaxLogins - 1 + Cardinality(Requests)

\* A key that died is never accepted again: no command of any request, sent
\* late or interleaved with a logout or a reset, brings its hash back.
NoResurrection ==
    [][\A k \in Keys : ~Fresh(k) /\ ~Live(k) => ~Live(k)']_vars

\* The limit as config.MaxLogins states it; concurrent calls exceed it.
LoginsWithinMax ==
    \A u \in Users : Cardinality(logins[u]) <= MaxLogins

\* A call is refused with 429 only if it counted MaxLogins members that are
\* still alive ("did cleanup but still too many members").
RefusalJustified ==
    \A r \in Requests :
        pc[r] = "refused" => Cardinality(snap[r] \ gone[r]) >= MaxLogins

\* The validator implements the promise of module Credentials.
Status(k) == IF k \notin issued THEN "unknown" ELSE IF Live(k) THEN "alive" ELSE "dead"
Phase(r)  == CASE op[r] \notin {"logout", "completeOTP"} -> "idle"
               [] op[r] \in {"logout", "completeOTP"} /\ pc[r] = "ok" -> "acked"
               [] OTHER -> "revoking"
Promise   == INSTANCE Credentials WITH
                 holder  <- owner,
                 status  <- [k \in Keys |-> Status(k)],
                 phase   <- [r \in Requests |-> Phase(r)],
                 promise <- held
KeepsPromise == Promise!Spec
=============================================================================
