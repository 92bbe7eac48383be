------------------------------ MODULE ResetFlow ------------------------------
(***************************************************************************)
(* The handlers of src/internal/router/basicauth.go across both stores:    *)
(* PostLogin, PatchLogin with and without the authn-pad cookie, and        *)
(* DeleteLogin, for several users.                                         *)
(*                                                                         *)
(* A handler first reads and writes the user's row in MySQL, then issues a *)
(* token in Redis; a reset goes to Redis first, to redeem its pad and      *)
(* revoke all logins, and then to MySQL.  Nothing ties the two together.   *)
(*                                                                         *)
(* Of BasicAuth this module keeps the password: a call may find the        *)
(* account locked, the new password weak or its UPDATE without effect at   *)
(* any time.  Of TokenStore it keeps which keys are alive and, of these,   *)
(* which are indexed: checkCount may refuse a call at any time, and        *)
(* commands between which nothing of this happens are one action.  A       *)
(* request arrives with its first statement and is gone with its answer.   *)
(***************************************************************************)
EXTENDS Naturals, FiniteSets

CONSTANTS
    Requests,   \* concurrent requests
    Users,      \* user ids
    Passwords,  \* what users type
    Seeds,      \* the random passwords of ResetPassword
    Tokens,     \* the uuids login tokens get, one each
    Pads,       \* the uuids one-time pads get, one each
    None        \* no user, no key, no password

Keys    == Tokens \cup Pads
Secrets == Passwords \cup Seeds

ASSUME RequestsFinite == IsFiniteSet(Requests) /\ Requests # {}
ASSUME KindsDistinct  == /\ Tokens \cap Pads = {} /\ Seeds \cap Passwords = {}
                         /\ Requests \cap Keys = {}
ASSUME NoneElse       == None \notin Users \cup Keys \cup Secrets

VARIABLES
    pass,    \* pass[u]: the password in the row of u
    owner,   \* owner[k]: the userid in the hash of k, kept when the hash is gone
    alive,   \* the keys that are hashes in Redis
    index,   \* those of them in the set "logins:<owner>"
    issued,  \* those of them that a handler has as the token of a login
    mailed,  \* the pads some relay has taken
    pc,      \* pc[r]: the next statement or command of request r
    job,     \* job[r]: the local variables of r
    proof,   \* proof[r]: the users whose password or pad r has shown
    chosen,  \* chosen[u]: the passwords set by requests that had proof of being u
    before,  \* before[r]: when the redemption r read the index, the tokens of its
             \* user and the requests about to issue one
    old      \* tokens and requests from before a redemption that succeeded

mysql == <<pass, chosen>>
redis == <<owner, alive, index>>
ghost == <<before, old>>
vars  == <<mysql, redis, issued, mailed, pc, job, proof, ghost>>

Steps == {"miss", "hit", "store", "create", "index", "members", "clear", "resetStore",
          "select", "mail"}

\* kind: what the request is, a change of password becoming a login and a reset
\* becoming a change when that is all that is left of it; user: the id in the URL
\* or in the body; key: the pad in the cookie, or the key that is created; read:
\* the password of the row, as read; new: the one to write; members: the reply of
\* SMEMBERS.
Jobs == [kind : {"none", "login", "change", "reset", "forgot"},
         user : Users \cup {None}, key : Keys \cup {None},
         read : Secrets \cup {None}, new : Secrets \cup {None}, members : SUBSET Keys]
NoJob == [kind |-> "none", user |-> None, key |-> None, read |-> None, new |-> None,
          members |-> {}]
Job(kind, u) == [NoJob EXCEPT !.kind = kind, !.user = u]

TypeOK ==
    /\ pass   \in [Users -> Secrets]
    /\ owner  \in [Keys -> Users \cup {None}]
    /\ alive  \in SUBSET Keys
    /\ index  \in SUBSET alive
    /\ issued \in SUBSET (Tokens \cap alive)
    /\ mailed \in SUBSET Pads
    /\ pc     \in [Requests -> {"idle", "ok"} \cup Steps]
    /\ job    \in [Requests -> Jobs]
    /\ proof  \in [Requests -> SUBSET Users]
    /\ chosen \in [Users -> SUBSET Secrets]
    /\ before \in [Requests -> SUBSET (Tokens \cup Requests)]
    /\ old    \in SUBSET (Tokens \cup Requests)

Init ==
    /\ pass   \in [Users -> Passwords]
    /\ owner  = [k \in Keys |-> None]
    /\ alive  = {} /\ index  = {} /\ issued = {} /\ mailed = {}
    /\ pc     = [r \in Requests |-> "idle"]
    /\ job    = [r \in Requests |-> NoJob]
    /\ proof  = [r \in Requests |-> {}]
    /\ chosen = [u \in Users |-> {pass[u]}]
    /\ before = [r \in Requests |-> {}]
    /\ old    = {}

At(r, l) == pc[r] = l

\* r goes on with l, and with j of its variables.
Goto(r, l, j) ==
    /\ pc'  = [pc EXCEPT ![r] = l]
    /\ job' = [job EXCEPT ![r] = j]

\* r gets its answer.
Ends(r) ==
    /\ Goto(r, "idle", NoJob)
    /\ proof' = [proof EXCEPT ![r] = {}]

\* Requests and tokens that are gone are nobody's login any more.
Forgets(gone) ==
    /\ before' = [r \in Requests |-> IF r \in gone THEN {} ELSE before[r] \ gone]
    /\ old'    = old \ gone

\* A statement or command of r fails for the caller, or r is refused.
Fails(r) == Ends(r) /\ Forgets({r}) /\ UNCHANGED <<issued, mailed>>
-----------------------------------------------------------------------------
(* Login and ChangePassword on one row: SELECT, UPDATE, and for a change   *)
(* another UPDATE.  Each UPDATE writes the password back.                  *)

\* The SELECT of job j, whose password is p.
Select(r, j, p) ==
    LET u == j.user IN
    /\ \/ /\ p = pass[u]
          /\ Goto(r, "hit", [j EXCEPT !.read = pass[u]])
          /\ proof' = [proof EXCEPT ![r] = @ \cup {u}]
       \/ /\ p # pass[u]
          /\ Goto(r, "miss", [j EXCEPT !.read = pass[u]])
          /\ UNCHANGED proof
    /\ UNCHANGED <<mysql, redis, issued, mailed, ghost>>

PostLogin(r) ==
    /\ At(r, "idle")
    /\ \E u \in Users, p \in Passwords : Select(r, Job("login", u), p)

PatchLogin(r) ==
    /\ At(r, "idle")
    /\ \E u \in Users, p \in Passwords : Select(r, Job("change", u), p)

\* UPDATE of r's row to password p: executed and counted, r goes on, or executed
\* or not, r fails.
Update(r, p, goesOn) ==
    \/ /\ pass' = [pass EXCEPT ![job[r].user] = p]
       /\ goesOn
       /\ UNCHANGED <<issued, mailed, ghost>>
    \/ pass' \in {pass, [pass EXCEPT ![job[r].user] = p]} /\ Fails(r)

\* A wrong password: the failure is counted, in the row as it was read.
Miss(r) ==
    /\ At(r, "miss")
    /\ Update(r, job[r].read, FALSE)
    /\ UNCHANGED <<redis, chosen>>

\* The new password of a change is looked at after the UPDATE of the login.
Hit(r) ==
    LET j == job[r] IN
    /\ At(r, "hit")
    /\ Update(r, j.read,
           /\ \/ j.kind = "login" /\ Goto(r, "create", j)
              \/ /\ j.kind = "change"
                 /\ \E p \in Passwords \ {j.read} : Goto(r, "store", [j EXCEPT !.new = p])
           /\ UNCHANGED proof)
    /\ UNCHANGED <<redis, chosen>>

\* A password that r writes counts as chosen by the owner of the row.
Chooses(r, p) ==
    chosen' = IF job[r].user \in proof[r]
              THEN [chosen EXCEPT ![job[r].user] = @ \cup {p}]
              ELSE chosen

Store(r) ==
    LET j == job[r] IN
    /\ At(r, "store")
    /\ Update(r, j.new, Goto(r, "create", Job("login", j.user)) /\ UNCHANGED proof)
    /\ Chooses(r, j.new)
    /\ UNCHANGED redis
-----------------------------------------------------------------------------
(* Login and OTP of the validator: HSET and EXPIRE, then SADD.             *)

\* Faulty variant: tokens get the prefix of pads.
NewKeysArePads(r) == Pads

NewKeys(r) == IF job[r].kind = "forgot" THEN Pads ELSE Tokens

\* An error of OTP is not the end of DeleteLogin: its text goes into the mail.
Stumbles(r) ==
    \/ /\ job[r].kind = "forgot"
       /\ Goto(r, "mail", [job[r] EXCEPT !.key = None])
       /\ UNCHANGED <<issued, mailed, proof, ghost>>
    \/ job[r].kind # "forgot" /\ Fails(r)

\* The hash of a new key of r is there.
HSet(r, k) ==
    /\ owner[k] = None
    /\ owner' = [owner EXCEPT ![k] = job[r].user]
    /\ alive' = alive \cup {k}
    /\ UNCHANGED <<pass, chosen, index>>

\* The call is refused by checkCount, or fails before, in or after the HSET.
Create(r) ==
    /\ At(r, "create")
    /\ \/ \E k \in NewKeys(r) :
              /\ HSet(r, k)
              /\ \/ /\ Goto(r, "index", [job[r] EXCEPT !.key = k])
                    /\ UNCHANGED <<issued, mailed, proof, ghost>>
                 \/ Stumbles(r)
       \/ (Stumbles(r) \/ Fails(r)) /\ UNCHANGED <<mysql, redis>>

\* GetUser finds the user, with the addresses in the body; then OTP is called.
DeleteLogin(r) ==
    /\ At(r, "idle")
    /\ \E u \in Users : Goto(r, "create", Job("forgot", u))
    /\ UNCHANGED <<mysql, redis, issued, mailed, proof, ghost>>

\* The token k of r, unless it has died, takes r's place in what was before a
\* redemption.
Issues(r, k) ==
    LET token   == {k} \cap alive
        with(s) == IF r \in s THEN (s \ {r}) \cup token ELSE s
    IN
    /\ issued' = issued \cup token
    /\ before' = [q \in Requests |-> IF q = r THEN {} ELSE with(before[q])]
    /\ old'    = with(old)
    /\ Ends(r)
    /\ UNCHANGED mailed

\* The SADD of the key of r, if that is still there.
SAdd(r) ==
    /\ index' = index \cup ({job[r].key} \cap alive)
    /\ UNCHANGED <<pass, chosen, owner, alive>>

\* A pad goes to the mail.
Mails(r) ==
    /\ Goto(r, "mail", job[r])
    /\ UNCHANGED <<issued, mailed, proof, ghost>>

\* Faulty variant: OTP returns the pad with its error.
IndexMailsAnyway(r) ==
    /\ At(r, "index")
    /\ SAdd(r) \/ UNCHANGED <<mysql, redis>>
    /\ \/ job[r].kind = "forgot" /\ Mails(r)
       \/ job[r].kind # "forgot" /\ Issues(r, job[r].key)

Index(r) ==
    /\ At(r, "index")
    /\ \/ /\ SAdd(r)
          /\ \/ job[r].kind = "forgot" /\ Mails(r)
             \/ job[r].kind # "forgot" /\ Issues(r, job[r].key)
       \/ (SAdd(r) \/ UNCHANGED <<mysql, redis>>) /\ Stumbles(r)

\* The mail is taken or not; the SMS after it may fail, and the answer with it.
SendMail(r) ==
    /\ At(r, "mail")
    /\ \/ /\ mailed' = mailed \cup ({job[r].key} \ {None})
          /\ \/ Goto(r, "ok", job[r]) /\ UNCHANGED proof
             \/ Ends(r)
       \/ Ends(r) /\ UNCHANGED mailed
    /\ UNCHANGED <<mysql, redis, issued, ghost>>

\* The 204 of DeleteLogin has been seen.
Sent(r) ==
    /\ At(r, "ok")
    /\ Ends(r)
    /\ UNCHANGED <<mysql, redis, issued, mailed, ghost>>
-----------------------------------------------------------------------------
(* authnPad: CompleteOTP redeems the pad of the cookie and clears all       *)
(* logins of the pad's user; then the ids are compared; then ResetPassword. *)

\* The cookie is what GetLoginOTP made of a link.  That of a pad that has died, or
\* of the text of an error, is refused.
PatchLoginWithPad(r) ==
    /\ At(r, "idle")
    /\ \E u \in Users, k \in mailed \cap alive :
          /\ Goto(r, "members", [Job("reset", u) EXCEPT !.key = k])
          /\ proof' = [proof EXCEPT ![r] = {owner[k]}]
    /\ UNCHANGED <<mysql, redis, issued, mailed, ghost>>

\* Requests that have shown the password of u and may still issue a token.
InFlight(u) == {r \in Requests : /\ job[r].user = u /\ job[r].kind \in {"login", "change"}
                                 /\ pc[r] \in {"hit", "store", "create", "index"}}
TokensOf(u) == {k \in issued : owner[k] = u}

Members(r) ==
    LET j == job[r]
        u == owner[j.key]
    IN
    /\ At(r, "members")
    /\ \/ /\ Goto(r, "clear", [j EXCEPT !.members = {k \in index : owner[k] = u}])
          /\ before' = [before EXCEPT ![r] = InFlight(u) \cup TokensOf(u)]
          /\ UNCHANGED <<issued, mailed, proof, old>>
       \/ Fails(r)
    /\ UNCHANGED <<mysql, redis>>

\* Keys die, and with them all that is kept of their life.
Dies(keys) ==
    /\ alive'  = alive \ keys
    /\ index'  = index \ keys
    /\ issued' = issued \ keys
    /\ UNCHANGED <<pass, chosen, owner, mailed>>

\* One HDEL per member; those of members that are gone change nothing.
ClearToken(r) ==
    /\ At(r, "clear")
    /\ \E k \in job[r].members \cap alive :
          /\ Dies({k})
          /\ \/ UNCHANGED <<pc, job, proof>> /\ Forgets({k})
             \/ Ends(r) /\ Forgets({k, r})

\* Faulty variant: the two ids are not compared.
SamePersonAssumed(r) == job[r].key = job[r].key

\* The user of the pad must be the one in the URL.
SamePerson(r) == owner[job[r].key] = job[r].user

\* SREM, the end of clearLogins, and the comparison of the ids.
Cleared(r) ==
    \/ /\ SamePerson(r)
       /\ Goto(r, "resetStore", Job("change", job[r].user))
       /\ UNCHANGED proof
    \/ ~SamePerson(r) /\ Ends(r)

\* Faulty variant: an HDEL that fails is skipped.
UnindexSkips(r) ==
    /\ At(r, "clear")
    /\ Cleared(r)
    /\ before' = [before EXCEPT ![r] = {}]
    /\ old'    = old \cup before[r]
    /\ UNCHANGED <<mysql, redis, issued, mailed>>

Unindex(r) ==
    /\ At(r, "clear")
    /\ \/ /\ job[r].members \cap alive = {}
          /\ Cleared(r)
          /\ before' = [before EXCEPT ![r] = {}]
          /\ old'    = old \cup before[r]
          /\ UNCHANGED <<issued, mailed>>
       \/ Fails(r)
    /\ UNCHANGED <<mysql, redis>>

\* The row is read, and written back with a random password that the request then
\* uses, after its sleep, as the old one.
ResetStore(r) ==
    LET j == job[r] IN
    /\ At(r, "resetStore")
    /\ \E seed \in Seeds :
          /\ Update(r, seed, Goto(r, "select", [j EXCEPT !.new = seed]) /\ UNCHANGED proof)
          /\ Chooses(r, seed)
    /\ UNCHANGED redis

SelectAgain(r) ==
    /\ At(r, "select")
    /\ \/ Select(r, Job("change", job[r].user), job[r].new)
       \/ Fails(r) /\ UNCHANGED <<mysql, redis>>
-----------------------------------------------------------------------------
KeyExpires ==
    /\ \E k \in alive : Dies({k}) /\ Forgets({k})
    /\ UNCHANGED <<pc, job, proof>>

RedisRestarts ==
    /\ Dies(Keys)
    /\ Forgets(Keys)
    /\ UNCHANGED <<pc, job, proof>>

\* The service dies with its requests.
ServerCrashes ==
    /\ pc'    = [r \in Requests |-> "idle"]
    /\ job'   = [r \in Requests |-> NoJob]
    /\ proof' = [r \in Requests |-> {}]
    /\ Forgets(Requests)
    /\ UNCHANGED <<mysql, redis, issued, mailed>>

Request(r) ==
    \/ PostLogin(r) \/ PatchLogin(r) \/ PatchLoginWithPad(r) \/ DeleteLogin(r)
    \/ Miss(r) \/ Hit(r) \/ Store(r)
    \/ Create(r) \/ Index(r) \/ SendMail(r) \/ Sent(r)
    \/ Members(r) \/ ClearToken(r) \/ Unindex(r)
    \/ ResetStore(r) \/ SelectAgain(r)

Next ==
    \/ KeyExpires \/ RedisRestarts \/ ServerCrashes
    \/ \E r \in Requests : Request(r)

Spec == Init /\ [][Next]_vars
-----------------------------------------------------------------------------
(* Properties.                                                             *)

\* Whatever requests write, write back or read too early, the password of a user
\* is one that a request set which had shown the user's password or pad: the pad
\* of one user never changes the password of another, although it is spent before
\* the ids are compared.
PasswordIsOwners == \A u \in Users : pass[u] \in chosen[u]

\* A reset leaves alive no login that was made before it, except those of
\* requests that had passed the password check and had no token yet when it read
\* the index: at most one for each other request, however many it had.
OldLoginsBounded ==
    \A u \in Users :
        Cardinality({k \in old \cap Tokens : owner[k] = u}) <= Cardinality(Requests) - 1

\* A pad that was mailed, even by a request that was then answered with an error,
\* is where the next reset of its user finds it, as long as it works.
MailedIsIndexed == mailed \cap alive \subseteq index

\* A request for a reset that is answered with 204 has mailed a working link, not
\* the text of an error ("couldn't generate token").
MailedPadWorks ==
    \A r \in Requests : At(r, "ok") => job[r].key \in mailed
=============================================================================
