-------------------------- MODULE TokenStoreProofs --------------------------
(***************************************************************************)
(* Safety of the validator for every number of requests, users, tokens and *)
(* pads: the inductive invariant, by rely and guarantee.  StoreInv is about *)
(* Redis alone, RequestInv(r) about one request and Redis.  Every step of   *)
(* a request guarantees Guarantee(r); Interference shows that this is all  *)
(* another request has to rely on.                                         *)
(***************************************************************************)
EXTENDS TokenStore, TLAPS

Creating == {"expire", "sadd"}
Counting == {"count", "probe", "sweep", "hset"}

StoreInv ==
    /\ \A k \in Keys : Fresh(k) => /\ ~Live(k)
                                   /\ k \notin issued
                                   /\ \A u \in Users : k \notin logins[u]
    /\ \A k \in Tokens : hash[k] \subseteq {"userid", "remote"}
    /\ IndexHasOwnKeys
    /\ IssuedIndexed
    /\ HeldKeysExpire

\* A key between its HSET and its SADD is known to its request only.
CreateInv(r) ==
    /\ pc[r] \in Counting \cup Creating =>
         /\ op[r] \in {"login", "otp"}
         /\ user[r] \in Users
    /\ pc[r] \in Creating =>
         /\ key[r] \in Keys
         /\ ~Fresh(key[r]) /\ owner[key[r]] = user[r]
         /\ key[r] \notin issued
         /\ \A u \in Users : key[r] \notin logins[u]
    /\ pc[r] = "sadd" => (Live(key[r]) => ttl[key[r]])

\* What checkCount found expired stays so.
SnapInv(r) ==
    /\ \A k \in snap[r] \cup todo[r] \cup gone[r] : ~Fresh(k)
    /\ \A k \in gone[r] : ~Live(k)

CheckInv(r) ==
    /\ pc[r] = "idle" => op[r] = "none"
    /\ pc[r] \in {"exists", "touch"} => op[r] \in {"valid", "logout"}
    /\ pc[r] \in {"hget", "hdel", "srem"} => op[r] = "logout"
    /\ op[r] \in {"valid", "logout"} => key[r] \in issued \cap Tokens
    /\ op[r] = "logout" => held[r] = {key[r]}
    /\ pc[r] \in {"hdel", "srem"} => user[r] = owner[key[r]]
    /\ pc[r] = "srem" => ~Live(key[r])
    /\ op[r] = "logout" /\ pc[r] = "ok" =>
         ~Live(key[r]) /\ key[r] \notin logins[owner[key[r]]]

ResetInv(r) ==
    /\ pc[r] = "lookup" => op[r] = "loginOTP"
    /\ pc[r] \in {"redeem", "members", "clear", "unindex"} => op[r] = "completeOTP"
    /\ op[r] = "completeOTP" =>
         /\ key[r] \in held[r]
         /\ held[r] \subseteq issued
         /\ \A k \in held[r] : owner[k] = owner[key[r]]
    /\ pc[r] \in {"members", "clear", "unindex"} => user[r] = owner[key[r]]
    /\ pc[r] = "clear" =>
         /\ todo[r] \subseteq snap[r]
         /\ \A k \in held[r] \cup snap[r] : Live(k) => k \in todo[r]
    /\ pc[r] = "unindex" => \A k \in held[r] \cup snap[r] : ~Live(k)
    /\ op[r] = "completeOTP" /\ pc[r] = "ok" => \A k \in held[r] : ~Live(k)

RequestInv(r) == CreateInv(r) /\ SnapInv(r) /\ CheckInv(r) /\ ResetInv(r)

NewKeysDistinct ==
    \A q, r \in Requests :
        q # r /\ pc[q] \in Creating /\ pc[r] \in Creating => key[q] # key[r]

IInv ==
    /\ TypeOK
    /\ StoreInv
    /\ \A r \in Requests : RequestInv(r)
    /\ NewKeysDistinct
-----------------------------------------------------------------------------
(* Rely and guarantee.                                                     *)

\* The keys a step of r may make known: the one it is about to index.
Own(r) == IF pc[r] = "sadd" THEN {key[r]} ELSE {}

Guarantee(own) ==
    /\ \A k \in Keys : ~Fresh(k) =>
         /\ owner'[k] = owner[k]
         /\ hash'[k] \subseteq hash[k]
         /\ (Live(k) => ttl[k]) => (hash'[k] # {} => ttl'[k])
    /\ issued \subseteq issued'
    /\ issued' \subseteq issued \cup own
    /\ \A u \in Users : logins'[u] \subseteq logins[u] \cup own

LocalsSame(q) ==
    /\ pc'[q] = pc[q]     /\ op'[q] = op[q]     /\ user'[q] = user[q]
    /\ key'[q] = key[q]   /\ snap'[q] = snap[q] /\ todo'[q] = todo[q]
    /\ gone'[q] = gone[q] /\ held'[q] = held[q]

\* What a step of a request does that leaves IInv to be put together.
StepOK(r) ==
    /\ TypeOK'
    /\ StoreInv'
    /\ Guarantee(Own(r))
    /\ RequestInv(r)'
    /\ \A q \in Requests \ {r} : LocalsSame(q)
    /\ pc'[r] \in Creating =>
         \/ pc[r] \in Creating /\ key'[r] = key[r]
         \/ Fresh(key'[r])

\* The commands of other requests cannot falsify what a request knows.
LEMMA Interference ==
    ASSUME NEW q \in Requests, NEW own,
           TypeOK, StoreInv, RequestInv(q),
           Guarantee(own), LocalsSame(q),
           own \cap issued = {},
           pc[q] \in Creating => key[q] \notin own
    PROVE  RequestInv(q)'
<1>1. \A k \in issued : ~Fresh(k) /\ k \in Keys
  BY DEF TypeOK, StoreInv
<1>2. \A k \in Keys : ~Fresh(k) => /\ ~(owner'[k] = NoUser)
                                   /\ owner'[k] = owner[k]
                                   /\ ~Live(k) => hash'[k] = {}
                                   /\ (Live(k) => ttl[k]) => (hash'[k] # {} => ttl'[k])
  BY DEF Guarantee, Fresh, Live
<1>3. CreateInv(q)'
  <2>1. pc[q] \in Creating => ~(key[q] \in issued') /\ \A u \in Users : key[q] \notin logins'[u]
    BY DEF RequestInv, CreateInv, Guarantee
  <2>2. QED
    BY <1>2, <2>1 DEF RequestInv, CreateInv, LocalsSame, Fresh, Live, Creating, Counting
<1>4. SnapInv(q)'
  <2>1. snap[q] \cup todo[q] \cup gone[q] \subseteq Keys
    BY DEF TypeOK
  <2>2. QED
    BY <1>2, <2>1 DEF RequestInv, SnapInv, LocalsSame, Fresh, Live
<1>5. CheckInv(q)'
  <2>1. op[q] \in {"valid", "logout"} =>
          /\ key[q] \in Keys /\ ~Fresh(key[q]) /\ key[q] \in issued' \cap Tokens
          /\ owner[key[q]] \in Users
    BY <1>1 DEF RequestInv, CheckInv, Guarantee, TypeOK, Fresh
  <2>2. op[q] \in {"valid", "logout"} =>
          (key[q] \notin logins[owner[key[q]]] => key[q] \notin logins'[owner[key[q]]])
    BY <2>1 DEF RequestInv, CheckInv, Guarantee
  <2>3. QED
    BY <1>2, <2>1, <2>2 DEF RequestInv, CheckInv, LocalsSame, Live
<1>6. ResetInv(q)'
  <2>1. op[q] = "completeOTP" =>
          /\ key[q] \in Keys /\ ~Fresh(key[q])
          /\ held[q] \subseteq issued'
          /\ \A k \in held[q] : k \in Keys /\ ~Fresh(k)
    BY <1>1 DEF RequestInv, ResetInv, Guarantee
  <2>2. \A k \in snap[q] : k \in Keys /\ ~Fresh(k)
    BY DEF TypeOK, RequestInv, SnapInv
  <2>3. QED
    BY <1>2, <2>1, <2>2 DEF RequestInv, ResetInv, LocalsSame, Live
<1>7. QED
  BY <1>3, <1>4, <1>5, <1>6 DEF RequestInv
-----------------------------------------------------------------------------
(* What each Redis command does to StoreInv, whoever sends it.             *)

\* A step that leaves Redis and the issued keys alone keeps the store's invariant.
LEMMA StoreQuiet ==
    ASSUME NEW own, StoreInv, UNCHANGED <<redis, issued>>
    PROVE  StoreInv' /\ Guarantee(own)
<1>1. StoreInv'
  BY DEF StoreInv, IndexHasOwnKeys, IssuedIndexed, HeldKeysExpire, Fresh, Live, redis
<1>2. QED
  BY <1>1 DEF Guarantee, Live, redis

\* EXPIRE keeps the store's invariant: it only adds a time to live to a live hash.
LEMMA StoreExpire ==
    ASSUME NEW own, NEW k \in Keys, TypeOK, StoreInv,
           ExpireKey(k), UNCHANGED issued
    PROVE  /\ StoreInv' /\ Guarantee(own)
           /\ hash' = hash /\ owner' = owner /\ logins' = logins
           /\ Live(k) => ttl'[k]
           /\ ttl' \in [Keys -> BOOLEAN]
<1>1. /\ hash' = hash /\ owner' = owner /\ logins' = logins
      /\ ttl' \in [Keys -> BOOLEAN]
      /\ \A j \in Keys : ttl'[j] = IF j = k THEN Live(k) ELSE ttl[j]
  BY DEF ExpireKey, TypeOK, Live
<1>2. StoreInv'
  <2>1. HeldKeysExpire'
    <3>1. \A j \in issued \cup UNION {logins[u] : u \in Users} : j \in Keys
      BY DEF TypeOK
    <3>2. QED
      BY <1>1, <3>1 DEF StoreInv, HeldKeysExpire, Live
  <2>2. QED
    BY <1>1, <2>1 DEF StoreInv, IndexHasOwnKeys, IssuedIndexed, Fresh, Live
<1>3. Guarantee(own)
  BY <1>1 DEF Guarantee, Live
<1>4. QED
  BY <1>1, <1>2, <1>3

\* HDEL keeps the store's invariant: hashes only shrink or die.
LEMMA StoreHDel ==
    ASSUME NEW own, NEW k \in Keys, NEW fields, TypeOK, StoreInv,
           HDelFields(k, fields), UNCHANGED issued
    PROVE  /\ StoreInv' /\ Guarantee(own)
           /\ owner' = owner /\ logins' = logins
           /\ hash' = [hash EXCEPT ![k] = @ \ fields]
           /\ hash' \in [Keys -> SUBSET Fields]
           /\ ttl' \in [Keys -> BOOLEAN]
<1>1. /\ owner' = owner /\ logins' = logins
      /\ hash' = [hash EXCEPT ![k] = @ \ fields]
      /\ hash' \in [Keys -> SUBSET Fields]
      /\ \A j \in Keys : hash'[j] = IF j = k THEN hash[k] \ fields ELSE hash[j]
  BY DEF HDelFields, TypeOK
<1>2. /\ ttl' \in [Keys -> BOOLEAN]
      /\ \A j \in Keys : (Live(j) => ttl[j]) => (hash'[j] # {} => ttl'[j])
  BY <1>1 DEF HDelFields, TypeOK, Live
<1>3. \A j \in Keys : hash'[j] \subseteq hash[j]
  BY <1>1
<1>4. Guarantee(own)
  BY <1>1, <1>2, <1>3 DEF Guarantee
<1>5. StoreInv'
  <2>1. \A j \in issued \cup UNION {logins[u] : u \in Users} : j \in Keys
    BY DEF TypeOK
  <2>2. HeldKeysExpire'
    BY <1>1, <1>2, <2>1 DEF StoreInv, HeldKeysExpire, Live
  <2>3. IssuedIndexed'
    BY <1>1, <1>3, <2>1 DEF StoreInv, IssuedIndexed, Live
  <2>4. \A j \in Keys : Fresh(j) => hash'[j] = {}
    BY <1>3 DEF StoreInv, Live
  <2>5. \A j \in Tokens : hash'[j] \subseteq {"userid", "remote"}
    BY <1>3 DEF StoreInv, Keys
  <2>6. QED
    BY <1>1, <2>2, <2>3, <2>4, <2>5 DEF StoreInv, IndexHasOwnKeys, Fresh, Live
<1>6. QED
  BY <1>1, <1>2, <1>4, <1>5

\* Only dead members may leave an index.
LEMMA StoreSRem ==
    ASSUME NEW own, NEW u \in Users, NEW ks, TypeOK, StoreInv,
           SRemKeys(u, ks), UNCHANGED issued,
           \A k \in ks : ~Live(k)
    PROVE  /\ StoreInv' /\ Guarantee(own)
           /\ hash' = hash /\ owner' = owner /\ ttl' = ttl
           /\ logins' = [logins EXCEPT ![u] = @ \ ks]
           /\ logins' \in [Users -> SUBSET Keys]
<1>1. /\ hash' = hash /\ owner' = owner /\ ttl' = ttl /\ issued' = issued
      /\ logins' = [logins EXCEPT ![u] = @ \ ks]
      /\ logins' \in [Users -> SUBSET Keys]
      /\ \A v \in Users : logins'[v] = IF v = u THEN logins[u] \ ks ELSE logins[v]
  BY DEF SRemKeys, TypeOK
<1>2. \A v \in Users : logins'[v] \subseteq logins[v]
  BY <1>1
<1>3. Guarantee(own)
  BY <1>1, <1>2 DEF Guarantee, Live
<1>4. IssuedIndexed'
  <2>1. \A k \in issued : k \in Keys /\ (~Fresh(k)) /\ owner[k] \in Users
    BY DEF TypeOK, StoreInv, Fresh
  <2>2. QED
    BY <1>1, <2>1 DEF StoreInv, IssuedIndexed, Live
<1>5. HeldKeysExpire'
  BY <1>1, <1>2 DEF StoreInv, HeldKeysExpire, Live
<1>6. QED
  BY <1>1, <1>2, <1>3, <1>4, <1>5 DEF StoreInv, IndexHasOwnKeys, Fresh, Live

\* HSET under a new uuid keeps the store's invariant: nobody holds the key yet.
LEMMA StoreHSet ==
    ASSUME NEW own, NEW k \in Keys, NEW u \in Users, NEW fields \in SUBSET Fields,
           TypeOK, StoreInv, Fresh(k),
           k \in Tokens => fields \subseteq {"userid", "remote"},
           HSetKey(k, u, fields), UNCHANGED issued
    PROVE  /\ StoreInv' /\ Guarantee(own)
           /\ ttl' = ttl /\ logins' = logins
           /\ hash' \in [Keys -> SUBSET Fields]
           /\ owner' \in [Keys -> Users \cup {NoUser}]
           /\ owner'[k] = u
           /\ \A j \in Keys : j # k => owner'[j] = owner[j]
<1>1. /\ ttl' = ttl /\ logins' = logins /\ issued' = issued
      /\ hash' \in [Keys -> SUBSET Fields]
      /\ owner' \in [Keys -> Users \cup {NoUser}]
      /\ \A j \in Keys : hash'[j] = IF j = k THEN fields ELSE hash[j]
      /\ \A j \in Keys : owner'[j] = IF j = k THEN u ELSE owner[j]
  BY DEF HSetKey, TypeOK
<1>2. k \notin issued /\ \A v \in Users : k \notin logins[v]
  BY DEF StoreInv
<1>3. u # NoUser
  BY NoUserFresh
<1>4. \A j \in issued \cup UNION {logins[v] : v \in Users} : j \in Keys /\ j # k
  BY <1>2 DEF TypeOK
<1>5. Guarantee(own)
  BY <1>1 DEF Guarantee, Live, Fresh
<1>6. IssuedIndexed' /\ HeldKeysExpire'
  BY <1>1, <1>4 DEF StoreInv, IssuedIndexed, HeldKeysExpire, Live
<1>7. IndexHasOwnKeys'
  BY <1>1, <1>4 DEF StoreInv, IndexHasOwnKeys
<1>8. \A j \in Keys : owner'[j] = NoUser =>
        hash'[j] = {} /\ j \notin issued' /\ \A v \in Users : j \notin logins'[v]
  BY <1>1, <1>3 DEF StoreInv, Fresh, Live
<1>9. \A j \in Tokens : hash'[j] \subseteq {"userid", "remote"}
  BY <1>1 DEF StoreInv, Keys
<1>10. QED
  BY <1>1, <1>5, <1>6, <1>7, <1>8, <1>9 DEF StoreInv, Fresh, Live

\* issued' may already contain the key (the command was answered) or not.
LEMMA StoreSAdd ==
    ASSUME NEW k \in Keys, NEW u \in Users, TypeOK, StoreInv,
           ~Fresh(k), owner[k] = u, Live(k) => ttl[k],
           SAddKey(u, k), issued' \in {issued, issued \cup {k}}
    PROVE  /\ StoreInv' /\ Guarantee({k})
           /\ hash' = hash /\ owner' = owner /\ ttl' = ttl
           /\ logins' \in [Users -> SUBSET Keys]
<1>1. /\ hash' = hash /\ owner' = owner /\ ttl' = ttl
      /\ logins' \in [Users -> SUBSET Keys]
      /\ \A v \in Users : logins'[v] = IF v = u THEN logins[u] \cup {k} ELSE logins[v]
  BY DEF SAddKey, TypeOK
<1>2. Guarantee({k})
  BY <1>1 DEF Guarantee, Live
<1>3. IssuedIndexed'
  <2>1. \A j \in issued : j \in Keys /\ (~Fresh(j)) /\ owner[j] \in Users
    BY DEF TypeOK, StoreInv, Fresh
  <2>2. QED
    BY <1>1, <2>1 DEF StoreInv, IssuedIndexed, Live
<1>4. HeldKeysExpire'
  BY <1>1 DEF StoreInv, HeldKeysExpire, Live
<1>5. IndexHasOwnKeys'
  BY <1>1 DEF StoreInv, IndexHasOwnKeys
<1>6. \A j \in Keys : Fresh(j) => j \notin issued' /\ \A v \in Users : j \notin logins'[v]
  BY <1>1 DEF StoreInv
<1>7. QED
  BY <1>1, <1>2, <1>3, <1>4, <1>5, <1>6 DEF StoreInv, Fresh, Live
-----------------------------------------------------------------------------
(* The steps of a request.                                                 *)

RedisTypeOK ==
    /\ hash   \in [Keys -> SUBSET Fields]
    /\ owner  \in [Keys -> Users \cup {NoUser}]
    /\ ttl    \in [Keys -> BOOLEAN]
    /\ logins \in [Users -> SUBSET Keys]

Others(r) == \A q \in Requests \ {r} : LocalsSame(q)

\* A command that fails for its caller, executed or not, ends the call in error.
LEMMA FailStep ==
    ASSUME IInv, NEW r \in Requests, NEW command, Fails(r, command),
           RedisTypeOK', StoreInv', Guarantee(Own(r))
    PROVE  StepOK(r)
<1>1. TypeOK'
  BY DEF IInv, TypeOK, RedisTypeOK, Fails, Goto, Outcomes
<1>2. /\ pc'[r] = "error" /\ op'[r] = op[r] /\ user'[r] = user[r] /\ issued' = issued
      /\ key'[r] = key[r] /\ held'[r] = held[r]
      /\ snap'[r] = {} /\ todo'[r] = {} /\ gone'[r] = {}
  BY DEF IInv, TypeOK, Fails, Goto
<1>3. \A q \in Requests \ {r} : LocalsSame(q)
  BY DEF IInv, TypeOK, Fails, Goto, LocalsSame
<1>4. \A k \in issued : k \in Keys /\ owner'[k] = owner[k]
  BY DEF IInv, TypeOK, StoreInv, Guarantee
<1>5. RequestInv(r)'
  BY <1>2, <1>4 DEF IInv, RequestInv, CreateInv, SnapInv, CheckInv, ResetInv, Creating, Counting
<1>6. QED
  BY <1>1, <1>2, <1>3, <1>5 DEF StepOK, Creating

\* The same for a command that reads.
LEMMA FailQuietStep ==
    ASSUME IInv, NEW r \in Requests, Fails(r, UNCHANGED redis)
    PROVE  StepOK(r)
<1>1. UNCHANGED <<redis, issued>>
  BY DEF Fails
<1>2. StoreInv' /\ Guarantee(Own(r))
  BY <1>1, StoreQuiet DEF IInv
<1>3. RedisTypeOK'
  BY <1>1 DEF IInv, TypeOK, RedisTypeOK, redis
<1>4. QED
  BY <1>2, <1>3, FailStep

\* A call starts: of the request, its op, its user and its key are known.
LEMMA CallStep ==
    ASSUME IInv, NEW r \in Requests,
           Login(r) \/ OTP(r) \/ Valid(r) \/ Logout(r) \/ LoginOTP(r) \/ CompleteOTP(r)
    PROVE  StepOK(r)
<1>1. PICK o \in Ops, u \in Users \cup {NoUser}, k \in Keys \cup {NoKey}, c \in Commands :
        /\ Call(r, o, u, k, c)
        /\ \/ o \in {"login", "otp"} /\ u \in Users /\ c = "count" /\ UNCHANGED held
           \/ o = "valid" /\ k \in issued \cap Tokens /\ c = "exists" /\ UNCHANGED held
           \/ /\ o = "logout" /\ k \in issued \cap Tokens /\ c = "exists"
              /\ held' = [held EXCEPT ![r] = {k}]
           \/ o = "loginOTP" /\ c = "lookup" /\ UNCHANGED held
           \/ /\ o = "completeOTP" /\ k \in issued \cap Pads /\ c = "redeem"
              /\ held' = [held EXCEPT ![r] = {j \in issued : owner[j] = owner[k]}]
  BY DEF Login, OTP, Valid, Logout, LoginOTP, CompleteOTP, Ops, Commands, Keys
<1>2. /\ UNCHANGED <<redis, issued>>
      /\ pc'[r] = c /\ op'[r] = o /\ user'[r] = u /\ key'[r] = k
      /\ snap' = snap /\ todo' = todo /\ gone' = gone
  BY <1>1 DEF Call, Goto, IInv, TypeOK
<1>3. StoreInv' /\ Guarantee(Own(r))
  BY <1>2, StoreQuiet DEF IInv
<1>4. TypeOK'
  <2>1. held' \in [Requests -> SUBSET Keys]
    BY <1>1 DEF IInv, TypeOK
  <2>2. QED
    BY <1>1, <1>2, <2>1 DEF Call, Goto, IInv, TypeOK, redis
<1>5. \A q \in Requests \ {r} : LocalsSame(q)
  BY <1>1 DEF Call, Goto, IInv, TypeOK, LocalsSame
<1>6. RequestInv(r)'
  <2>1. CreateInv(r)' /\ SnapInv(r)'
    BY <1>1, <1>2 DEF IInv, RequestInv, CreateInv, SnapInv, Creating, Counting, Fresh, Live, redis
  <2>2. CheckInv(r)'
    BY <1>1, <1>2 DEF IInv, TypeOK, CheckInv, redis
  <2>3. ResetInv(r)'
    BY <1>1, <1>2 DEF IInv, TypeOK, ResetInv, redis
  <2>4. QED
    BY <2>1, <2>2, <2>3 DEF RequestInv
<1>7. QED
  BY <1>1, <1>2, <1>3, <1>4, <1>5, <1>6 DEF StepOK, Creating

\* checkCount reads the index: what it remembers of it are keys of the user.
LEMMA CountStep ==
    ASSUME IInv, NEW r \in Requests, CountMembers(r)
    PROVE  StepOK(r)
<1>1. CASE Fails(r, UNCHANGED redis)
  BY <1>1, FailQuietStep
<1>2. CASE ~Fails(r, UNCHANGED redis)
  <2>1. /\ UNCHANGED <<redis, issued, op, user, key, gone, held>>
        /\ pc[r] = "count" /\ pc' = [pc EXCEPT ![r] = pc'[r]] /\ pc'[r] \in {"hset", "probe"}
        /\ snap' = [snap EXCEPT ![r] = logins[user[r]]]
        /\ todo' \in {todo, [todo EXCEPT ![r] = logins[user[r]]]}
    BY <1>2 DEF CountMembers, Goto, At, IInv, TypeOK
  <2>2. user[r] \in Users /\ op[r] \in {"login", "otp"}
    BY <2>1 DEF IInv, RequestInv, CreateInv, Counting
  <2>3. logins[user[r]] \in SUBSET Keys /\ \A k \in logins[user[r]] : ~Fresh(k)
    BY <2>2 DEF IInv, TypeOK, StoreInv
  <2>4. StoreInv' /\ Guarantee(Own(r))
    BY <2>1, StoreQuiet DEF IInv
  <2>5. TypeOK'
    BY <2>1, <2>3 DEF IInv, TypeOK, redis, Commands
  <2>6. Others(r)
    BY <2>1 DEF IInv, TypeOK, Others, LocalsSame
  <2>7. RequestInv(r)'
    <3>1. snap'[r] = logins[user[r]] /\ todo'[r] \in {todo[r], logins[user[r]]}
      BY <2>1 DEF IInv, TypeOK
    <3>2. CreateInv(r)' /\ SnapInv(r)'
      BY <2>1, <2>2, <2>3, <3>1
         DEF IInv, RequestInv, CreateInv, SnapInv, Creating, Counting, Fresh, Live, redis
    <3>3. CheckInv(r)' /\ ResetInv(r)'
      BY <2>1, <2>2 DEF CheckInv, ResetInv
    <3>4. QED
      BY <3>2, <3>3 DEF RequestInv
  <2>8. QED
    BY <2>1, <2>4, <2>5, <2>6, <2>7 DEF StepOK, Others, Creating
<1>3. QED
  BY <1>1, <1>2

\* checkCount probes a member: the keys it found gone are dead.
LEMMA ProbeStep ==
    ASSUME IInv, NEW r \in Requests, Probe(r)
    PROVE  StepOK(r)
<1>1. CASE Fails(r, UNCHANGED redis)
  BY <1>1, FailQuietStep
<1>2. CASE ~Fails(r, UNCHANGED redis)
  <2>1. PICK k \in todo[r] :
          /\ UNCHANGED <<redis, issued, op, user, key, snap, held>>
          /\ pc[r] = "probe" /\ pc' = [pc EXCEPT ![r] = pc'[r]]
          /\ pc'[r] \in {"probe", "refused", "sweep"}
          /\ todo' = [todo EXCEPT ![r] = @ \ {k}]
          /\ gone' = [gone EXCEPT ![r] = IF Live(k) THEN gone[r] ELSE gone[r] \cup {k}]
    BY <1>2 DEF Probe, Goto, At, IInv, TypeOK
  <2>2. user[r] \in Users /\ op[r] \in {"login", "otp"}
    BY <2>1 DEF IInv, RequestInv, CreateInv, Counting
  <2>3. k \in Keys /\ ~Fresh(k)
    BY DEF IInv, TypeOK, RequestInv, SnapInv
  <2>4. StoreInv' /\ Guarantee(Own(r))
    BY <2>1, StoreQuiet DEF IInv
  <2>5. TypeOK'
    BY <2>1, <2>3 DEF IInv, TypeOK, redis, Commands, Outcomes
  <2>6. Others(r)
    BY <2>1 DEF IInv, TypeOK, Others, LocalsSame
  <2>7. RequestInv(r)'
    <3>1. todo'[r] \subseteq todo[r] /\ gone'[r] = IF Live(k) THEN gone[r] ELSE gone[r] \cup {k}
      BY <2>1 DEF IInv, TypeOK
    <3>2. CreateInv(r)' /\ SnapInv(r)'
      BY <2>1, <2>2, <2>3, <3>1
         DEF IInv, RequestInv, CreateInv, SnapInv, Creating, Counting, Fresh, Live, redis
    <3>3. CheckInv(r)' /\ ResetInv(r)'
      BY <2>1, <2>2 DEF CheckInv, ResetInv
    <3>4. QED
      BY <3>2, <3>3 DEF RequestInv
  <2>8. QED
    BY <2>1, <2>4, <2>5, <2>6, <2>7 DEF StepOK, Others, Creating
<1>3. QED
  BY <1>1, <1>2

\* checkCount removes dead members only, whatever SREM replies.
LEMMA SweepStep ==
    ASSUME IInv, NEW r \in Requests, Sweep(r)
    PROVE  StepOK(r)
<1>1. user[r] \in Users /\ op[r] \in {"login", "otp"} /\ \A k \in gone[r] : ~Live(k)
  BY DEF Sweep, At, IInv, RequestInv, CreateInv, SnapInv, Counting
<1>2. CASE Fails(r, SRemKeys(user[r], gone[r]))
  <2>1. UNCHANGED issued /\ (SRemKeys(user[r], gone[r]) \/ UNCHANGED redis)
    BY <1>2 DEF Fails
  <2>2. RedisTypeOK' /\ StoreInv' /\ Guarantee(Own(r))
    BY <1>1, <2>1, StoreSRem, StoreQuiet DEF IInv, TypeOK, RedisTypeOK, redis
  <2>3. QED
    BY <1>2, <2>2, FailStep
<1>3. CASE ~Fails(r, SRemKeys(user[r], gone[r]))
  <2>1. /\ SRemKeys(user[r], gone[r])
        /\ UNCHANGED <<issued, local>>
        /\ pc[r] = "sweep" /\ pc' = [pc EXCEPT ![r] = pc'[r]]
        /\ pc'[r] \in {"hset", "refused"}
    BY <1>3 DEF Sweep, Goto, At, IInv, TypeOK
  <2>2. /\ StoreInv' /\ Guarantee(Own(r))
        /\ hash' = hash /\ owner' = owner /\ ttl' = ttl /\ logins' \in [Users -> SUBSET Keys]
    BY <1>1, <2>1, StoreSRem DEF IInv
  <2>3. TypeOK'
    BY <2>1, <2>2 DEF IInv, TypeOK, local, Commands, Outcomes
  <2>4. Others(r)
    BY <2>1 DEF IInv, TypeOK, Others, LocalsSame, local
  <2>5. RequestInv(r)'
    BY <1>1, <2>1, <2>2 DEF IInv, RequestInv, CreateInv, SnapInv, CheckInv, ResetInv,
                            Creating, Counting, Fresh, Live, local
  <2>6. QED
    BY <2>1, <2>2, <2>3, <2>4, <2>5 DEF StepOK, Others, Creating
<1>4. QED
  BY <1>2, <1>3

\* The new hash of a login or a pad has the fields of its kind and a new key.
LEMMA HSetStep ==
    ASSUME IInv, NEW r \in Requests, HSet(r)
    PROVE  StepOK(r)
<1> DEFINE Write == \E k \in NewKeys(r) : Fresh(k) /\ HSetKey(k, user[r], NewFields(r))
<1>1. user[r] \in Users /\ op[r] \in {"login", "otp"}
  BY DEF HSet, At, IInv, RequestInv, CreateInv, Counting
<1>2. \A k \in NewKeys(r) : k \in Keys /\ (k \in Tokens => NewFields(r) = {"userid", "remote"})
  BY <1>1, KeysDistinct DEF NewKeys, NewFields, Keys
<1>3. NewFields(r) \in SUBSET Fields
  BY DEF NewFields, Fields
<1>4. CASE Fails(r, Write)
  <2>1. UNCHANGED issued /\ (Write \/ UNCHANGED redis)
    BY <1>4 DEF Fails
  <2>2. CASE Write
    <3>1. PICK k \in NewKeys(r) : Fresh(k) /\ HSetKey(k, user[r], NewFields(r))
      BY <2>2
    <3>2. RedisTypeOK' /\ StoreInv' /\ Guarantee(Own(r))
      BY <1>1, <1>2, <1>3, <2>1, <3>1, StoreHSet DEF IInv, TypeOK, RedisTypeOK
    <3>3. QED
      BY <1>4, <3>2, FailStep
  <2>3. CASE UNCHANGED redis
    <3>1. RedisTypeOK' /\ StoreInv' /\ Guarantee(Own(r))
      BY <2>1, <2>3, StoreQuiet DEF IInv, TypeOK, RedisTypeOK, redis
    <3>2. QED
      BY <1>4, <3>1, FailStep
  <2>4. QED
    BY <2>1, <2>2, <2>3
<1>5. CASE ~Fails(r, Write)
  <2>1. PICK k \in NewKeys(r) :
          /\ Fresh(k)
          /\ HSetKey(k, user[r], NewFields(r))
          /\ key' = [key EXCEPT ![r] = k]
          /\ pc[r] = "hset" /\ pc' = [pc EXCEPT ![r] = "expire"]
          /\ UNCHANGED <<issued, op, user, snap, todo, gone, held>>
    BY <1>5 DEF HSet, Goto, At
  <2>2. k \in Keys
    BY <1>2
  <2>3. /\ StoreInv' /\ Guarantee(Own(r))
        /\ ttl' = ttl /\ logins' = logins
        /\ hash' \in [Keys -> SUBSET Fields]
        /\ owner' \in [Keys -> Users \cup {NoUser}]
        /\ owner'[k] = user[r]
    BY <1>1, <1>2, <1>3, <2>1, StoreHSet DEF IInv
  <2>4. TypeOK'
    BY <2>1, <2>2, <2>3 DEF IInv, TypeOK, Commands
  <2>5. Others(r)
    BY <2>1 DEF IInv, TypeOK, Others, LocalsSame
  <2>6. pc'[r] = "expire" /\ key'[r] = k
    BY <2>1 DEF IInv, TypeOK
  <2>7. CreateInv(r)'
    <3>1. ~(owner'[k] = NoUser)
      BY <1>1, <2>3, NoUserFresh
    <3>2. k \notin issued' /\ \A u \in Users : k \notin logins'[u]
      BY <2>1, <2>2, <2>3 DEF IInv, StoreInv
    <3>3. QED
      BY <1>1, <2>1, <2>2, <2>3, <2>6, <3>1, <3>2 DEF CreateInv, Fresh
  <2>8. SnapInv(r)'
    <3>1. \A j \in snap[r] \cup todo[r] \cup gone[r] :
            /\ j \in Keys /\ ~Fresh(j)
            /\ owner'[j] = owner[j] /\ hash'[j] \subseteq hash[j]
      BY <2>3 DEF IInv, TypeOK, RequestInv, SnapInv, Guarantee
    <3>2. QED
      BY <2>1, <3>1 DEF IInv, RequestInv, SnapInv, Fresh, Live
  <2>9. CheckInv(r)' /\ ResetInv(r)'
    BY <1>1, <2>1, <2>6 DEF CheckInv, ResetInv
  <2>10. QED
    BY <2>1, <2>3, <2>4, <2>5, <2>6, <2>7, <2>8, <2>9 DEF StepOK, Others, RequestInv
<1>6. QED
  BY <1>4, <1>5

\* The new key has a time to live, or is dead, before it goes on to the index.
LEMMA SetExpiryStep ==
    ASSUME IInv, NEW r \in Requests, SetExpiry(r)
    PROVE  StepOK(r)
<1>1. /\ user[r] \in Users /\ op[r] \in {"login", "otp"}
      /\ key[r] \in Keys /\ pc[r] = "expire"
  BY DEF SetExpiry, At, IInv, RequestInv, CreateInv, Creating
<1>2. CASE Fails(r, ExpireKey(key[r]))
  <2>1. UNCHANGED issued /\ (ExpireKey(key[r]) \/ UNCHANGED redis)
    BY <1>2 DEF Fails
  <2>2. RedisTypeOK' /\ StoreInv' /\ Guarantee(Own(r))
    BY <1>1, <2>1, StoreExpire, StoreQuiet DEF IInv, TypeOK, RedisTypeOK, redis
  <2>3. QED
    BY <1>2, <2>2, FailStep
<1>3. CASE ~Fails(r, ExpireKey(key[r]))
  <2>1. /\ ExpireKey(key[r])
        /\ UNCHANGED <<issued, local>>
        /\ pc' = [pc EXCEPT ![r] = pc'[r]]
        /\ pc'[r] \in {"sadd", "error"}
    BY <1>3 DEF SetExpiry, Goto, At, IInv, TypeOK
  <2>2. /\ StoreInv' /\ Guarantee(Own(r))
        /\ hash' = hash /\ owner' = owner /\ logins' = logins
        /\ Live(key[r]) => ttl'[key[r]]
        /\ ttl' \in [Keys -> BOOLEAN]
    BY <1>1, <2>1, StoreExpire DEF IInv
  <2>3. TypeOK'
    BY <2>1, <2>2 DEF IInv, TypeOK, local, Commands, Outcomes
  <2>4. Others(r)
    BY <2>1 DEF IInv, TypeOK, Others, LocalsSame, local
  <2>5. RequestInv(r)'
    BY <1>1, <2>1, <2>2 DEF IInv, RequestInv, CreateInv, SnapInv, CheckInv, ResetInv,
                            Creating, Counting, Fresh, Live, local
  <2>6. QED
    BY <1>1, <2>1, <2>2, <2>3, <2>4, <2>5 DEF StepOK, Others, Creating, local
<1>4. QED
  BY <1>2, <1>3

\* A key is issued only once it is indexed and, if alive, has a time to live.
LEMMA SAddStep ==
    ASSUME IInv, NEW r \in Requests, SAdd(r)
    PROVE  StepOK(r)
<1>1. /\ user[r] \in Users /\ op[r] \in {"login", "otp"}
      /\ key[r] \in Keys /\ pc[r] = "sadd" /\ Own(r) = {key[r]}
      /\ ~Fresh(key[r]) /\ owner[key[r]] = user[r]
      /\ Live(key[r]) => ttl[key[r]]
  BY DEF SAdd, At, IInv, RequestInv, CreateInv, Creating, Own
<1>2. CASE Fails(r, SAddKey(user[r], key[r]))
  <2>1. issued' = issued /\ (SAddKey(user[r], key[r]) \/ UNCHANGED redis)
    BY <1>2 DEF Fails
  <2>2. RedisTypeOK' /\ StoreInv' /\ Guarantee(Own(r))
    BY <1>1, <2>1, StoreSAdd, StoreQuiet DEF IInv, TypeOK, RedisTypeOK, redis
  <2>3. QED
    BY <1>2, <2>2, FailStep
<1>3. CASE ~Fails(r, SAddKey(user[r], key[r]))
  <2>1. /\ SAddKey(user[r], key[r])
        /\ issued' = issued \cup {key[r]}
        /\ UNCHANGED local
        /\ pc' = [pc EXCEPT ![r] = "ok"]
    BY <1>3 DEF SAdd, Goto
  <2>2. /\ StoreInv' /\ Guarantee(Own(r))
        /\ hash' = hash /\ owner' = owner /\ ttl' = ttl
        /\ logins' \in [Users -> SUBSET Keys]
    BY <1>1, <2>1, StoreSAdd DEF IInv
  <2>3. TypeOK'
    BY <1>1, <2>1, <2>2 DEF IInv, TypeOK, local, Outcomes
  <2>4. Others(r)
    BY <2>1 DEF IInv, TypeOK, Others, LocalsSame, local
  <2>5. pc'[r] = "ok"
    BY <2>1 DEF IInv, TypeOK
  <2>6. RequestInv(r)'
    BY <1>1, <2>1, <2>2, <2>5 DEF IInv, RequestInv, CreateInv, SnapInv, CheckInv, ResetInv,
                                  Creating, Counting, Fresh, Live, local
  <2>7. QED
    BY <2>2, <2>3, <2>4, <2>5, <2>6 DEF StepOK, Others, Creating
<1>4. QED
  BY <1>2, <1>3

\* Valid and Logout look whether the token exists.
LEMMA CheckExistsStep ==
    ASSUME IInv, NEW r \in Requests, CheckExists(r)
    PROVE  StepOK(r)
<1>1. CASE Fails(r, UNCHANGED redis)
  BY <1>1, FailQuietStep
<1>2. CASE ~Fails(r, UNCHANGED redis)
  <2>1. /\ UNCHANGED <<redis, issued, local>>
        /\ pc[r] = "exists" /\ pc' = [pc EXCEPT ![r] = pc'[r]]
        /\ pc'[r] \in {"touch", "denied"}
    BY <1>2 DEF CheckExists, Goto, At, IInv, TypeOK
  <2>2. StoreInv' /\ Guarantee(Own(r))
    BY <2>1, StoreQuiet DEF IInv
  <2>3. TypeOK'
    BY <2>1 DEF IInv, TypeOK, redis, local, Commands, Outcomes
  <2>4. Others(r)
    BY <2>1 DEF IInv, TypeOK, Others, LocalsSame, local
  <2>5. RequestInv(r)'
    BY <2>1 DEF IInv, RequestInv, CreateInv, SnapInv, CheckInv, ResetInv,
                Creating, Counting, Fresh, Live, redis, local
  <2>6. QED
    BY <2>1, <2>2, <2>3, <2>4, <2>5 DEF StepOK, Others, Creating
<1>3. QED
  BY <1>1, <1>2

\* Valid and Logout renew the expiry of a token: a dead one stays dead.
LEMMA TouchStep ==
    ASSUME IInv, NEW r \in Requests, Touch(r)
    PROVE  StepOK(r)
<1>1. /\ op[r] \in {"valid", "logout"} /\ pc[r] = "touch"
      /\ key[r] \in Keys
  BY DEF Touch, At, IInv, TypeOK, RequestInv, CheckInv
<1>2. CASE Fails(r, ExpireKey(key[r]))
  <2>1. UNCHANGED issued /\ (ExpireKey(key[r]) \/ UNCHANGED redis)
    BY <1>2 DEF Fails
  <2>2. RedisTypeOK' /\ StoreInv' /\ Guarantee(Own(r))
    BY <1>1, <2>1, StoreExpire, StoreQuiet DEF IInv, TypeOK, RedisTypeOK, redis
  <2>3. QED
    BY <1>2, <2>2, FailStep
<1>3. CASE ~Fails(r, ExpireKey(key[r]))
  <2>1. /\ ExpireKey(key[r])
        /\ UNCHANGED <<issued, local>>
        /\ pc' = [pc EXCEPT ![r] = pc'[r]]
        /\ \/ pc'[r] = "denied"
           \/ pc'[r] = "hget" /\ op[r] = "logout"
           \/ pc'[r] = "ok" /\ op[r] = "valid"
    BY <1>1, <1>3 DEF Touch, Goto, At, IInv, TypeOK
  <2>2. /\ StoreInv' /\ Guarantee(Own(r))
        /\ hash' = hash /\ owner' = owner /\ logins' = logins
        /\ ttl' \in [Keys -> BOOLEAN]
    BY <1>1, <2>1, StoreExpire DEF IInv
  <2>3. TypeOK'
    BY <2>1, <2>2 DEF IInv, TypeOK, local, Commands, Outcomes
  <2>4. Others(r)
    BY <2>1 DEF IInv, TypeOK, Others, LocalsSame, local
  <2>5. RequestInv(r)'
    BY <1>1, <2>1, <2>2 DEF IInv, RequestInv, CreateInv, SnapInv, CheckInv, ResetInv,
                            Creating, Counting, Fresh, Live, local
  <2>6. QED
    BY <1>1, <2>1, <2>2, <2>3, <2>4, <2>5 DEF StepOK, Others, Creating
<1>4. QED
  BY <1>2, <1>3

\* Logout learns the owner of its token.
LEMMA LogoutUserStep ==
    ASSUME IInv, NEW r \in Requests, LogoutUser(r)
    PROVE  StepOK(r)
<1>1. CASE Fails(r, UNCHANGED redis)
  BY <1>1, FailQuietStep
<1>2. CASE ~Fails(r, UNCHANGED redis)
  <2>1. /\ UNCHANGED <<redis, issued, op, key, snap, todo, gone, held>>
        /\ pc[r] = "hget" /\ pc' = [pc EXCEPT ![r] = pc'[r]]
        /\ \/ pc'[r] = "hdel" /\ user' = [user EXCEPT ![r] = owner[key[r]]]
           \/ pc'[r] = "denied" /\ user' = user
    BY <1>2 DEF LogoutUser, Goto, At, IInv, TypeOK, local
  <2>2. op[r] = "logout" /\ key[r] \in Keys /\ owner[key[r]] \in Users \cup {NoUser}
    BY <2>1 DEF IInv, TypeOK, RequestInv, CheckInv
  <2>3. StoreInv' /\ Guarantee(Own(r))
    BY <2>1, StoreQuiet DEF IInv
  <2>4. TypeOK'
    BY <2>1, <2>2 DEF IInv, TypeOK, redis, Commands, Outcomes
  <2>5. Others(r)
    BY <2>1 DEF IInv, TypeOK, Others, LocalsSame
  <2>6. pc'[r] = "hdel" => user'[r] = owner[key[r]]
    BY <2>1 DEF IInv, TypeOK
  <2>7. RequestInv(r)'
    BY <2>1, <2>2, <2>6 DEF IInv, RequestInv, CreateInv, SnapInv, CheckInv, ResetInv,
                            Creating, Counting, Fresh, Live, redis
  <2>8. QED
    BY <2>1, <2>3, <2>4, <2>5, <2>7 DEF StepOK, Others, Creating
<1>3. QED
  BY <1>1, <1>2

\* A token has no redirect field: HDEL of the other two removes it.
LEMMA LogoutHDelStep ==
    ASSUME IInv, NEW r \in Requests, LogoutHDel(r)
    PROVE  StepOK(r)
<1> DEFINE F == {"userid", "remote"}
<1>1. /\ op[r] = "logout" /\ pc[r] = "hdel"
      /\ key[r] \in Keys /\ key[r] \in Tokens /\ key[r] \in issued /\ user[r] = owner[key[r]]
  BY DEF LogoutHDel, At, IInv, TypeOK, RequestInv, CheckInv
<1>2. CASE Fails(r, HDelFields(key[r], F))
  <2>1. UNCHANGED issued /\ (HDelFields(key[r], F) \/ UNCHANGED redis)
    BY <1>2 DEF Fails
  <2>2. RedisTypeOK' /\ StoreInv' /\ Guarantee(Own(r))
    BY <1>1, <2>1, StoreHDel, StoreQuiet DEF IInv, TypeOK, RedisTypeOK, redis
  <2>3. QED
    BY <1>2, <2>2, FailStep
<1>3. CASE ~Fails(r, HDelFields(key[r], F))
  <2>1. /\ HDelFields(key[r], F)
        /\ UNCHANGED <<issued, local>>
        /\ pc' = [pc EXCEPT ![r] = "srem"]
    BY <1>3 DEF LogoutHDel, Goto
  <2>2. /\ StoreInv' /\ Guarantee(Own(r))
        /\ owner' = owner /\ logins' = logins
        /\ hash' = [hash EXCEPT ![key[r]] = @ \ F]
        /\ hash' \in [Keys -> SUBSET Fields]
        /\ ttl' \in [Keys -> BOOLEAN]
    BY <1>1, <2>1, StoreHDel DEF IInv
  <2>3. hash'[key[r]] = {}
    BY <1>1, <2>2 DEF IInv, TypeOK, StoreInv
  <2>4. \A k \in Keys : hash'[k] \subseteq hash[k]
    BY <1>1, <2>2 DEF IInv, TypeOK
  <2>5. TypeOK'
    BY <2>1, <2>2 DEF IInv, TypeOK, local, Commands
  <2>6. Others(r)
    BY <2>1 DEF IInv, TypeOK, Others, LocalsSame, local
  <2>7. pc'[r] = "srem"
    BY <2>1 DEF IInv, TypeOK
  <2>8. snap[r] \cup todo[r] \cup gone[r] \subseteq Keys
    BY DEF IInv, TypeOK
  <2>9. RequestInv(r)'
    BY <1>1, <2>1, <2>2, <2>3, <2>4, <2>7, <2>8
       DEF IInv, RequestInv, CreateInv, SnapInv, CheckInv, ResetInv,
           Creating, Counting, Fresh, Live, local
  <2>10. QED
    BY <2>2, <2>5, <2>6, <2>7, <2>9 DEF StepOK, Others, Creating
<1>4. QED
  BY <1>2, <1>3

\* Logout takes its token, dead by now, out of the index.
LEMMA LogoutSRemStep ==
    ASSUME IInv, NEW r \in Requests, LogoutSRem(r)
    PROVE  StepOK(r)
<1>1. /\ op[r] = "logout" /\ pc[r] = "srem"
      /\ key[r] \in Keys /\ key[r] \in Tokens /\ key[r] \in issued
      /\ user[r] = owner[key[r]] /\ user[r] \in Users
      /\ \A k \in {key[r]} : ~Live(k)
  BY DEF LogoutSRem, At, IInv, TypeOK, StoreInv, RequestInv, CheckInv, Fresh
<1>2. CASE Fails(r, SRemKeys(user[r], {key[r]}))
  <2>1. UNCHANGED issued /\ (SRemKeys(user[r], {key[r]}) \/ UNCHANGED redis)
    BY <1>2 DEF Fails
  <2>2. RedisTypeOK' /\ StoreInv' /\ Guarantee(Own(r))
    <3>1. CASE SRemKeys(user[r], {key[r]})
      <4>1. /\ StoreInv' /\ Guarantee(Own(r))
            /\ hash' = hash /\ owner' = owner /\ ttl' = ttl
            /\ logins' \in [Users -> SUBSET Keys]
        BY <1>1, <2>1, <3>1, StoreSRem DEF IInv
      <4>2. QED
        BY <4>1 DEF IInv, TypeOK, RedisTypeOK
    <3>2. CASE UNCHANGED redis
      BY <2>1, <3>2, StoreQuiet DEF IInv, TypeOK, RedisTypeOK, redis
    <3>3. QED
      BY <2>1, <3>1, <3>2
  <2>3. QED
    BY <1>2, <2>2, FailStep
<1>3. CASE ~Fails(r, SRemKeys(user[r], {key[r]}))
  <2>1. /\ SRemKeys(user[r], {key[r]})
        /\ UNCHANGED <<issued, local>>
        /\ pc' = [pc EXCEPT ![r] = "ok"]
    BY <1>3 DEF LogoutSRem, Goto
  <2>2. /\ StoreInv' /\ Guarantee(Own(r))
        /\ hash' = hash /\ owner' = owner /\ ttl' = ttl
        /\ logins' = [logins EXCEPT ![user[r]] = @ \ {key[r]}]
        /\ logins' \in [Users -> SUBSET Keys]
    BY <1>1, <2>1, StoreSRem DEF IInv
  <2>3. key[r] \notin logins'[owner[key[r]]]
    BY <1>1, <2>2 DEF IInv, TypeOK
  <2>4. TypeOK'
    BY <2>1, <2>2 DEF IInv, TypeOK, local, Outcomes
  <2>5. Others(r)
    BY <2>1 DEF IInv, TypeOK, Others, LocalsSame, local
  <2>6. pc'[r] = "ok"
    BY <2>1 DEF IInv, TypeOK
  <2>7. RequestInv(r)'
    BY <1>1, <2>1, <2>2, <2>3, <2>6
       DEF IInv, RequestInv, CreateInv, SnapInv, CheckInv, ResetInv,
           Creating, Counting, Fresh, Live, local
  <2>8. QED
    BY <2>2, <2>4, <2>5, <2>6, <2>7 DEF StepOK, Others, Creating
<1>4. QED
  BY <1>2, <1>3

\* LoginOTP only reads the pad.
LEMMA LookupStep ==
    ASSUME IInv, NEW r \in Requests, Lookup(r)
    PROVE  StepOK(r)
<1>1. CASE Fails(r, UNCHANGED redis)
  BY <1>1, FailQuietStep
<1>2. CASE ~Fails(r, UNCHANGED redis)
  <2>1. /\ UNCHANGED <<redis, issued, local>>
        /\ pc[r] = "lookup" /\ pc' = [pc EXCEPT ![r] = pc'[r]]
        /\ pc'[r] \in {"ok", "error"}
    BY <1>2 DEF Lookup, Goto, At, IInv, TypeOK
  <2>2. StoreInv' /\ Guarantee(Own(r))
    BY <2>1, StoreQuiet DEF IInv
  <2>3. TypeOK'
    BY <2>1 DEF IInv, TypeOK, redis, local, Outcomes
  <2>4. Others(r)
    BY <2>1 DEF IInv, TypeOK, Others, LocalsSame, local
  <2>5. RequestInv(r)'
    BY <2>1 DEF IInv, RequestInv, CreateInv, SnapInv, CheckInv, ResetInv,
                Creating, Counting, Fresh, Live, redis, local
  <2>6. QED
    BY <2>1, <2>2, <2>3, <2>4, <2>5 DEF StepOK, Others, Creating
<1>3. QED
  BY <1>1, <1>2

\* CompleteOTP learns the owner of its pad, for whom it promised to revoke.
LEMMA RedeemStep ==
    ASSUME IInv, NEW r \in Requests, Redeem(r)
    PROVE  StepOK(r)
<1>1. CASE Fails(r, UNCHANGED redis)
  BY <1>1, FailQuietStep
<1>2. CASE ~Fails(r, UNCHANGED redis)
  <2>1. /\ UNCHANGED <<redis, issued, op, key, snap, todo, gone, held>>
        /\ pc[r] = "redeem" /\ pc' = [pc EXCEPT ![r] = pc'[r]]
        /\ \/ pc'[r] = "members" /\ user' = [user EXCEPT ![r] = owner[key[r]]]
           \/ pc'[r] = "error" /\ user' = user
    BY <1>2 DEF Redeem, Goto, At, IInv, TypeOK, local
  <2>2. op[r] = "completeOTP" /\ key[r] \in Keys /\ owner[key[r]] \in Users \cup {NoUser}
    BY <2>1 DEF IInv, TypeOK, RequestInv, ResetInv
  <2>3. StoreInv' /\ Guarantee(Own(r))
    BY <2>1, StoreQuiet DEF IInv
  <2>4. TypeOK'
    BY <2>1, <2>2 DEF IInv, TypeOK, redis, Commands, Outcomes
  <2>5. Others(r)
    BY <2>1 DEF IInv, TypeOK, Others, LocalsSame
  <2>6. pc'[r] = "members" => user'[r] = owner[key[r]]
    BY <2>1 DEF IInv, TypeOK
  <2>7. RequestInv(r)'
    BY <2>1, <2>2, <2>6 DEF IInv, RequestInv, CreateInv, SnapInv, CheckInv, ResetInv,
                            Creating, Counting, Fresh, Live, redis
  <2>8. QED
    BY <2>1, <2>3, <2>4, <2>5, <2>7 DEF StepOK, Others, Creating
<1>3. QED
  BY <1>1, <1>2

\* An empty index means that everything r promised to revoke is dead already.
LEMMA MembersStep ==
    ASSUME IInv, NEW r \in Requests, Members(r)
    PROVE  StepOK(r)
<1>1. CASE Fails(r, UNCHANGED redis)
  BY <1>1, FailQuietStep
<1>2. CASE ~Fails(r, UNCHANGED redis)
  <2>1. /\ UNCHANGED <<redis, issued, op, user, key, gone, held>>
        /\ pc[r] = "members" /\ pc' = [pc EXCEPT ![r] = pc'[r]]
        /\ snap' = [snap EXCEPT ![r] = logins[user[r]]]
        /\ todo' = [todo EXCEPT ![r] = logins[user[r]]]
        /\ pc'[r] = IF logins[user[r]] = {} THEN "ok" ELSE "clear"
    BY <1>2 DEF Members, Goto, At, IInv, TypeOK
  <2>2. /\ op[r] = "completeOTP" /\ key[r] \in held[r] /\ held[r] \subseteq issued
        /\ user[r] = owner[key[r]]
        /\ \A k \in held[r] : owner[k] = user[r]
    BY <2>1 DEF IInv, RequestInv, ResetInv
  <2>3. user[r] \in Users
    BY <2>2 DEF IInv, TypeOK, StoreInv, Fresh
  <2>4. logins[user[r]] \in SUBSET Keys /\ \A k \in logins[user[r]] : ~Fresh(k)
    BY <2>3 DEF IInv, TypeOK, StoreInv
  <2>5. \A k \in held[r] : Live(k) => k \in logins[user[r]]
    BY <2>2 DEF IInv, StoreInv, IssuedIndexed
  <2>6. StoreInv' /\ Guarantee(Own(r))
    BY <2>1, StoreQuiet DEF IInv
  <2>7. TypeOK'
    BY <2>1, <2>4 DEF IInv, TypeOK, redis, Commands, Outcomes
  <2>8. Others(r)
    BY <2>1 DEF IInv, TypeOK, Others, LocalsSame
  <2>9. snap'[r] = logins[user[r]] /\ todo'[r] = logins[user[r]]
    BY <2>1 DEF IInv, TypeOK
  <2>10. RequestInv(r)'
    BY <2>1, <2>2, <2>4, <2>5, <2>9
       DEF IInv, RequestInv, CreateInv, SnapInv, CheckInv, ResetInv,
           Creating, Counting, Fresh, Live, redis
  <2>11. QED
    BY <2>1, <2>6, <2>7, <2>8, <2>10 DEF StepOK, Others, Creating
<1>3. QED
  BY <1>1, <1>2

\* clearTokens kills one member: those still alive are still to be visited.
LEMMA ClearTokenStep ==
    ASSUME IInv, NEW r \in Requests, ClearToken(r)
    PROVE  StepOK(r)
<1>1. PICK k \in todo[r] :
        \/ Fails(r, HDelFields(k, Fields))
        \/ /\ HDelFields(k, Fields)
           /\ todo' = [todo EXCEPT ![r] = @ \ {k}]
           /\ Goto(r, IF todo[r] = {k} THEN "unindex" ELSE "clear")
           /\ UNCHANGED <<issued, op, user, key, snap, gone, held>>
  BY DEF ClearToken
<1>2. k \in Keys /\ pc[r] = "clear" /\ op[r] = "completeOTP"
  BY DEF ClearToken, At, IInv, TypeOK, RequestInv, ResetInv
<1>3. CASE Fails(r, HDelFields(k, Fields))
  <2>1. UNCHANGED issued /\ (HDelFields(k, Fields) \/ UNCHANGED redis)
    BY <1>3 DEF Fails
  <2>2. RedisTypeOK' /\ StoreInv' /\ Guarantee(Own(r))
    BY <1>2, <2>1, StoreHDel, StoreQuiet DEF IInv, TypeOK, RedisTypeOK, redis
  <2>3. QED
    BY <1>3, <2>2, FailStep
<1>4. CASE ~Fails(r, HDelFields(k, Fields))
  <2>1. /\ HDelFields(k, Fields)
        /\ todo' = [todo EXCEPT ![r] = @ \ {k}]
        /\ pc' = [pc EXCEPT ![r] = IF todo[r] = {k} THEN "unindex" ELSE "clear"]
        /\ UNCHANGED <<issued, op, user, key, snap, gone, held>>
    BY <1>1, <1>4 DEF Goto
  <2>2. /\ StoreInv' /\ Guarantee(Own(r))
        /\ owner' = owner /\ logins' = logins
        /\ hash' = [hash EXCEPT ![k] = @ \ Fields]
        /\ hash' \in [Keys -> SUBSET Fields]
        /\ ttl' \in [Keys -> BOOLEAN]
    BY <1>2, <2>1, StoreHDel DEF IInv
  <2>3. /\ hash'[k] = {}
        /\ \A j \in Keys : hash'[j] \subseteq hash[j]
    BY <1>2, <2>2 DEF IInv, TypeOK
  <2>4. TypeOK'
    BY <2>1, <2>2 DEF IInv, TypeOK, Commands
  <2>5. Others(r)
    BY <2>1 DEF IInv, TypeOK, Others, LocalsSame
  <2>6. /\ todo'[r] = todo[r] \ {k}
        /\ pc'[r] = IF todo[r] = {k} THEN "unindex" ELSE "clear"
    BY <2>1 DEF IInv, TypeOK
  <2>7. snap[r] \subseteq Keys /\ todo[r] \subseteq Keys /\ gone[r] \subseteq Keys /\ held[r] \subseteq Keys
    BY DEF IInv, TypeOK
  <2>8. CreateInv(r)' /\ SnapInv(r)' /\ CheckInv(r)'
    BY <1>2, <2>1, <2>2, <2>3, <2>6, <2>7
       DEF IInv, RequestInv, CreateInv, SnapInv, CheckInv, Creating, Counting, Fresh, Live
  <2>9. ResetInv(r)'
    <3>1. \A j \in held[r] \cup snap[r] : hash'[j] # {} => j \in todo[r] \ {k}
      BY <1>2, <2>3, <2>7 DEF IInv, RequestInv, ResetInv, Live
    <3>2. QED
      BY <1>2, <2>1, <2>2, <2>6, <3>1 DEF IInv, RequestInv, ResetInv, Live
  <2>10. QED
    BY <2>2, <2>4, <2>5, <2>6, <2>8, <2>9 DEF StepOK, Others, Creating, RequestInv
<1>5. QED
  BY <1>3, <1>4

\* clearLogins takes out of the index what it cleared, all dead.
LEMMA UnindexStep ==
    ASSUME IInv, NEW r \in Requests, Unindex(r)
    PROVE  StepOK(r)
<1>1. /\ op[r] = "completeOTP" /\ pc[r] = "unindex"
      /\ user[r] = owner[key[r]] /\ key[r] \in issued
      /\ \A k \in snap[r] : ~Live(k)
      /\ \A k \in held[r] : ~Live(k)
  BY DEF Unindex, At, IInv, RequestInv, ResetInv
<1>2. user[r] \in Users
  BY <1>1 DEF IInv, TypeOK, StoreInv, Fresh
<1>3. CASE Fails(r, SRemKeys(user[r], snap[r]))
  <2>1. UNCHANGED issued /\ (SRemKeys(user[r], snap[r]) \/ UNCHANGED redis)
    BY <1>3 DEF Fails
  <2>2. RedisTypeOK' /\ StoreInv' /\ Guarantee(Own(r))
    BY <1>1, <1>2, <2>1, StoreSRem, StoreQuiet DEF IInv, TypeOK, RedisTypeOK, redis
  <2>3. QED
    BY <1>3, <2>2, FailStep
<1>4. CASE ~Fails(r, SRemKeys(user[r], snap[r]))
  <2>1. /\ SRemKeys(user[r], snap[r])
        /\ UNCHANGED <<issued, local>>
        /\ pc' = [pc EXCEPT ![r] = "ok"]
    BY <1>4 DEF Unindex, Goto
  <2>2. /\ StoreInv' /\ Guarantee(Own(r))
        /\ hash' = hash /\ owner' = owner /\ ttl' = ttl
        /\ logins' \in [Users -> SUBSET Keys]
    BY <1>1, <1>2, <2>1, StoreSRem DEF IInv
  <2>3. TypeOK'
    BY <2>1, <2>2 DEF IInv, TypeOK, local, Outcomes
  <2>4. Others(r)
    BY <2>1 DEF IInv, TypeOK, Others, LocalsSame, local
  <2>5. pc'[r] = "ok"
    BY <2>1 DEF IInv, TypeOK
  <2>6. RequestInv(r)'
    BY <1>1, <2>1, <2>2, <2>5
       DEF IInv, RequestInv, CreateInv, SnapInv, CheckInv, ResetInv,
           Creating, Counting, Fresh, Live, local
  <2>7. QED
    BY <2>2, <2>3, <2>4, <2>5, <2>6 DEF StepOK, Others, Creating
<1>5. QED
  BY <1>3, <1>4

\* A call that is over leaves nothing behind that others rely on.
LEMMA ReplyStep ==
    ASSUME IInv, NEW r \in Requests, Reply(r)
    PROVE  StepOK(r)
<1>1. /\ UNCHANGED <<redis, issued>>
      /\ pc'[r] = "idle" /\ op'[r] = "none" /\ user'[r] = NoUser /\ key'[r] = NoKey
      /\ snap'[r] = {} /\ todo'[r] = {} /\ gone'[r] = {} /\ held'[r] = {}
  BY DEF Reply, Goto, IInv, TypeOK
<1>2. StoreInv' /\ Guarantee(Own(r))
  BY <1>1, StoreQuiet DEF IInv
<1>3. TypeOK'
  BY DEF Reply, Goto, IInv, TypeOK, redis, Ops
<1>4. Others(r)
  BY DEF Reply, Goto, IInv, TypeOK, Others, LocalsSame
<1>5. RequestInv(r)'
  BY <1>1 DEF RequestInv, CreateInv, SnapInv, CheckInv, ResetInv, Creating, Counting
<1>6. QED
  BY <1>1, <1>2, <1>3, <1>4, <1>5 DEF StepOK, Others, Creating

\* Every step of a request keeps the store, its own knowledge and that of others.
LEMMA RequestStep ==
    ASSUME IInv, NEW r \in Requests, Request(r)
    PROVE  StepOK(r)
BY CallStep, CountStep, ProbeStep, SweepStep, HSetStep, SetExpiryStep, SAddStep,
   CheckExistsStep, TouchStep, LogoutUserStep, LogoutHDelStep, LogoutSRemStep,
   LookupStep, RedeemStep, MembersStep, ClearTokenStep, UnindexStep, ReplyStep
   DEF Request

\* The step of one request keeps the invariant of all.
LEMMA RequestKeepsIInv ==
    ASSUME IInv, NEW r \in Requests, Request(r)
    PROVE  IInv'
<1>1. StepOK(r)
  BY RequestStep
<1>2. Own(r) \cap issued = {}
  BY DEF IInv, RequestInv, CreateInv, Own, Creating
<1>3. ASSUME NEW q \in Requests, q # r
      PROVE  RequestInv(q)'
  <2>1. pc[q] \in Creating => key[q] \notin Own(r)
    BY <1>3 DEF IInv, NewKeysDistinct, Own, Creating
  <2>2. QED
    BY <1>1, <1>2, <1>3, <2>1, Interference DEF IInv, StepOK
<1>4. \A q \in Requests : RequestInv(q)'
  BY <1>1, <1>3 DEF StepOK
<1>5. NewKeysDistinct'
  <2>1. SUFFICES ASSUME NEW p \in Requests, NEW q \in Requests, p # q,
                        pc'[p] \in Creating, pc'[q] \in Creating
                 PROVE  key'[p] # key'[q]
    BY DEF NewKeysDistinct
  <2>2. \A s \in Requests : pc[s] \in Creating => ~Fresh(key[s])
    BY DEF IInv, RequestInv, CreateInv
  <2>3. \A s \in {p, q} : s # r => pc[s] \in Creating /\ key'[s] = key[s]
    BY <1>1, <2>1 DEF StepOK, LocalsSame
  <2>4. \A s \in {p, q} : s = r => \/ pc[s] \in Creating /\ key'[s] = key[s]
                                   \/ Fresh(key'[s])
    BY <1>1, <2>1 DEF StepOK
  <2>5. QED
    BY <2>1, <2>2, <2>3, <2>4 DEF IInv, NewKeysDistinct
<1>6. QED
  BY <1>1, <1>4, <1>5 DEF IInv, StepOK

\* The environment makes no key known: every request relies on no more.
LEMMA EnvironmentKeepsIInv ==
    ASSUME IInv, (\E k \in Keys : KeyExpires(k)) \/ RedisRestarts
    PROVE  IInv' /\ Guarantee({})
<1>1. /\ \A k \in Keys : hash'[k] \in {hash[k], {}} /\ (hash'[k] # {} => ttl'[k] = ttl[k])
      /\ \A u \in Users : logins'[u] \subseteq logins[u]
      /\ \A u \in Users : \A k \in logins[u] : hash'[k] # {} => k \in logins'[u]
      /\ UNCHANGED <<owner, issued, pc, local>>
  <2>1. ASSUME NEW k \in Keys, KeyExpires(k)
        PROVE  /\ \A j \in Keys : hash'[j] \in {hash[j], {}} /\ (hash'[j] # {} => ttl'[j] = ttl[j])
               /\ UNCHANGED <<logins, owner, issued, pc, local>>
    BY <2>1 DEF KeyExpires, IInv, TypeOK
  <2>2. CASE RedisRestarts
    BY <2>2 DEF RedisRestarts, IInv, TypeOK
  <2>3. QED
    BY <2>1, <2>2
<1>2. TypeOK'
  BY DEF KeyExpires, RedisRestarts, IInv, TypeOK, local
<1>3. Guarantee({})
  BY <1>1 DEF Guarantee, Live
<1>4. StoreInv'
  <2>1. \A k \in issued : k \in Keys /\ (~Fresh(k)) /\ owner[k] \in Users
    BY DEF IInv, TypeOK, StoreInv, Fresh
  <2>2. \A u \in Users : logins[u] \subseteq Keys
    BY DEF IInv, TypeOK
  <2>3. IssuedIndexed'
    BY <1>1, <2>1 DEF IInv, StoreInv, IssuedIndexed, Live
  <2>4. HeldKeysExpire'
    BY <1>1, <2>1, <2>2 DEF IInv, StoreInv, HeldKeysExpire, Live
  <2>5. IndexHasOwnKeys'
    BY <1>1 DEF IInv, StoreInv, IndexHasOwnKeys
  <2>6. \A k \in Tokens : hash'[k] \subseteq {"userid", "remote"}
    BY <1>1 DEF IInv, StoreInv, Keys
  <2>7. \A k \in Keys : Fresh(k) => /\ hash'[k] = {} /\ k \notin issued
                                   /\ \A u \in Users : k \notin logins'[u]
    BY <1>1 DEF IInv, StoreInv, Live
  <2>8. QED
    BY <1>1, <2>3, <2>4, <2>5, <2>6, <2>7 DEF StoreInv, Fresh, Live
<1>5. ASSUME NEW q \in Requests
      PROVE  RequestInv(q)'
  <2>1. LocalsSame(q)
    BY <1>1 DEF LocalsSame, local
  <2>2. QED
    BY <1>3, <2>1, Interference DEF IInv
<1>6. NewKeysDistinct'
  BY <1>1 DEF IInv, NewKeysDistinct, local
<1>7. QED
  BY <1>2, <1>3, <1>4, <1>5, <1>6 DEF IInv

\* A crash of the service keeps the invariant: Redis is as it was.
LEMMA CrashKeepsIInv ==
    ASSUME IInv, ServerCrashes
    PROVE  IInv' /\ Guarantee({})
<1>1. UNCHANGED <<redis, issued>>
  BY DEF ServerCrashes
<1>2. StoreInv' /\ Guarantee({})
  BY <1>1, StoreQuiet DEF IInv
<1>3. TypeOK'
  BY <1>1 DEF ServerCrashes, IInv, TypeOK, redis, Ops
<1>4. \A r \in Requests : RequestInv(r)'
  BY DEF ServerCrashes, RequestInv, CreateInv, SnapInv, CheckInv, ResetInv, Creating, Counting
<1>5. NewKeysDistinct'
  BY DEF ServerCrashes, NewKeysDistinct, Creating
<1>6. QED
  BY <1>2, <1>3, <1>4, <1>5 DEF IInv

\* A stuttering step keeps the invariant.
LEMMA StutterKeepsIInv ==
    ASSUME IInv, UNCHANGED vars
    PROVE  IInv'
BY DEF vars, redis, local, IInv, TypeOK, StoreInv, NewKeysDistinct, RequestInv, CreateInv,
       SnapInv, CheckInv, ResetInv, IndexHasOwnKeys, IssuedIndexed, HeldKeysExpire, Fresh, Live

\* The invariant holds with Redis empty and no calls.
LEMMA InitIInv == Init => IInv
<1> SUFFICES ASSUME Init PROVE IInv
  OBVIOUS
<1>1. TypeOK
  BY DEF Init, TypeOK, Ops
<1>2. StoreInv
  BY DEF Init, StoreInv, IndexHasOwnKeys, IssuedIndexed, HeldKeysExpire, Fresh, Live, Keys
<1>3. \A r \in Requests : RequestInv(r)
  BY DEF Init, RequestInv, CreateInv, SnapInv, CheckInv, ResetInv, Creating, Counting
<1>4. NewKeysDistinct
  BY DEF Init, NewKeysDistinct, Creating
<1>5. QED
  BY <1>1, <1>2, <1>3, <1>4 DEF IInv

\* Every step keeps the invariant.
LEMMA NextIInv == IInv /\ [Next]_vars => IInv'
<1> SUFFICES ASSUME IInv, [Next]_vars PROVE IInv'
  OBVIOUS
<1>1. QED
  BY RequestKeepsIInv, EnvironmentKeepsIInv, CrashKeepsIInv, StutterKeepsIInv DEF Next

\* The inductive invariant: what Redis holds, and what each call in progress
\* knows of it and relies on.
THEOREM SpecIInv == Spec => []IInv
BY InitIInv, NextIInv, PTL DEF Spec
-----------------------------------------------------------------------------
(* The properties, for every number of requests, users, tokens and pads.   *)

\* Every variable keeps its type.
THEOREM TypeCorrect == Spec => []TypeOK
<1>1. IInv => TypeOK
  BY DEF IInv
<1>2. QED
  BY <1>1, SpecIInv, PTL

\* A password reset can reach every credential a client can use: the live keys
\* that were issued are in the index clearLogins reads.
THEOREM IssuedAreIndexed == Spec => []IssuedIndexed
<1>1. IInv => IssuedIndexed
  BY DEF IInv, StoreInv
<1>2. QED
  BY <1>1, SpecIInv, PTL

\* No issued or counted key lives for ever, although its expiry is set by a
\* command of its own.
THEOREM HeldKeysDoExpire == Spec => []HeldKeysExpire
<1>1. IInv => HeldKeysExpire
  BY DEF IInv, StoreInv
<1>2. QED
  BY <1>1, SpecIInv, PTL

\* An acknowledged CompleteOTP has revoked all its user held when it started.
THEOREM ResetDoesRevoke == Spec => []ResetRevokes
<1>1. IInv => ResetRevokes
  BY DEF IInv, RequestInv, ResetInv, ResetRevokes
<1>2. QED
  BY <1>1, SpecIInv, PTL

\* An acknowledged Logout has revoked its token and freed its slot.
THEOREM LogoutDoesRevoke == Spec => []LogoutRevokes
<1>1. IInv => LogoutRevokes
  BY DEF IInv, RequestInv, CheckInv, LogoutRevokes
<1>2. QED
  BY <1>1, SpecIInv, PTL

\* Every step honours what calls rely on: dead keys stay dead, owners stay.
LEMMA NextGuarantee ==
    ASSUME IInv, [Next]_vars
    PROVE  \E own : Guarantee(own)
<1>1. CASE \E r \in Requests : Request(r)
  BY <1>1, RequestStep DEF StepOK
<1>2. CASE UNCHANGED vars
  BY <1>2, StoreQuiet DEF IInv, vars
<1>3. QED
  BY <1>1, <1>2, EnvironmentKeepsIInv, CrashKeepsIInv DEF Next

\* A key that was used once and is dead stays dead.
THEOREM DeadStaysDead == Spec => NoResurrection
<1>1. IInv /\ [Next]_vars => [\A k \in Keys : ~Fresh(k) /\ ~Live(k) => ~Live(k)']_vars
  <2> SUFFICES ASSUME IInv, [Next]_vars, NEW k \in Keys, ~Fresh(k), ~Live(k)
               PROVE  hash'[k] = {}
    BY DEF Live
  <2>1. QED
    BY NextGuarantee DEF Guarantee, Live
<1>2. QED
  BY <1>1, SpecIInv, PTL DEF Spec, NoResurrection
-----------------------------------------------------------------------------
(* The validator implements the promise of module Credentials.             *)

Statuses == [k \in Keys |-> Status(k)]
Phases   == [r \in Requests |-> Phase(r)]

\* Nothing is issued, reserved, begun or acknowledged: keys may die.
LEMMA AbstractDie ==
    ASSUME TypeOK, UNCHANGED <<issued, owner, held>>, Phases' = Phases,
           \A k \in issued : hash[k] = {} => hash'[k] = {}
    PROVE  Promise!Next
<1> DEFINE ks == {k \in issued : Live(k) /\ ~Live(k)'}
<1>1. ks \in SUBSET Keys /\ \A k \in ks : Status(k) = "alive"
  BY DEF TypeOK, Status
<1>2. Statuses' = [k \in Keys |-> IF k \in ks THEN "dead" ELSE Statuses[k]]
  BY DEF Statuses, Status, Live, TypeOK
<1>3. Promise!Die(ks)
  BY <1>1, <1>2 DEF Promise!Die, Statuses, Phases
<1>4. QED
  BY <1>1, <1>3 DEF Promise!Next

\* A uuid gets its owner: Reserve.
LEMMA AbstractReserve ==
    ASSUME TypeOK, NEW k \in Keys, NEW u \in Users, Fresh(k), k \notin issued,
           UNCHANGED <<issued, held>>, Phases' = Phases,
           owner' = [owner EXCEPT ![k] = u],
           \A j \in Keys \ {k} : hash'[j] = hash[j]
    PROVE  Promise!Next
<1>1. Statuses' = Statuses /\ Statuses[k] = "unknown"
  BY DEF Statuses, Status, Live, TypeOK
<1>2. Promise!Reserve(k, u)
  BY <1>1 DEF Promise!Reserve, Statuses, Phases, Fresh
<1>3. QED
  BY <1>2 DEF Promise!Next

\* A key is handed out: Issue.
LEMMA AbstractIssue ==
    ASSUME TypeOK, NEW k \in Keys, ~Fresh(k), k \notin issued,
           UNCHANGED <<hash, owner, held>>, Phases' = Phases,
           issued' = issued \cup {k}
    PROVE  Promise!Next
<1> DEFINE s == IF Live(k) THEN "alive" ELSE "dead"
<1>1. Statuses' = [Statuses EXCEPT ![k] = s] /\ Statuses[k] = "unknown"
  BY DEF Statuses, Status, Live, TypeOK
<1>2. Promise!Issue(k)
  BY <1>1 DEF Promise!Issue, Statuses, Phases, Fresh
<1>3. QED
  BY <1>2 DEF Promise!Next

\* A logout or a redemption starts: BeginRevoke.
LEMMA AbstractBegin ==
    ASSUME TypeOK, NEW r \in Requests, NEW ks \in SUBSET Keys,
           \/ \E k \in issued : ks = {k}
           \/ \E u \in Users : ks = {k \in issued : owner[k] = u},
           UNCHANGED <<redis, issued>>,
           Phase(r) = "idle", Phases' = [Phases EXCEPT ![r] = "revoking"],
           held' = [held EXCEPT ![r] = ks]
    PROVE  Promise!Next
<1>1. Statuses' = Statuses /\ owner' = owner
  BY DEF Statuses, Status, Live, redis
<1>2. {k \in Keys : Statuses[k] # "unknown"} = issued
  BY DEF Statuses, Status, TypeOK
<1>3. Promise!IssuedKeys = issued
  BY <1>2 DEF Promise!IssuedKeys, Statuses
<1>4. Promise!BeginRevoke(r, ks)
  BY <1>1, <1>3 DEF Promise!BeginRevoke, Statuses, Phases
<1>5. QED
  BY <1>4 DEF Promise!Next

\* A logout or a redemption succeeds: Acknowledge.
LEMMA AbstractAcknowledge ==
    ASSUME TypeOK, NEW r \in Requests, UNCHANGED <<issued, owner, hash, held>>,
           Phase(r) = "revoking", Phases' = [Phases EXCEPT ![r] = "acked"],
           held[r] \subseteq issued, \A k \in held[r] : ~Live(k)
    PROVE  Promise!Next
<1>1. Statuses' = Statuses /\ \A k \in held[r] : Statuses[k] = "dead"
  BY DEF Statuses, Status, Live, TypeOK
<1>2. Promise!Acknowledge(r)
  BY <1>1 DEF Promise!Acknowledge, Statuses, Phases
<1>3. QED
  BY <1>2 DEF Promise!Next

\* Calls end: Forget.
LEMMA AbstractForget ==
    ASSUME TypeOK, NEW rs \in SUBSET Requests, UNCHANGED <<redis, issued>>,
           Phases' = [r \in Requests |-> IF r \in rs THEN "idle" ELSE Phases[r]],
           held' = [r \in Requests |-> IF r \in rs THEN {} ELSE held[r]]
    PROVE  Promise!Next
<1>1. Statuses' = Statuses /\ owner' = owner
  BY DEF Statuses, Status, Live, redis
<1>2. Promise!Forget(rs)
  BY <1>1 DEF Promise!Forget, Statuses, Phases
<1>3. QED
  BY <1>2 DEF Promise!Next

\* Only the outcome of a revocation is seen from outside.
LEMMA PhasesSame ==
    ASSUME TypeOK, NEW r \in Requests, Others(r), op'[r] = op[r],
           op[r] \in {"logout", "completeOTP"} => pc[r] # "ok" /\ pc'[r] # "ok"
    PROVE  Phases' = Phases
BY DEF Phases, Phase, Others, LocalsSame

\* A step that neither issues nor starts, ends or acknowledges a revocation.
LEMMA QuietStep ==
    ASSUME IInv, NEW r \in Requests, StepOK(r), UNCHANGED <<issued, owner, held, op>>,
           pc[r] # "ok",
           op[r] \in {"logout", "completeOTP"} => pc'[r] # "ok"
    PROVE  Promise!Next
<1>1. Phases' = Phases
  BY PhasesSame DEF IInv, StepOK, Others
<1>2. \A k \in issued : hash[k] = {} => hash'[k] = {}
  BY DEF IInv, TypeOK, StoreInv, StepOK, Guarantee
<1>3. QED
  BY <1>1, <1>2, AbstractDie DEF IInv

\* A last command that succeeds acknowledges: the promised keys are dead.
LEMMA AcknowledgeStep ==
    ASSUME IInv, NEW r \in Requests, StepOK(r), UNCHANGED <<issued, owner, hash, held, op>>,
           op[r] \in {"logout", "completeOTP"}, pc[r] # "ok", pc' = [pc EXCEPT ![r] = "ok"]
    PROVE  Promise!Next
<1>1. pc'[r] = "ok"
  BY DEF IInv, TypeOK
<1>2. Phase(r) = "revoking" /\ Phases' = [Phases EXCEPT ![r] = "acked"]
  BY <1>1 DEF Phase, Phases, StepOK, LocalsSame
<1>3. held[r] \subseteq issued
  BY DEF IInv, RequestInv, CheckInv, ResetInv
<1>4. \A k \in held[r] : ~Live(k)
  BY <1>1 DEF StepOK, RequestInv, CheckInv, ResetInv, Live
<1>5. QED
  BY <1>2, <1>3, <1>4, AbstractAcknowledge DEF IInv

\* The start of a call is BeginRevoke or a stutter.
LEMMA CallImplements ==
    ASSUME IInv, NEW r \in Requests, StepOK(r),
           Login(r) \/ OTP(r) \/ Valid(r) \/ Logout(r) \/ LoginOTP(r) \/ CompleteOTP(r)
    PROVE  Promise!Next
<1>1. pc[r] = "idle" /\ op[r] = "none" /\ UNCHANGED <<redis, issued>>
  BY DEF Login, OTP, Valid, Logout, LoginOTP, CompleteOTP, Call, At, IInv, RequestInv, CheckInv
<1>2. Phase(r) = "idle"
  BY <1>1 DEF Phase
<1>3. CASE Login(r) \/ OTP(r) \/ Valid(r) \/ LoginOTP(r)
  <2>1. op'[r] \in {"login", "otp", "valid", "loginOTP"} /\ UNCHANGED held
    BY <1>3 DEF Login, OTP, Valid, LoginOTP, Call, IInv, TypeOK
  <2>2. Phases' = Phases
    BY <1>1, <2>1 DEF Phases, Phase, StepOK, LocalsSame
  <2>3. QED
    BY <1>1, <2>1, <2>2, AbstractDie DEF IInv, redis
<1>4. CASE Logout(r) \/ CompleteOTP(r)
  <2>1. op'[r] \in {"logout", "completeOTP"} /\ pc'[r] # "ok"
    BY <1>4 DEF Logout, CompleteOTP, Call, Goto, IInv, TypeOK
  <2>2. Phases' = [Phases EXCEPT ![r] = "revoking"]
    BY <2>1 DEF Phases, Phase, StepOK, LocalsSame
  <2>3. PICK ks \in SUBSET Keys :
          /\ held' = [held EXCEPT ![r] = ks]
          /\ \/ \E k \in issued : ks = {k}
             \/ \E u \in Users : ks = {k \in issued : owner[k] = u}
    <3>1. CASE Logout(r)
      BY <3>1 DEF Logout, Keys
    <3>2. CASE CompleteOTP(r)
      <4>1. PICK k \in issued : held' = [held EXCEPT ![r] = {j \in issued : owner[j] = owner[k]}]
        BY <3>2 DEF CompleteOTP
      <4>2. owner[k] \in Users /\ {j \in issued : owner[j] = owner[k]} \in SUBSET Keys
        BY DEF IInv, TypeOK, StoreInv, Fresh
      <4>3. QED
        BY <4>1, <4>2
    <3>3. QED
      BY <1>4, <3>1, <3>2
  <2>4. QED
    BY <1>1, <1>2, <2>2, <2>3, AbstractBegin DEF IInv
<1>5. QED
  BY <1>3, <1>4

\* The end of a call is Forget or a stutter.
LEMMA ReplyImplements ==
    ASSUME IInv, NEW r \in Requests, Reply(r)
    PROVE  Promise!Next
<1>1. /\ UNCHANGED <<redis, issued>>
      /\ held' = [q \in Requests |-> IF q \in {r} THEN {} ELSE held[q]]
      /\ op'[r] = "none"
      /\ \A q \in Requests : q # r => op'[q] = op[q] /\ pc'[q] = pc[q]
  BY DEF Reply, Goto, IInv, TypeOK
<1>2. Phases' = [q \in Requests |-> IF q \in {r} THEN "idle" ELSE Phases[q]]
  BY <1>1 DEF Phases, Phase
<1>3. QED
  BY <1>1, <1>2, AbstractForget DEF IInv

\* A login or a pad comes to life: its uuid is reserved, later it is issued.
LEMMA CreateImplements ==
    ASSUME IInv, NEW r \in Requests, StepOK(r), HSet(r) \/ SAdd(r)
    PROVE  Promise!Next
<1>1. op[r] \in {"login", "otp"} /\ user[r] \in Users /\ pc[r] # "ok"
  BY DEF HSet, SAdd, At, IInv, RequestInv, CreateInv, Creating, Counting
<1>2. UNCHANGED <<op, held>>
  BY DEF HSet, SAdd, Fails, local
<1>3. Phases' = Phases
  BY <1>1, <1>2, PhasesSame DEF IInv, StepOK, Others
<1>4. CASE HSet(r)
  <2>1. \/ UNCHANGED <<redis, issued>>
        \/ \E k \in NewKeys(r) : Fresh(k) /\ HSetKey(k, user[r], NewFields(r)) /\ UNCHANGED issued
    BY <1>4 DEF HSet, Fails
  <2>2. CASE UNCHANGED <<redis, issued>>
    BY <1>2, <1>3, <2>2, AbstractDie DEF IInv, redis
  <2>3. CASE \E k \in NewKeys(r) : Fresh(k) /\ HSetKey(k, user[r], NewFields(r)) /\ UNCHANGED issued
    <3>1. PICK k \in NewKeys(r) :
            Fresh(k) /\ HSetKey(k, user[r], NewFields(r)) /\ UNCHANGED issued
      BY <2>3
    <3>2. k \in Keys
      BY DEF NewKeys, Keys
    <3>3. /\ owner' = [owner EXCEPT ![k] = user[r]] /\ UNCHANGED issued
          /\ \A j \in Keys \ {k} : hash'[j] = hash[j]
      BY <3>1, <3>2 DEF HSetKey, IInv, TypeOK
    <3>4. k \notin issued
      BY <3>1, <3>2 DEF IInv, StoreInv
    <3>5. QED
      BY <1>1, <1>2, <1>3, <3>1, <3>2, <3>3, <3>4, AbstractReserve DEF IInv
  <2>4. QED
    BY <2>1, <2>2, <2>3
<1>5. CASE SAdd(r)
  <2>1. /\ UNCHANGED <<hash, owner>>
        /\ issued' \in {issued, issued \cup {key[r]}}
    BY <1>5 DEF SAdd, SAddKey, Fails, redis
  <2>2. key[r] \in Keys /\ ~Fresh(key[r]) /\ key[r] \notin issued
    BY <1>5 DEF SAdd, At, IInv, RequestInv, CreateInv, Creating
  <2>3. CASE issued' = issued
    BY <1>2, <1>3, <2>1, <2>3, AbstractDie DEF IInv
  <2>4. CASE issued' = issued \cup {key[r]}
    BY <1>2, <1>3, <2>1, <2>2, <2>4, AbstractIssue DEF IInv
  <2>5. QED
    BY <2>1, <2>3, <2>4
<1>6. QED
  BY <1>4, <1>5

\* The commands of checkCount, of a check and of a revocation still going on.
LEMMA CommandImplements ==
    ASSUME IInv, NEW r \in Requests, StepOK(r),
           \/ CountMembers(r) \/ Probe(r) \/ Sweep(r) \/ SetExpiry(r)
           \/ CheckExists(r) \/ Touch(r) \/ LogoutUser(r) \/ LogoutHDel(r)
           \/ Lookup(r) \/ Redeem(r) \/ ClearToken(r)
    PROVE  Promise!Next
<1>1. UNCHANGED <<issued, owner, held, op>>
  BY DEF CountMembers, Probe, Sweep, SetExpiry, CheckExists, Touch, LogoutUser, LogoutHDel,
         Lookup, Redeem, ClearToken, Fails, SRemKeys, ExpireKey, HDelFields, redis, local
<1>2. pc[r] # "ok"
  BY DEF CountMembers, Probe, Sweep, SetExpiry, CheckExists, Touch, LogoutUser, LogoutHDel,
         Lookup, Redeem, ClearToken, At
<1>3. op[r] \in {"logout", "completeOTP"} => pc'[r] # "ok"
  <2>1. CASE Touch(r)
    BY <2>1 DEF Touch, Fails, Goto, At, IInv, TypeOK, RequestInv, CheckInv
  <2>2. CASE Lookup(r)
    BY <2>2 DEF Lookup, At, IInv, RequestInv, ResetInv
  <2>3. CASE Probe(r)
    BY <2>3 DEF Probe, At, IInv, RequestInv, CreateInv, Counting
  <2>4. CASE ClearToken(r)
    BY <2>4 DEF ClearToken, Fails, Goto, IInv, TypeOK
  <2>5. CASE CountMembers(r) \/ Sweep(r) \/ SetExpiry(r)
    BY <2>5 DEF CountMembers, Sweep, SetExpiry, At, IInv, RequestInv, CreateInv, Counting, Creating
  <2>6. CASE CheckExists(r) \/ LogoutUser(r) \/ LogoutHDel(r) \/ Redeem(r)
    BY <2>6 DEF CheckExists, LogoutUser, LogoutHDel, Redeem, Fails, Goto, IInv, TypeOK
  <2>7. QED
    BY <2>1, <2>2, <2>3, <2>4, <2>5, <2>6
<1>4. QED
  BY <1>1, <1>2, <1>3, QuietStep

\* The commands after which a revocation may be acknowledged.
LEMMA LastCommandImplements ==
    ASSUME IInv, NEW r \in Requests, StepOK(r),
           LogoutSRem(r) \/ Members(r) \/ Unindex(r)
    PROVE  Promise!Next
<1>1. /\ UNCHANGED <<issued, owner, hash, held, op>>
      /\ pc[r] # "ok"
  BY DEF LogoutSRem, Members, Unindex, At, Fails, SRemKeys, redis, local
<1>2. op[r] \in {"logout", "completeOTP"}
  BY DEF LogoutSRem, Members, Unindex, At, IInv, RequestInv, CheckInv, ResetInv
<1>3. pc' = [pc EXCEPT ![r] = "ok"] \/ pc'[r] # "ok"
  BY DEF LogoutSRem, Members, Unindex, Fails, Goto, IInv, TypeOK
<1>4. QED
  BY <1>1, <1>2, <1>3, QuietStep, AcknowledgeStep

\* Every step of a request is a step of Credentials or a stutter.
LEMMA RequestImplements ==
    ASSUME IInv, NEW r \in Requests, Request(r)
    PROVE  Promise!Next
<1>1. StepOK(r)
  BY RequestStep
<1>2. QED
  BY <1>1, CallImplements, ReplyImplements, CreateImplements, CommandImplements,
     LastCommandImplements DEF Request

\* Expiry, restarts and crashes are Die, Forget or stutters.
LEMMA EnvironmentImplements ==
    ASSUME IInv, (\E k \in Keys : KeyExpires(k)) \/ RedisRestarts \/ ServerCrashes
    PROVE  Promise!Next
<1>1. CASE (\E k \in Keys : KeyExpires(k)) \/ RedisRestarts
  <2>1. UNCHANGED <<issued, owner, held, pc, op>>
    BY <1>1 DEF KeyExpires, RedisRestarts, local
  <2>2. Phases' = Phases
    BY <2>1 DEF Phases, Phase
  <2>3. \A k \in issued : hash[k] = {} => hash'[k] = {}
    BY <1>1, EnvironmentKeepsIInv DEF IInv, TypeOK, StoreInv, Guarantee
  <2>4. QED
    BY <2>1, <2>2, <2>3, AbstractDie DEF IInv
<1>2. CASE ServerCrashes
  <2>1. /\ UNCHANGED <<redis, issued>>
        /\ held' = [q \in Requests |-> IF q \in Requests THEN {} ELSE held[q]]
        /\ \A q \in Requests : op'[q] = "none"
    BY <1>2 DEF ServerCrashes
  <2>2. Phases' = [q \in Requests |-> IF q \in Requests THEN "idle" ELSE Phases[q]]
    BY <2>1 DEF Phases, Phase
  <2>3. QED
    BY <2>1, <2>2, AbstractForget DEF IInv
<1>3. QED
  BY <1>1, <1>2

\* The Redis protocol implements the promise: every key is issued once, dies
\* once, and an acknowledged revocation has killed what it promised to kill.
THEOREM ValidatorKeepsPromise == Spec => KeepsPromise
<1>1. Init => Promise!Init
  BY DEF Init, Promise!Init, Status, Phase
<1>2. IInv /\ [Next]_vars => [Promise!Next]_Promise!vars
  <2> SUFFICES ASSUME IInv, [Next]_vars PROVE [Promise!Next]_Promise!vars
    OBVIOUS
  <2>1. CASE UNCHANGED vars
    <3>1. UNCHANGED <<hash, owner, issued, pc, op, held>>
      BY <2>1 DEF vars, redis, local
    <3>2. QED
      BY <3>1 DEF Promise!vars, Status, Phase, Live
  <2>2. QED
    BY <2>1, RequestImplements, EnvironmentImplements DEF Next
<1>3. QED
  BY <1>1, <1>2, SpecIInv, PTL DEF Spec, KeepsPromise, Promise!Spec
=============================================================================
