--------------------------- MODULE ResetFlowProofs ---------------------------
(***************************************************************************)
(* For every number of requests, users, passwords and keys: TypeOK,        *)
(* PasswordIsOwners and MailedIsIndexed are invariants of ResetFlow.       *)
(*                                                                         *)
(* PasswordIsOwners needs to know what a request has shown when it comes   *)
(* to write, and that the password it read is one of the owner's.          *)
(* MailedIsIndexed needs that a pad on its way to the mail is indexed and  *)
(* that its key is never used again.                                       *)
(***************************************************************************)
EXTENDS ResetFlow, TLAPS

\* A key that was ever used has its user.
KeysInv == \A k \in alive \cup mailed : owner[k] \in Users

\* What is known of a request by where it is: the key it has was made for
\* somebody; a password that is written back is one of the owner's; whoever writes
\* has shown to be the owner; a redemption has shown the pad's user.
KeyInv(r)   == job[r].key # None => owner[job[r].key] \in Users
ReadInv(r)  == pc[r] \in {"miss", "hit"} => job[r].read \in chosen[job[r].user]
ProofInv(r) == pc[r] \in {"hit", "store", "resetStore", "select"} => job[r].user \in proof[r]
PadInv(r)   == pc[r] \in {"members", "clear"} =>
                   job[r].key # None /\ proof[r] = {owner[job[r].key]}
NewInv(r)   == /\ pc[r] \in {"store", "select"} => job[r].new # None
               /\ pc[r] # "idle" => job[r].user \in Users
MadeInv(r)  == pc[r] = "index" =>
                   job[r].key \in IF job[r].kind = "forgot" THEN Pads ELSE Tokens
MailInv(r)  == pc[r] = "mail" =>
                   /\ job[r].key \in Pads \cup {None}
                   /\ job[r].key \in Pads \cap alive => job[r].key \in index

RequestInv(r) ==
    /\ KeyInv(r) /\ ReadInv(r) /\ ProofInv(r) /\ PadInv(r)
    /\ NewInv(r) /\ MadeInv(r) /\ MailInv(r)

IInv ==
    /\ TypeOK /\ KeysInv /\ PasswordIsOwners /\ MailedIsIndexed
    /\ \A r \in Requests : RequestInv(r)
-----------------------------------------------------------------------------
\* What every step does to the keys and passwords others depend on.
Grows ==
    /\ \A k \in Keys : owner[k] \in Users => owner'[k] = owner[k]
    /\ \A u \in Users : chosen[u] \subseteq chosen'[u]
    /\ \A k \in Keys : owner[k] \in Users /\ k \in alive' =>
           k \in alive /\ (k \in index => k \in index')

\* What is known of a request stays known while its variables do.
LEMMA Kept ==
    ASSUME TypeOK, Grows, NEW r \in Requests, RequestInv(r),
           pc'[r] = pc[r], job'[r] = job[r], proof'[r] = proof[r]
    PROVE  RequestInv(r)'
<1>1. job[r] \in Jobs /\ None \notin Keys
  BY NoneElse DEF TypeOK
<1>2. job[r].key # None => job[r].key \in Keys /\ owner'[job[r].key] = owner[job[r].key]
  BY <1>1 DEF RequestInv, Grows, KeyInv, Jobs
<1>3. KeyInv(r)' /\ PadInv(r)' /\ MadeInv(r)' /\ ProofInv(r)' /\ NewInv(r)'
  BY <1>2 DEF RequestInv, KeyInv, PadInv, MadeInv, ProofInv, NewInv
<1>4. ReadInv(r)'
  BY DEF RequestInv, Grows, ReadInv, NewInv
<1>5. MailInv(r)'
  BY <1>1, <1>2 DEF RequestInv, Grows, KeyInv, MailInv, Keys
<1>6. QED
  BY <1>3, <1>4, <1>5 DEF RequestInv

\* The variables of the requests after a step of r.
StepOK(r) ==
    /\ pc' \in [Requests -> {"idle", "ok"} \cup Steps]
    /\ job' \in [Requests -> Jobs]
    /\ proof' \in [Requests -> SUBSET Users]
    /\ \A q \in Requests \ {r} : pc'[q] = pc[q] /\ job'[q] = job[q] /\ proof'[q] = proof[q]

\* The rest of the types.
StoresOK ==
    /\ pass'   \in [Users -> Secrets]
    /\ owner'  \in [Keys -> Users \cup {None}]
    /\ alive'  \in SUBSET Keys
    /\ index'  \in SUBSET alive'
    /\ issued' \in SUBSET (Tokens \cap alive')
    /\ mailed' \in SUBSET Pads
    /\ chosen' \in [Users -> SUBSET Secrets]
    /\ before' \in [Requests -> SUBSET (Tokens \cup Requests)]
    /\ old'    \in SUBSET (Tokens \cup Requests)

\* A step of r preserves the invariant when it does so for r and the stores.
LEMMA Step ==
    ASSUME IInv, NEW r \in Requests, StepOK(r), StoresOK, Grows,
           KeysInv', PasswordIsOwners', MailedIsIndexed',
           RequestInv(r)'
    PROVE  IInv'
<1>1. TypeOK'
  BY DEF StepOK, StoresOK, TypeOK
<1>2. ASSUME NEW q \in Requests
      PROVE  RequestInv(q)'
  <2>1. CASE q = r
    BY <2>1
  <2>2. CASE q # r
    BY <2>2, Kept DEF IInv, StepOK
  <2>3. QED
    BY <2>1, <2>2
<1>3. QED
  BY <1>1, <1>2 DEF IInv

\* Where a step goes.
LEMMA GotoType ==
    ASSUME TypeOK, NEW r \in Requests, NEW l \in {"idle", "ok"} \cup Steps,
           NEW j \in Jobs, Goto(r, l, j)
    PROVE  /\ pc' \in [Requests -> {"idle", "ok"} \cup Steps]
           /\ job' \in [Requests -> Jobs]
           /\ pc'[r] = l /\ job'[r] = j
           /\ \A q \in Requests \ {r} : pc'[q] = pc[q] /\ job'[q] = job[q]
  BY DEF TypeOK, Goto

\* A request that goes on and shows nothing new.
LEMMA GoesOn ==
    ASSUME TypeOK, NEW r \in Requests, NEW l \in {"idle", "ok"} \cup Steps,
           NEW j \in Jobs, Goto(r, l, j), UNCHANGED proof
    PROVE  StepOK(r) /\ pc'[r] = l /\ job'[r] = j /\ proof'[r] = proof[r]
  BY GotoType DEF StepOK, TypeOK

LEMMA NoJobType == NoJob \in Jobs
  BY DEF NoJob, Jobs

LEMMA JobType ==
    ASSUME NEW u \in Users, NEW kind \in {"login", "change", "reset", "forgot"}
    PROVE  /\ Job(kind, u) \in Jobs
           /\ Job(kind, u).user = u /\ Job(kind, u).key = None
           /\ Job(kind, u).kind = kind
  BY NoJobType DEF Job, NoJob, Jobs

\* A request that ends leaves nothing to know.
LEMMA EndsType ==
    ASSUME TypeOK, NEW r \in Requests, Ends(r)
    PROVE  StepOK(r) /\ RequestInv(r)'
<1>1. /\ pc' \in [Requests -> {"idle", "ok"} \cup Steps]
      /\ job' \in [Requests -> Jobs]
      /\ pc'[r] = "idle" /\ job'[r] = NoJob
      /\ \A q \in Requests \ {r} : pc'[q] = pc[q] /\ job'[q] = job[q]
  BY GotoType, NoJobType DEF Ends
<1>2. StepOK(r)
  BY <1>1 DEF Ends, TypeOK, StepOK
<1>3. job'[r].key = None
  BY <1>1 DEF NoJob
<1>4. RequestInv(r)'
  BY <1>1, <1>3 DEF RequestInv, KeyInv, ReadInv, ProofInv, PadInv, NewInv, MadeInv, MailInv
<1>5. QED
  BY <1>2, <1>4

LEMMA ForgetsType ==
    ASSUME TypeOK, NEW gone, Forgets(gone)
    PROVE  /\ before' \in [Requests -> SUBSET (Tokens \cup Requests)]
           /\ old'    \in SUBSET (Tokens \cup Requests)
  BY DEF TypeOK, Forgets

\* A step of r that leaves Redis and the mail alone.
LEMMA SqlStep ==
    ASSUME IInv, NEW r \in Requests, StepOK(r), UNCHANGED <<redis, issued, mailed>>,
           pass' \in [Users -> Secrets], chosen' \in [Users -> SUBSET Secrets],
           \A u \in Users : chosen[u] \subseteq chosen'[u] /\ pass'[u] \in chosen'[u],
           before' \in [Requests -> SUBSET (Tokens \cup Requests)],
           old' \in SUBSET (Tokens \cup Requests),
           RequestInv(r)'
    PROVE  IInv'
<1>1. StoresOK
  BY DEF IInv, TypeOK, StoresOK, redis
<1>2. Grows
  BY DEF Grows, redis
<1>3. KeysInv' /\ PasswordIsOwners' /\ MailedIsIndexed'
  BY DEF IInv, KeysInv, PasswordIsOwners, MailedIsIndexed, redis
<1>4. QED
  BY <1>1, <1>2, <1>3, Step

\* A step of r that leaves the stores alone.
LEMMA LocalStep ==
    ASSUME IInv, NEW r \in Requests, StepOK(r), UNCHANGED <<mysql, redis, issued, mailed>>,
           before' \in [Requests -> SUBSET (Tokens \cup Requests)],
           old' \in SUBSET (Tokens \cup Requests),
           RequestInv(r)'
    PROVE  IInv'
  BY SqlStep DEF IInv, TypeOK, PasswordIsOwners, mysql

\* A refusal, or a failure that has no effect.
LEMMA FailsLocally ==
    ASSUME IInv, NEW r \in Requests, Fails(r), UNCHANGED <<mysql, redis>>
    PROVE  IInv'
  BY LocalStep, EndsType, ForgetsType DEF Fails, IInv

\* A row that is written or not gets a password of its owner.
LEMMA PassWritten ==
    ASSUME IInv, NEW u \in Users, NEW p \in Secrets,
           pass' \in {pass, [pass EXCEPT ![u] = p]},
           \A v \in Users : chosen[v] \subseteq chosen'[v], p \in chosen'[u]
    PROVE  /\ pass' \in [Users -> Secrets]
           /\ \A v \in Users : pass'[v] \in chosen'[v]
<1>1. pass \in [Users -> Secrets] /\ \A v \in Users : pass[v] \in chosen'[v]
  BY DEF IInv, TypeOK, PasswordIsOwners
<1>2. CASE pass' = pass
  BY <1>1, <1>2
<1>3. CASE pass' = [pass EXCEPT ![u] = p]
  <2>1. pass' \in [Users -> Secrets] /\ \A v \in Users : pass'[v] = IF v = u THEN p ELSE pass[v]
    BY <1>1, <1>3
  <2>2. QED
    BY <1>1, <2>1
<1>4. QED
  BY <1>2, <1>3
-----------------------------------------------------------------------------
(* Statements on the row.                                                  *)

\* What is read of the row is the owner's.
LEMMA SelectStep ==
    ASSUME IInv, NEW r \in Requests, NEW u \in Users, NEW kind \in {"login", "change"}, NEW p,
           Select(r, Job(kind, u), p)
    PROVE  IInv'
<1> DEFINE j == [Job(kind, u) EXCEPT !.read = pass[u]]
<1>1. j \in Jobs /\ j.user = u /\ j.key = None /\ j.read = pass[u] /\ pass[u] \in chosen[u]
  <2>1. pass[u] \in Secrets /\ pass[u] \in chosen[u]
    BY DEF IInv, TypeOK, PasswordIsOwners
  <2>2. Job(kind, u) \in Jobs /\ Job(kind, u).user = u /\ Job(kind, u).key = None
    BY JobType
  <2>3. QED
    BY <2>1, <2>2 DEF Jobs
<1>2. PICK l \in {"hit", "miss"} :
          /\ Goto(r, l, j)
          /\ l = "hit" => proof' = [proof EXCEPT ![r] = @ \cup {u}]
          /\ l = "miss" => UNCHANGED proof
  BY JobType DEF Select
<1>3. /\ UNCHANGED <<mysql, redis, issued, mailed, ghost>>
      /\ UNCHANGED chosen
  BY DEF Select, mysql
<1>4. /\ pc' \in [Requests -> {"idle", "ok"} \cup Steps]
      /\ job' \in [Requests -> Jobs]
      /\ pc'[r] = l /\ job'[r] = j
      /\ \A q \in Requests \ {r} : pc'[q] = pc[q] /\ job'[q] = job[q]
  BY <1>1, <1>2, GotoType DEF IInv, Steps
<1>5. StepOK(r) /\ (l = "hit" => u \in proof'[r])
  BY <1>2, <1>4 DEF IInv, TypeOK, StepOK
<1>6. RequestInv(r)'
  BY <1>1, <1>2, <1>3, <1>4, <1>5
     DEF RequestInv, KeyInv, ReadInv, ProofInv, PadInv, NewInv, MadeInv, MailInv
<1>7. QED
  BY <1>3, <1>5, <1>6, LocalStep DEF IInv, TypeOK, ghost

\* What is known of a request that has shown to be the owner of the row.
LEMMA JobKnown ==
    ASSUME IInv, NEW r \in Requests, pc[r] # "idle"
    PROVE  /\ job[r] \in Jobs /\ job[r].user \in Users
           /\ pc[r] \in {"miss", "hit"} =>
                  job[r].read \in chosen[job[r].user] /\ job[r].read \in Secrets
           /\ pc[r] \in {"hit", "store", "resetStore", "select"} => job[r].user \in proof[r]
           /\ pc[r] \in {"store", "select"} => job[r].new \in Secrets
           /\ job[r].key # None => job[r].key \in Keys /\ owner[job[r].key] \in Users
<1>1. job[r] \in Jobs /\ RequestInv(r) /\ chosen \in [Users -> SUBSET Secrets]
  BY DEF IInv, TypeOK
<1>2. job[r].user \in Users
  BY <1>1 DEF RequestInv, NewInv
<1>3. pc[r] \in {"miss", "hit"} =>
          job[r].read \in chosen[job[r].user] /\ job[r].read \in Secrets
  BY <1>1, <1>2 DEF RequestInv, ReadInv
<1>4. QED
  BY <1>1, <1>2, <1>3 DEF RequestInv, ProofInv, NewInv, KeyInv, Jobs

\* An UPDATE of r that fails, executed or not.
LEMMA WriteFails ==
    ASSUME IInv, NEW r \in Requests, NEW u \in Users, NEW p \in Secrets,
           pass' \in {pass, [pass EXCEPT ![u] = p]},
           chosen' \in [Users -> SUBSET Secrets],
           \A v \in Users : chosen[v] \subseteq chosen'[v], p \in chosen'[u],
           Fails(r), UNCHANGED redis
    PROVE  IInv'
<1>1. StepOK(r) /\ RequestInv(r)'
  BY EndsType DEF Fails, IInv
<1>2. /\ before' \in [Requests -> SUBSET (Tokens \cup Requests)]
      /\ old'    \in SUBSET (Tokens \cup Requests)
  BY ForgetsType DEF Fails, IInv
<1>3. /\ pass' \in [Users -> Secrets]
      /\ \A v \in Users : pass'[v] \in chosen'[v]
  BY PassWritten
<1>4. UNCHANGED <<redis, issued, mailed>>
  BY DEF Fails
<1>5. QED
  BY <1>1, <1>2, <1>3, <1>4, SqlStep

\* One that succeeds, after which r is at l with job j.
LEMMA WriteGoesOn ==
    ASSUME IInv, NEW r \in Requests, NEW u \in Users, NEW p \in Secrets,
           NEW l \in {"create", "store", "select"}, NEW j \in Jobs,
           pass' = [pass EXCEPT ![u] = p],
           chosen' \in [Users -> SUBSET Secrets],
           \A v \in Users : chosen[v] \subseteq chosen'[v], p \in chosen'[u],
           Goto(r, l, j), UNCHANGED proof, UNCHANGED <<issued, mailed, ghost>>, UNCHANGED redis,
           j.user = u, u \in proof[r], j.key # None => owner[j.key] \in Users,
           l # "create" => j.new # None
    PROVE  IInv'
<1>1. StepOK(r) /\ pc'[r] = l /\ job'[r] = j /\ proof'[r] = proof[r]
  BY GoesOn DEF IInv, Steps
<1>2. RequestInv(r)'
  BY <1>1 DEF RequestInv, KeyInv, ReadInv, ProofInv, PadInv, NewInv, MadeInv, MailInv, redis
<1>3. /\ pass' \in [Users -> Secrets]
      /\ \A v \in Users : pass'[v] \in chosen'[v]
  BY PassWritten
<1>4. UNCHANGED <<redis, issued, mailed>>
  OBVIOUS
<1>5. /\ before' \in [Requests -> SUBSET (Tokens \cup Requests)]
      /\ old'    \in SUBSET (Tokens \cup Requests)
  BY DEF IInv, TypeOK, ghost
<1>6. QED
  BY <1>1, <1>2, <1>3, <1>4, <1>5, SqlStep

LEMMA MissStep ==
    ASSUME IInv, NEW r \in Requests, Miss(r)
    PROVE  IInv'
<1>1. /\ job[r].user \in Users
      /\ job[r].read \in Secrets /\ job[r].read \in chosen[job[r].user]
  BY JobKnown DEF Miss, At
<1>2. /\ pass' \in {pass, [pass EXCEPT ![job[r].user] = job[r].read]}
      /\ Fails(r) /\ UNCHANGED redis /\ UNCHANGED chosen
  BY DEF Miss, Update
<1>3. QED
  BY <1>1, <1>2, WriteFails DEF IInv, TypeOK

LEMMA HitStep ==
    ASSUME IInv, NEW r \in Requests, Hit(r)
    PROVE  IInv'
<1> DEFINE j == job[r]
<1>1. /\ j \in Jobs /\ j.user \in Users /\ j.user \in proof[r]
      /\ j.read \in Secrets /\ j.read \in chosen[j.user]
      /\ j.key # None => owner[j.key] \in Users
  BY JobKnown DEF Hit, At
<1>2. UNCHANGED redis /\ UNCHANGED chosen /\ chosen \in [Users -> SUBSET Secrets]
  BY DEF Hit, IInv, TypeOK
<1>3. CASE Fails(r) /\ pass' \in {pass, [pass EXCEPT ![j.user] = j.read]}
  BY <1>1, <1>2, <1>3, WriteFails
<1>4. CASE /\ pass' = [pass EXCEPT ![j.user] = j.read]
           /\ j.kind = "login" /\ Goto(r, "create", j)
           /\ UNCHANGED proof /\ UNCHANGED <<issued, mailed, ghost>>
  <2> HIDE DEF j
  <2>1. QED
    BY <1>1, <1>2, <1>4, WriteGoesOn
<1>5. CASE /\ pass' = [pass EXCEPT ![j.user] = j.read]
           /\ \E p \in Passwords \ {j.read} : Goto(r, "store", [j EXCEPT !.new = p])
           /\ UNCHANGED proof /\ UNCHANGED <<issued, mailed, ghost>>
  <2>1. PICK p \in Passwords : Goto(r, "store", [j EXCEPT !.new = p])
    BY <1>5
  <2>2. p # None /\ p \in Secrets
    BY NoneElse DEF Secrets
  <2> DEFINE k == [j EXCEPT !.new = p]
  <2>3. k \in Jobs /\ k.user = j.user /\ k.key = j.key /\ k.new = p
    BY <1>1, <2>2 DEF Jobs
  <2>4. k.key # None => owner[k.key] \in Users
    BY <1>1, <2>3
  <2> HIDE DEF k
  <2>5. Goto(r, "store", k)
    BY <2>1 DEF k
  <2>6. QED
    BY <1>1, <1>2, <1>5, <2>2, <2>3, <2>4, <2>5, WriteGoesOn
<1>6. QED
  BY <1>3, <1>4, <1>5 DEF Hit, Update

\* Whoever has shown to be the owner has chosen what it writes.
LEMMA Chosen ==
    ASSUME IInv, NEW r \in Requests, NEW p \in Secrets, Chooses(r, p),
           job[r].user \in Users, job[r].user \in proof[r]
    PROVE  /\ chosen' \in [Users -> SUBSET Secrets]
           /\ \A u \in Users : chosen[u] \subseteq chosen'[u]
           /\ p \in chosen'[job[r].user]
<1>1. /\ chosen \in [Users -> SUBSET Secrets]
      /\ chosen' = [chosen EXCEPT ![job[r].user] = @ \cup {p}]
  BY DEF IInv, TypeOK, Chooses
<1>2. \A u \in Users : chosen'[u] = IF u = job[r].user THEN chosen[u] \cup {p} ELSE chosen[u]
  BY <1>1
<1>3. chosen' \in [Users -> SUBSET Secrets]
  BY <1>1
<1>4. QED
  BY <1>2, <1>3

LEMMA StoreStep ==
    ASSUME IInv, NEW r \in Requests, Store(r)
    PROVE  IInv'
<1> DEFINE u == job[r].user
           p == job[r].new
           j == Job("login", u)
<1>1. u \in Users /\ u \in proof[r] /\ p \in Secrets
  BY JobKnown DEF Store, At
<1>2. /\ chosen' \in [Users -> SUBSET Secrets]
      /\ \A v \in Users : chosen[v] \subseteq chosen'[v]
      /\ p \in chosen'[u]
      /\ UNCHANGED redis
  BY <1>1, Chosen DEF Store
<1>3. j \in Jobs /\ j.user = u /\ j.key = None
  BY <1>1, JobType
<1>4. \/ Fails(r) /\ pass' \in {pass, [pass EXCEPT ![u] = p]}
      \/ /\ pass' = [pass EXCEPT ![u] = p]
         /\ Goto(r, "create", j)
         /\ UNCHANGED proof /\ UNCHANGED <<issued, mailed, ghost>>
  BY DEF Store, Update
<1> HIDE DEF u, p, j
<1>5. QED
  BY <1>1, <1>2, <1>3, <1>4, WriteFails, WriteGoesOn

LEMMA ResetStoreStep ==
    ASSUME IInv, NEW r \in Requests, ResetStore(r)
    PROVE  IInv'
<1> DEFINE u == job[r].user
<1>1. PICK p \in Seeds :
          /\ Update(r, p, Goto(r, "select", [job[r] EXCEPT !.new = p]) /\ UNCHANGED proof)
          /\ Chooses(r, p)
  BY DEF ResetStore
<1> DEFINE j == [job[r] EXCEPT !.new = p]
<1>2. u \in Users /\ u \in proof[r] /\ p \in Secrets /\ p # None
  BY JobKnown, NoneElse DEF ResetStore, At, Secrets
<1>3. /\ chosen' \in [Users -> SUBSET Secrets]
      /\ \A v \in Users : chosen[v] \subseteq chosen'[v]
      /\ p \in chosen'[u]
      /\ UNCHANGED redis
  BY <1>1, <1>2, Chosen DEF ResetStore
<1>4. /\ j \in Jobs /\ j.user = u /\ j.new = p
      /\ j.key # None => owner[j.key] \in Users
  <2>1. job[r] \in Jobs /\ (job[r].key # None => owner[job[r].key] \in Users)
    BY JobKnown DEF ResetStore, At
  <2>2. QED
    BY <1>2, <2>1 DEF Jobs
<1>5. \/ Fails(r) /\ pass' \in {pass, [pass EXCEPT ![u] = p]}
      \/ /\ pass' = [pass EXCEPT ![u] = p]
         /\ Goto(r, "select", j)
         /\ UNCHANGED proof /\ UNCHANGED <<issued, mailed, ghost>>
  BY <1>1 DEF Update
<1> HIDE DEF u, j
<1>6. QED
  BY <1>2, <1>3, <1>4, <1>5, WriteFails, WriteGoesOn

LEMMA SelectAgainStep ==
    ASSUME IInv, NEW r \in Requests, SelectAgain(r)
    PROVE  IInv'
  BY JobKnown, SelectStep, FailsLocally DEF SelectAgain, At
-----------------------------------------------------------------------------
(* Keys.                                                                   *)

\* An error of a call: it is over, or the mail goes out without a pad.
LEMMA StumblesType ==
    ASSUME IInv, NEW r \in Requests, pc[r] # "idle", Stumbles(r) \/ Fails(r)
    PROVE  /\ StepOK(r)
           /\ UNCHANGED <<issued, mailed>>
           /\ before' \in [Requests -> SUBSET (Tokens \cup Requests)]
           /\ old'    \in SUBSET (Tokens \cup Requests)
           /\ RequestInv(r)'
<1>1. CASE Fails(r)
  BY <1>1, EndsType, ForgetsType DEF Fails, IInv
<1>2. CASE Goto(r, "mail", [job[r] EXCEPT !.key = None]) /\ UNCHANGED <<issued, mailed, proof, ghost>>
  <2> DEFINE j == [job[r] EXCEPT !.key = None]
  <2>1. j \in Jobs /\ j.key = None /\ j.user \in Users
    <3>1. job[r] \in Jobs /\ job[r].user \in Users
      BY JobKnown
    <3>2. QED
      BY <3>1 DEF Jobs
  <2>2. StepOK(r) /\ pc'[r] = "mail" /\ job'[r] = j
    BY <1>2, <2>1, GoesOn DEF IInv, Steps
  <2>3. RequestInv(r)'
    BY <2>1, <2>2, NoneElse
       DEF RequestInv, KeyInv, ReadInv, ProofInv, PadInv, NewInv, MadeInv, MailInv, Keys
  <2>4. QED
    BY <1>2, <2>2, <2>3 DEF IInv, TypeOK, ghost
<1>3. QED
  BY <1>1, <1>2 DEF Stumbles

\* A step of r that makes a key, or puts one into the index.
LEMMA KeysStep ==
    ASSUME IInv, NEW r \in Requests, StepOK(r), UNCHANGED <<pass, chosen, mailed>>,
           owner' \in [Keys -> Users \cup {None}],
           \A k \in Keys : owner[k] \in Users => owner'[k] = owner[k],
           alive' \in SUBSET Keys, alive \subseteq alive', index' \in SUBSET alive',
           index \subseteq index', issued' \in SUBSET (Tokens \cap alive'),
           \A k \in alive' \ alive : owner[k] = None /\ owner'[k] \in Users,
           before' \in [Requests -> SUBSET (Tokens \cup Requests)],
           old' \in SUBSET (Tokens \cup Requests),
           RequestInv(r)'
    PROVE  IInv'
<1>1. StoresOK
  BY DEF IInv, TypeOK, StoresOK
<1>2. \A k \in Keys : owner[k] \in Users /\ k \in alive' => k \in alive
  BY NoneElse
<1>3. Grows
  BY <1>2 DEF Grows
<1>4. mailed \subseteq Keys /\ alive \subseteq Keys
  BY DEF IInv, TypeOK, Keys
<1>5. KeysInv' /\ MailedIsIndexed'
  BY <1>2, <1>4 DEF IInv, KeysInv, MailedIsIndexed
<1>6. PasswordIsOwners'
  BY DEF IInv, PasswordIsOwners
<1>7. QED
  BY <1>1, <1>3, <1>5, <1>6, Step

LEMMA CreateStep ==
    ASSUME IInv, NEW r \in Requests, Create(r)
    PROVE  IInv'
<1> DEFINE u == job[r].user
<1>1. pc[r] # "idle" /\ u \in Users /\ job[r] \in Jobs
  BY JobKnown DEF Create, At
<1>2. CASE (Stumbles(r) \/ Fails(r)) /\ UNCHANGED <<mysql, redis>>
  BY <1>1, <1>2, StumblesType, LocalStep
<1>3. ASSUME NEW k \in NewKeys(r), HSet(r, k)
      PROVE  /\ UNCHANGED <<pass, chosen>> /\ k \in Keys
             /\ owner' \in [Keys -> Users \cup {None}]
             /\ owner[k] = None /\ owner'[k] = u
             /\ \A q \in Keys : owner[q] \in Users => owner'[q] = owner[q]
             /\ alive' = alive \cup {k} /\ alive' \in SUBSET Keys
             /\ index' \in SUBSET alive' /\ index \subseteq index'
             /\ \A q \in alive' \ alive : owner[q] = None /\ owner'[q] \in Users
  <2>1. k \in Keys /\ owner \in [Keys -> Users \cup {None}] /\ alive \in SUBSET Keys
    BY <1>3 DEF NewKeys, Keys, IInv, TypeOK
  <2>2. owner[k] = None /\ owner' = [owner EXCEPT ![k] = u] /\ alive' = alive \cup {k}
    BY <1>3 DEF HSet
  <2>3. owner' \in [Keys -> Users \cup {None}] /\ owner'[k] = u
        /\ \A q \in Keys : owner[q] \in Users => owner'[q] = owner[q]
    BY <1>1, <2>1, <2>2, NoneElse
  <2>4. UNCHANGED <<pass, chosen>> /\ index' = index /\ index \in SUBSET alive
    BY <1>3 DEF HSet, IInv, TypeOK
  <2>5. QED
    BY <1>1, <2>1, <2>2, <2>3, <2>4
<1>4. ASSUME NEW k \in NewKeys(r), HSet(r, k), Stumbles(r)
      PROVE  IInv'
  <2>1. issued' \in SUBSET (Tokens \cap alive')
    BY <1>1, <1>3, <1>4, StumblesType DEF IInv, TypeOK
  <2>2. QED
    BY <1>1, <1>3, <1>4, <2>1, StumblesType, KeysStep
<1>5. ASSUME NEW k \in NewKeys(r), HSet(r, k),
             Goto(r, "index", [job[r] EXCEPT !.key = k]),
             UNCHANGED <<issued, mailed, proof, ghost>>
      PROVE  IInv'
  <2> DEFINE j == [job[r] EXCEPT !.key = k]
  <2>1. j \in Jobs /\ j.key = k /\ j.user = u /\ j.kind = job[r].kind
    BY <1>1, <1>3, <1>5 DEF Jobs
  <2>2. StepOK(r) /\ pc'[r] = "index" /\ job'[r] = j
    BY <1>5, <2>1, GoesOn DEF IInv, Steps
  <2>3. k \in IF j.kind = "forgot" THEN Pads ELSE Tokens
    BY <2>1, <1>5 DEF NewKeys
  <2> HIDE DEF j
  <2>4. RequestInv(r)'
    BY <1>1, <1>3, <1>5, <2>1, <2>2, <2>3
       DEF RequestInv, KeyInv, ReadInv, ProofInv, PadInv, NewInv, MadeInv, MailInv
  <2>5. /\ issued' \in SUBSET (Tokens \cap alive')
        /\ before' \in [Requests -> SUBSET (Tokens \cup Requests)]
        /\ old'    \in SUBSET (Tokens \cup Requests)
    BY <1>3, <1>5 DEF IInv, TypeOK, ghost
  <2>6. QED
    BY <1>3, <1>5, <2>2, <2>4, <2>5, KeysStep
<1>6. QED
  BY <1>2, <1>4, <1>5 DEF Create

\* SADD: what it does to the stores.
LEMMA SAddType ==
    ASSUME IInv, NEW r \in Requests, SAdd(r) \/ UNCHANGED <<mysql, redis>>
    PROVE  /\ UNCHANGED <<pass, chosen, owner, alive>>
           /\ index' \in SUBSET alive' /\ index \subseteq index'
           /\ owner' \in [Keys -> Users \cup {None}] /\ alive' \in SUBSET Keys
           /\ SAdd(r) => (job[r].key \in alive => job[r].key \in index')
  BY DEF SAdd, IInv, TypeOK, mysql, redis

LEMMA IndexStep ==
    ASSUME IInv, NEW r \in Requests, Index(r)
    PROVE  IInv'
<1>1. pc[r] # "idle" /\ pc[r] = "index"
  BY DEF Index, At
<1>2. /\ UNCHANGED <<pass, chosen, owner, alive>>
      /\ index' \in SUBSET alive' /\ index \subseteq index'
      /\ owner' \in [Keys -> Users \cup {None}] /\ alive' \in SUBSET Keys
      /\ SAdd(r) => (job[r].key \in alive => job[r].key \in index')
  BY SAddType DEF Index
<1>3. CASE Stumbles(r)
  <2>1. issued' \in SUBSET (Tokens \cap alive')
    BY <1>1, <1>2, <1>3, StumblesType DEF IInv, TypeOK
  <2>2. QED
    BY <1>1, <1>2, <1>3, <2>1, StumblesType, KeysStep
<1>4. CASE SAdd(r) /\ job[r].kind = "forgot" /\ Mails(r)
  <2>1. /\ job[r] \in Jobs /\ job[r].user \in Users
        /\ job[r].key \in Pads /\ owner[job[r].key] \in Users
    <3>1. job[r].key \in Pads /\ job[r].key # None
      BY <1>1, <1>4, NoneElse DEF IInv, RequestInv, MadeInv, Keys
    <3>2. QED
      BY <1>1, <3>1, JobKnown
  <2>2. StepOK(r) /\ pc'[r] = "mail" /\ job'[r] = job[r]
    BY <1>4, <2>1, GoesOn DEF Mails, IInv, Steps
  <2>3. RequestInv(r)'
    BY <1>2, <1>4, <2>1, <2>2
       DEF RequestInv, KeyInv, ReadInv, ProofInv, PadInv, NewInv, MadeInv, MailInv
  <2>4. /\ issued' \in SUBSET (Tokens \cap alive') /\ UNCHANGED mailed
        /\ before' \in [Requests -> SUBSET (Tokens \cup Requests)]
        /\ old'    \in SUBSET (Tokens \cup Requests)
    BY <1>2, <1>4 DEF Mails, IInv, TypeOK, ghost
  <2>5. QED
    BY <1>2, <2>2, <2>3, <2>4, KeysStep
<1>5. CASE SAdd(r) /\ job[r].kind # "forgot" /\ Issues(r, job[r].key)
  <2>1. job[r].key \in Tokens
    BY <1>1, <1>5 DEF IInv, RequestInv, MadeInv
  <2>2. /\ issued' \in SUBSET (Tokens \cap alive') /\ UNCHANGED mailed
        /\ before' \in [Requests -> SUBSET (Tokens \cup Requests)]
        /\ old'    \in SUBSET (Tokens \cup Requests)
    BY <1>2, <1>5, <2>1 DEF Issues, IInv, TypeOK
  <2>3. StepOK(r) /\ RequestInv(r)'
    BY <1>5, EndsType DEF Issues, IInv
  <2>4. QED
    BY <1>2, <2>2, <2>3, KeysStep
<1>6. QED
  BY <1>3, <1>4, <1>5 DEF Index

LEMMA DeleteLoginStep ==
    ASSUME IInv, NEW r \in Requests, DeleteLogin(r)
    PROVE  IInv'
<1>1. PICK u \in Users : Goto(r, "create", Job("forgot", u))
  BY DEF DeleteLogin
<1> DEFINE j == Job("forgot", u)
<1>2. j \in Jobs /\ j.user = u /\ j.key = None
  BY JobType
<1>3. StepOK(r) /\ pc'[r] = "create" /\ job'[r] = j
  BY <1>1, <1>2, GoesOn DEF DeleteLogin, IInv, Steps
<1> HIDE DEF j
<1>4. RequestInv(r)'
  BY <1>2, <1>3 DEF RequestInv, KeyInv, ReadInv, ProofInv, PadInv, NewInv, MadeInv, MailInv
<1>5. UNCHANGED <<mysql, redis, issued, mailed, ghost>>
  BY DEF DeleteLogin
<1>6. QED
  BY <1>3, <1>4, <1>5, LocalStep DEF IInv, TypeOK, ghost

LEMMA SendMailStep ==
    ASSUME IInv, NEW r \in Requests, SendMail(r)
    PROVE  IInv'
<1>1. /\ job[r] \in Jobs /\ job[r].user \in Users
      /\ job[r].key # None => owner[job[r].key] \in Users
      /\ pc[r] # "idle"
  BY JobKnown DEF SendMail, At
<1>2. /\ job[r].key \in Pads \cup {None}
      /\ job[r].key \in Pads \cap alive => job[r].key \in index
  BY DEF SendMail, At, IInv, RequestInv, MailInv
<1>3. /\ mailed' \in {mailed, mailed \cup ({job[r].key} \ {None})}
      /\ UNCHANGED <<mysql, redis, issued, ghost>>
  BY DEF SendMail
<1>4. StepOK(r) /\ RequestInv(r)'
  <2>1. CASE Ends(r)
    BY <2>1, EndsType DEF IInv
  <2>2. CASE Goto(r, "ok", job[r]) /\ UNCHANGED proof
    <3>1. StepOK(r) /\ pc'[r] = "ok" /\ job'[r] = job[r]
      BY <1>1, <2>2, GoesOn DEF IInv
    <3>2. RequestInv(r)'
      BY <1>1, <1>3, <3>1
         DEF redis, RequestInv, KeyInv, ReadInv, ProofInv, PadInv, NewInv, MadeInv, MailInv
    <3>3. QED
      BY <3>1, <3>2
  <2>3. QED
    BY <2>1, <2>2 DEF SendMail
<1>5. StoresOK /\ Grows
  BY <1>2, <1>3 DEF IInv, TypeOK, StoresOK, Grows, mysql, redis, ghost
<1>6. KeysInv' /\ MailedIsIndexed' /\ PasswordIsOwners'
  BY <1>1, <1>2, <1>3
     DEF IInv, KeysInv, MailedIsIndexed, PasswordIsOwners, mysql, redis
<1>7. QED
  BY <1>4, <1>5, <1>6, Step

LEMMA SentStep ==
    ASSUME IInv, NEW r \in Requests, Sent(r)
    PROVE  IInv'
  BY EndsType, LocalStep DEF Sent, IInv, TypeOK, ghost
-----------------------------------------------------------------------------
(* Redemptions.                                                            *)

LEMMA PatchLoginWithPadStep ==
    ASSUME IInv, NEW r \in Requests, PatchLoginWithPad(r)
    PROVE  IInv'
<1>1. PICK u \in Users, k \in mailed \cap alive :
          /\ Goto(r, "members", [Job("reset", u) EXCEPT !.key = k])
          /\ proof' = [proof EXCEPT ![r] = {owner[k]}]
  BY DEF PatchLoginWithPad
<1> DEFINE j == [Job("reset", u) EXCEPT !.key = k]
<1>2. k \in Keys /\ owner[k] \in Users /\ k # None
  BY NoneElse DEF IInv, TypeOK, KeysInv
<1>3. j \in Jobs /\ j.user = u /\ j.key = k
  <2>1. Job("reset", u) \in Jobs /\ Job("reset", u).user = u
    BY JobType
  <2>2. QED
    BY <1>2, <2>1 DEF Jobs
<1> HIDE DEF j
<1>4. /\ pc' \in [Requests -> {"idle", "ok"} \cup Steps]
      /\ job' \in [Requests -> Jobs]
      /\ pc'[r] = "members" /\ job'[r] = j
      /\ \A q \in Requests \ {r} : pc'[q] = pc[q] /\ job'[q] = job[q]
  BY <1>1, <1>3, GotoType DEF IInv, Steps, j
<1>5. StepOK(r) /\ proof'[r] = {owner[k]}
  BY <1>1, <1>2, <1>4 DEF StepOK, IInv, TypeOK
<1>6. UNCHANGED <<mysql, redis, issued, mailed, ghost>>
  BY DEF PatchLoginWithPad
<1>7. RequestInv(r)'
  BY <1>2, <1>3, <1>4, <1>5, <1>6
     DEF redis, RequestInv, KeyInv, ReadInv, ProofInv, PadInv, NewInv, MadeInv, MailInv
<1>8. QED
  BY <1>5, <1>6, <1>7, LocalStep DEF IInv, TypeOK, ghost

\* What a redemption knows.
LEMMA PadKnown ==
    ASSUME IInv, NEW r \in Requests, pc[r] \in {"members", "clear"}
    PROVE  /\ job[r] \in Jobs /\ job[r].user \in Users
           /\ job[r].key # None /\ owner[job[r].key] \in Users
           /\ proof[r] = {owner[job[r].key]}
  BY JobKnown DEF IInv, RequestInv, PadInv

LEMMA MembersStep ==
    ASSUME IInv, NEW r \in Requests, Members(r)
    PROVE  IInv'
<1>1. /\ job[r] \in Jobs /\ job[r].user \in Users
      /\ job[r].key # None /\ owner[job[r].key] \in Users
      /\ proof[r] = {owner[job[r].key]}
  BY PadKnown DEF Members, At
<1> DEFINE j == [job[r] EXCEPT !.members = {k \in index : owner[k] = owner[job[r].key]}]
<1>2. CASE /\ Goto(r, "clear", j)
           /\ before' = [before EXCEPT ![r] = InFlight(owner[job[r].key])
                                                \cup TokensOf(owner[job[r].key])]
           /\ UNCHANGED <<issued, mailed, proof, old>>
           /\ UNCHANGED <<mysql, redis>>
  <2>1. j \in Jobs /\ j.user = job[r].user /\ j.key = job[r].key
    <3>1. {k \in index : owner[k] = owner[job[r].key]} \in SUBSET Keys
      BY DEF IInv, TypeOK
    <3>2. QED
      BY <1>1, <3>1 DEF Jobs
  <2> HIDE DEF j
  <2>2. StepOK(r) /\ pc'[r] = "clear" /\ job'[r] = j /\ proof'[r] = proof[r]
    BY <1>2, <2>1, GoesOn DEF IInv, Steps
  <2>3. RequestInv(r)'
    BY <1>1, <1>2, <2>1, <2>2
       DEF redis, RequestInv, KeyInv, ReadInv, ProofInv, PadInv, NewInv, MadeInv, MailInv
  <2>4. InFlight(owner[job[r].key]) \cup TokensOf(owner[job[r].key])
            \in SUBSET (Tokens \cup Requests)
    BY DEF InFlight, TokensOf, IInv, TypeOK
  <2>5. /\ before' \in [Requests -> SUBSET (Tokens \cup Requests)]
        /\ old'    \in SUBSET (Tokens \cup Requests)
    BY <1>2, <2>4 DEF IInv, TypeOK
  <2>6. UNCHANGED <<mysql, redis, issued, mailed>>
    BY <1>2
  <2>7. QED
    BY <2>2, <2>3, <2>5, <2>6, LocalStep
<1>3. CASE Fails(r) /\ UNCHANGED <<mysql, redis>>
  BY <1>3, FailsLocally
<1>4. QED
  BY <1>2, <1>3 DEF Members

\* Keys that die take nothing with them that the invariant needs.
LEMMA DiesType ==
    ASSUME IInv, NEW keys, Dies(keys)
    PROVE  /\ Grows
           /\ before' \in [Requests -> SUBSET (Tokens \cup Requests)]
                  /\ old' \in SUBSET (Tokens \cup Requests) => StoresOK
           /\ KeysInv' /\ MailedIsIndexed' /\ PasswordIsOwners'
<1>1. Grows
  BY DEF Dies, Grows
<1>2. KeysInv' /\ MailedIsIndexed' /\ PasswordIsOwners'
  BY DEF Dies, IInv, KeysInv, MailedIsIndexed, PasswordIsOwners
<1>3. before' \in [Requests -> SUBSET (Tokens \cup Requests)]
          /\ old' \in SUBSET (Tokens \cup Requests) => StoresOK
  BY DEF Dies, StoresOK, IInv, TypeOK
<1>4. QED
  BY <1>1, <1>2, <1>3

LEMMA ClearTokenStep ==
    ASSUME IInv, NEW r \in Requests, ClearToken(r)
    PROVE  IInv'
<1>1. PICK k \in job[r].members \cap alive :
          /\ Dies({k})
          /\ \/ UNCHANGED <<pc, job, proof>> /\ Forgets({k})
             \/ Ends(r) /\ Forgets({k, r})
  BY DEF ClearToken
<1>2. /\ before' \in [Requests -> SUBSET (Tokens \cup Requests)]
      /\ old'    \in SUBSET (Tokens \cup Requests)
  BY <1>1, ForgetsType DEF IInv
<1>3. Grows /\ StoresOK /\ KeysInv' /\ MailedIsIndexed' /\ PasswordIsOwners'
  BY <1>1, <1>2, DiesType
<1>4. CASE UNCHANGED <<pc, job, proof>>
  <2>1. StepOK(r)
    BY <1>4 DEF StepOK, IInv, TypeOK
  <2>2. RequestInv(r)'
    BY <1>3, <1>4, Kept DEF IInv
  <2>3. QED
    BY <1>3, <2>1, <2>2, Step
<1>5. CASE Ends(r)
  BY <1>3, <1>5, EndsType, Step DEF IInv
<1>6. QED
  BY <1>1, <1>4, <1>5

\* The ids are the same: the user of the pad goes on to change its password.
LEMMA ClearedType ==
    ASSUME IInv, NEW r \in Requests, pc[r] = "clear", Cleared(r), UNCHANGED redis
    PROVE  StepOK(r) /\ RequestInv(r)'
<1>1. /\ job[r] \in Jobs /\ job[r].user \in Users
      /\ job[r].key # None /\ owner[job[r].key] \in Users
      /\ proof[r] = {owner[job[r].key]}
  BY PadKnown
<1>2. CASE ~SamePerson(r) /\ Ends(r)
  BY <1>2, EndsType DEF IInv
<1>3. CASE /\ SamePerson(r)
           /\ Goto(r, "resetStore", Job("change", job[r].user))
           /\ UNCHANGED proof
  <2> DEFINE j == Job("change", job[r].user)
  <2>1. j \in Jobs /\ j.user = job[r].user /\ j.key = None
    BY <1>1, JobType
  <2>2. StepOK(r) /\ pc'[r] = "resetStore" /\ job'[r] = j /\ proof'[r] = proof[r]
    BY <1>3, <2>1, GoesOn DEF IInv, Steps
  <2>3. job[r].user \in proof[r]
    BY <1>1, <1>3 DEF SamePerson
  <2> HIDE DEF j
  <2>4. RequestInv(r)'
    BY <1>1, <2>1, <2>2, <2>3
       DEF RequestInv, KeyInv, ReadInv, ProofInv, PadInv, NewInv, MadeInv, MailInv
  <2>5. QED
    BY <2>2, <2>4
<1>4. QED
  BY <1>2, <1>3 DEF Cleared

LEMMA UnindexStep ==
    ASSUME IInv, NEW r \in Requests, Unindex(r)
    PROVE  IInv'
<1>1. CASE Fails(r)
  BY <1>1, FailsLocally DEF Unindex
<1>2. CASE /\ Cleared(r)
           /\ before' = [before EXCEPT ![r] = {}]
           /\ old'    = old \cup before[r]
           /\ UNCHANGED <<issued, mailed>>
  <2>1. /\ before' \in [Requests -> SUBSET (Tokens \cup Requests)]
        /\ old'    \in SUBSET (Tokens \cup Requests)
    BY <1>2 DEF IInv, TypeOK
  <2>2. pc[r] = "clear" /\ UNCHANGED <<mysql, redis>>
    BY DEF Unindex, At
  <2>3. StepOK(r) /\ RequestInv(r)'
    BY <1>2, <2>2, ClearedType
  <2>4. QED
    BY <1>2, <2>1, <2>2, <2>3, LocalStep
<1>3. QED
  BY <1>1, <1>2 DEF Unindex
-----------------------------------------------------------------------------
\* The steps of no request.
LEMMA OtherStep ==
    ASSUME IInv, KeyExpires \/ RedisRestarts \/ ServerCrashes
    PROVE  IInv'
<1>1. ASSUME NEW keys, Dies(keys), Forgets(keys), UNCHANGED <<pc, job, proof>>
      PROVE  IInv'
  <2>1. Grows /\ StoresOK /\ KeysInv' /\ MailedIsIndexed' /\ PasswordIsOwners'
    BY <1>1, DiesType, ForgetsType DEF IInv
  <2>2. \A q \in Requests : RequestInv(q)'
    BY <1>1, <2>1, Kept DEF IInv
  <2>3. TypeOK'
    BY <1>1, <2>1 DEF IInv, TypeOK, StoresOK
  <2>4. QED
    BY <2>1, <2>2, <2>3 DEF IInv
<1>2. CASE ServerCrashes
  <2>1. TypeOK'
    BY <1>2, NoJobType, ForgetsType DEF ServerCrashes, IInv, TypeOK, mysql, redis
  <2>2. KeysInv' /\ PasswordIsOwners' /\ MailedIsIndexed'
    BY <1>2 DEF ServerCrashes, IInv, KeysInv, PasswordIsOwners, MailedIsIndexed, mysql, redis
  <2>3. ASSUME NEW q \in Requests
        PROVE  RequestInv(q)'
    <3>1. pc'[q] = "idle" /\ job'[q].key = None
      BY <1>2 DEF ServerCrashes, NoJob
    <3>2. QED
      BY <3>1 DEF RequestInv, KeyInv, ReadInv, ProofInv, PadInv, NewInv, MadeInv, MailInv
  <2>4. QED
    BY <2>1, <2>2, <2>3 DEF IInv
<1>3. QED
  BY <1>1, <1>2 DEF KeyExpires, RedisRestarts

LEMMA RequestStep ==
    ASSUME IInv, NEW r \in Requests, Request(r)
    PROVE  IInv'
<1>1. CASE PostLogin(r) \/ PatchLogin(r)
  BY <1>1, SelectStep DEF PostLogin, PatchLogin
<1>2. CASE PatchLoginWithPad(r) \/ DeleteLogin(r)
  BY <1>2, PatchLoginWithPadStep, DeleteLoginStep
<1>3. CASE Miss(r) \/ Hit(r) \/ Store(r) \/ ResetStore(r) \/ SelectAgain(r)
  BY <1>3, MissStep, HitStep, StoreStep, ResetStoreStep, SelectAgainStep
<1>4. CASE Create(r) \/ Index(r) \/ SendMail(r) \/ Sent(r)
  BY <1>4, CreateStep, IndexStep, SendMailStep, SentStep
<1>5. CASE Members(r) \/ ClearToken(r) \/ Unindex(r)
  BY <1>5, MembersStep, ClearTokenStep, UnindexStep
<1>6. QED
  BY <1>1, <1>2, <1>3, <1>4, <1>5 DEF Request

LEMMA Initially ==
    ASSUME Init
    PROVE  IInv
<1>1. TypeOK
  BY NoJobType DEF Init, TypeOK, Secrets
<1>2. KeysInv /\ MailedIsIndexed /\ PasswordIsOwners
  BY DEF Init, KeysInv, MailedIsIndexed, PasswordIsOwners
<1>3. \A r \in Requests : pc[r] = "idle" /\ job[r].key = None
  BY DEF Init, NoJob
<1>4. \A r \in Requests : RequestInv(r)
  BY <1>3 DEF RequestInv, KeyInv, ReadInv, ProofInv, PadInv, NewInv, MadeInv, MailInv
<1>5. QED
  BY <1>1, <1>2, <1>4 DEF IInv

\* The inductive invariant holds in every state.
LEMMA Inductive == Spec => []IInv
<1>1. ASSUME IInv, [Next]_vars
      PROVE  IInv'
  <2>1. CASE Next
    BY <1>1, <2>1, OtherStep, RequestStep DEF Next
  <2>2. CASE UNCHANGED vars
    BY <1>1, <2>2
       DEF vars, mysql, redis, ghost, IInv, TypeOK, KeysInv, PasswordIsOwners, MailedIsIndexed,
           RequestInv, KeyInv, ReadInv, ProofInv, PadInv, NewInv, MadeInv, MailInv
  <2>3. QED
    BY <1>1, <2>1, <2>2
<1>2. QED
  BY <1>1, Initially, PTL DEF Spec

\* The types of ResetFlow, with the keys that are alive, indexed and issued one
\* within the other.
THEOREM TypeCorrect == Spec => []TypeOK
  BY Inductive, PTL DEF IInv

\* Whatever the handlers of src/internal/router/basicauth.go write back, the
\* password of a user is one that its owner chose.
THEOREM PasswordStaysOwners == Spec => []PasswordIsOwners
  BY Inductive, PTL DEF IInv

\* A pad that DeleteLogin mailed is in the index as long as it works.
THEOREM MailedStaysIndexed == Spec => []MailedIsIndexed
  BY Inductive, PTL DEF IInv
=============================================================================
