------------------------- MODULE ResetFlowBoundProofs -------------------------
(***************************************************************************)
(* For every number of requests, users, passwords and keys:                *)
(* OldLoginsBounded is an invariant of ResetFlow.                          *)
(*                                                                         *)
(* A redemption that comes to its end leaves only what was in flight when  *)
(* it read the index, without itself; but redemptions overlap, and each    *)
(* adds to what is old.  The invariant counts therefore what would be old  *)
(* if any set of the redemptions under way came to its end: a token that   *)
(* one of them has seen in the index does not survive it.                  *)
(***************************************************************************)
EXTENDS ResetFlowProofs, FiniteSetTheorems

Flying(q) == /\ pc[q] \in {"hit", "store", "create", "index"}
             /\ job[q].kind \in {"login", "change"}
Whose(x)  == IF x \in Requests THEN job[x].user ELSE owner[x]
Marked    == old \cup UNION {before[r] : r \in Requests}

\* The redemptions of u's pads that are under way, and what they would leave.
Clearing(u) == {r \in Requests : pc[r] = "clear" /\ owner[job[r].key] = u}
Survivors(u, rs) ==
    ({x \in old : Whose(x) = u} \cup UNION {before[r] : r \in rs})
        \ UNION {job[r].members : r \in rs}

Few(S) == IsFiniteSet(S) /\ Cardinality(S) <= Cardinality(Requests) - 1

IssuedInv   == issued \subseteq index
MarkedInv   == \A x \in Marked : \/ x \in issued
                                 \/ x \in Requests /\ Flying(x)
BeforeInv   == \A r \in Requests : \A x \in before[r] :
                   pc[r] = "clear" /\ Whose(x) = owner[job[r].key]
MadeFor(r)  == pc[r] = "index" /\ job[r].kind # "forgot" => owner[job[r].key] = job[r].user
SurvivorInv == \A u \in Users : \A rs \in SUBSET Clearing(u) : Few(Survivors(u, rs))

BInv == /\ IssuedInv /\ MarkedInv /\ BeforeInv /\ SurvivorInv
        /\ \A r \in Requests : MadeFor(r)
-----------------------------------------------------------------------------
\* Less is few.
LEMMA FewLess ==
    ASSUME NEW S, Few(S), NEW T, T \subseteq S
    PROVE  Few(T)
<1>1. IsFiniteSet(T) /\ Cardinality(T) <= Cardinality(S)
  BY FS_Subset DEF Few
<1>2. Cardinality(T) \in Nat /\ Cardinality(S) \in Nat /\ Cardinality(Requests) \in Nat
  BY <1>1, FS_CardinalityType, RequestsFinite DEF Few
<1>3. QED
  BY <1>1, <1>2 DEF Few

\* All requests but one are few.
LEMMA FewOthers ==
    ASSUME NEW r \in Requests
    PROVE  Few(Requests \ {r})
<1>1. /\ IsFiniteSet(Requests \ {r})
      /\ Cardinality(Requests \ {r}) = Cardinality(Requests) - 1
  BY RequestsFinite, FS_RemoveElement
<1>2. Cardinality(Requests) \in Nat
  BY RequestsFinite, FS_CardinalityType
<1>3. QED
  BY <1>1, <1>2 DEF Few

\* One thing for another.
LEMMA FewExchanged ==
    ASSUME NEW S, Few(S), NEW x \in S, NEW y
    PROVE  Few((S \ {x}) \cup {y})
<1> DEFINE T == S \ {x}
<1>1. IsFiniteSet(T) /\ Cardinality(T) = Cardinality(S) - 1
  BY FS_RemoveElement DEF Few
<1>2. /\ IsFiniteSet(T \cup {y})
      /\ Cardinality(T \cup {y}) = IF y \in T THEN Cardinality(T) ELSE Cardinality(T) + 1
  BY <1>1, FS_AddElement
<1>3. Cardinality(S) \in Nat /\ Cardinality(Requests) \in Nat
  BY FS_CardinalityType, RequestsFinite DEF Few
<1>4. Cardinality(T \cup {y}) <= Cardinality(Requests) - 1
  BY <1>1, <1>2, <1>3 DEF Few
<1>5. QED
  BY <1>2, <1>4 DEF Few
-----------------------------------------------------------------------------
(* What is marked, and whose it is.                                        *)

\* Keys that are somebody's stay so.
OwnersKept == \A k \in Keys : owner[k] \in Users => owner'[k] = owner[k]

LEMMA MarkedKnown ==
    ASSUME IInv, BInv, NEW x \in Marked
    PROVE  \/ /\ x \in Requests /\ Flying(x) /\ x \notin Keys
              /\ Whose(x) = job[x].user
           \/ /\ x \in issued /\ x \in alive /\ x \in Tokens /\ x \in Keys /\ x \notin Requests
              /\ owner[x] \in Users /\ Whose(x) = owner[x]
<1>1. CASE x \in issued
  <2>1. x \in alive /\ x \in Tokens /\ x \in Keys /\ x \notin Requests
    BY <1>1, KindsDistinct DEF IInv, TypeOK, Keys
  <2>2. QED
    BY <1>1, <2>1 DEF IInv, KeysInv, Whose
<1>2. CASE x \in Requests /\ Flying(x)
  BY <1>2, KindsDistinct DEF Whose
<1>3. QED
  BY <1>1, <1>2 DEF BInv, MarkedInv

LEMMA MarkedParts ==
    /\ old \subseteq Marked
    /\ \A r \in Requests : before[r] \subseteq Marked
  BY DEF Marked

\* Where nothing is marked any more that was not, and what is marked stays whose
\* it is, no redemption gets more survivors.
LEMMA Shrinks ==
    ASSUME IInv, BInv, OwnersKept,
           old' \subseteq old, \A r \in Requests : before'[r] \subseteq before[r],
           \A x \in Marked' : \/ x \in issued'
                              \/ x \in Requests /\ Flying(x)' /\ job'[x].user = job[x].user,
           \A r \in Requests : pc'[r] = "clear" => pc[r] = "clear" /\ job'[r] = job[r],
           \A r \in Requests : before'[r] # {} => pc'[r] = "clear",
           IssuedInv', \A r \in Requests : MadeFor(r)',
           issued' \subseteq issued
    PROVE  BInv'
<1>1. Marked' \subseteq Marked
  BY DEF Marked
<1>2. ASSUME NEW x \in Marked'
      PROVE  Whose(x)' = Whose(x)
  <2>1. x \in Marked
    BY <1>1
  <2>2. CASE x \in Requests /\ job'[x].user = job[x].user
    BY <2>2 DEF Whose
  <2>3. CASE x \in issued'
    <3>1. x \in Keys /\ owner[x] \in Users /\ x \notin Requests
      BY <2>3, KindsDistinct DEF IInv, TypeOK, Keys, KeysInv
    <3>2. QED
      BY <3>1 DEF OwnersKept, Whose
  <2>4. QED
    BY <2>2, <2>3
<1>3. ASSUME NEW r \in Requests, pc'[r] = "clear"
      PROVE  pc[r] = "clear" /\ job'[r] = job[r] /\ owner'[job'[r].key] = owner[job[r].key]
  <2>1. pc[r] = "clear" /\ job'[r] = job[r]
    BY <1>3
  <2>2. job[r].key \in Keys /\ owner[job[r].key] \in Users
    BY <2>1, PadKnown, JobKnown
  <2>3. QED
    BY <2>1, <2>2 DEF OwnersKept
<1>4. MarkedInv'
  BY DEF MarkedInv
<1>5. BeforeInv'
  <2>1. ASSUME NEW r \in Requests, NEW x \in before'[r]
        PROVE  pc'[r] = "clear" /\ Whose(x)' = owner'[job'[r].key]
    <3>1. pc'[r] = "clear" /\ x \in before[r]
      BY <2>1
    <3>2. x \in Marked'
      BY <2>1 DEF Marked
    <3>3. QED
      BY <1>2, <1>3, <3>1, <3>2 DEF BInv, BeforeInv
  <2>2. QED
    BY <2>1 DEF BeforeInv
<1>6. SurvivorInv'
  <2>1. ASSUME NEW u \in Users, NEW rs \in SUBSET Clearing(u)'
        PROVE  Few(Survivors(u, rs)')
    <3>1. rs \in SUBSET Clearing(u) /\ \A r \in rs : r \in Requests /\ job'[r] = job[r]
      BY <1>3 DEF Clearing
    <3>2. Survivors(u, rs)' \subseteq Survivors(u, rs)
      <4>1. \A x \in old' : Whose(x)' = u => x \in old /\ Whose(x) = u
        BY <1>2 DEF Marked
      <4>2. QED
        BY <3>1, <4>1 DEF Survivors
    <3>3. QED
      BY <3>1, <3>2, FewLess DEF BInv, SurvivorInv
  <2>2. QED
    BY <2>1 DEF SurvivorInv, Few
<1>7. QED
  BY <1>4, <1>5, <1>6 DEF BInv

\* What a request that stays where it is has made.
LEMMA MadeKept ==
    ASSUME IInv, BInv, OwnersKept, NEW q \in Requests, pc'[q] = pc[q], job'[q] = job[q]
    PROVE  MadeFor(q)'
<1> SUFFICES ASSUME pc[q] = "index", job[q].kind # "forgot"
             PROVE  owner'[job[q].key] = job[q].user
  BY DEF MadeFor
<1>1. owner[job[q].key] = job[q].user
  BY DEF BInv, MadeFor
<1>2. job[q].key \in Tokens
  BY DEF IInv, RequestInv, MadeInv
<1>3. job[q].user \in Users
  BY JobKnown
<1>4. QED
  BY <1>1, <1>2, <1>3 DEF OwnersKept, Keys

\* What is forgotten is not marked.
LEMMA ForgetsShrinks ==
    ASSUME IInv, NEW gone, Forgets(gone)
    PROVE  /\ old' \subseteq old
           /\ \A q \in Requests : before'[q] \subseteq before[q]
           /\ \A q \in Requests : q \in gone => before'[q] = {}
           /\ Marked' \subseteq Marked \ gone
<1>1. \A q \in Requests : before'[q] = IF q \in gone THEN {} ELSE before[q] \ gone
  BY DEF Forgets
<1>2. old' = old \ gone
  BY DEF Forgets
<1>3. Marked' \subseteq Marked \ gone
  <2>1. ASSUME NEW q \in Requests, NEW x \in before'[q]
        PROVE  x \in before[q] /\ x \notin gone
    BY <1>1, <2>1
  <2>2. QED
    BY <1>2, <2>1 DEF Marked
<1>4. QED
  BY <1>1, <1>2, <1>3

\* Where a step goes, whatever that is.
LEMMA GotoIs ==
    ASSUME IInv, NEW r \in Requests, NEW l, NEW j, Goto(r, l, j)
    PROVE  /\ pc'[r] = l /\ job'[r] = j
           /\ \A q \in Requests \ {r} : pc'[q] = pc[q] /\ job'[q] = job[q]
  BY DEF IInv, TypeOK, Goto

\* A step of r that marks nothing and is on no side of a redemption.
LEMMA MovesOn ==
    ASSUME IInv, BInv, OwnersKept, NEW r \in Requests, NEW l, NEW j, Goto(r, l, j),
           UNCHANGED <<issued, ghost>>, index \subseteq index',
           pc[r] # "clear", l # "clear",
           Flying(r) => /\ l \in {"hit", "store", "create", "index"}
                        /\ j.kind \in {"login", "change"} /\ j.user = job[r].user,
           l = "index" /\ j.kind # "forgot" => owner'[j.key] = j.user
    PROVE  BInv'
<1>1. IssuedInv'
  BY DEF BInv, IssuedInv
<1>2. /\ pc'[r] = l /\ job'[r] = j
      /\ \A q \in Requests \ {r} : pc'[q] = pc[q] /\ job'[q] = job[q]
  BY GotoIs
<1>3. \A q \in Requests : MadeFor(q)'
  <2>1. MadeFor(r)'
    BY <1>2 DEF MadeFor
  <2>2. QED
    BY <1>2, <2>1, MadeKept
<1>4. /\ Marked' = Marked /\ old' = old /\ before' = before
  BY DEF Marked, ghost
<1>5. ASSUME NEW x \in Marked
      PROVE  \/ x \in issued'
             \/ x \in Requests /\ Flying(x)' /\ job'[x].user = job[x].user
  <2>1. CASE x \in issued
    BY <2>1
  <2>2. CASE x \in Requests /\ Flying(x)
    BY <1>2, <2>2 DEF Flying
  <2>3. QED
    BY <2>1, <2>2 DEF BInv, MarkedInv
<1>6. \A q \in Requests : pc'[q] = "clear" => pc[q] = "clear" /\ job'[q] = job[q]
  BY <1>2
<1>7. \A q \in Requests : before'[q] # {} => pc'[q] = "clear"
  <2>1. \A q \in Requests : before[q] # {} => pc[q] = "clear" /\ q # r
    BY DEF BInv, BeforeInv
  <2>2. QED
    BY <1>2, <1>4, <2>1
<1>8. QED
  BY <1>1, <1>3, <1>4, <1>5, <1>6, <1>7, Shrinks

\* r is over, whatever it was doing, and with it some keys may die.
LEMMA IsOver ==
    ASSUME IInv, BInv, OwnersKept, NEW r \in Requests, NEW keys \in SUBSET Keys,
           Ends(r), Forgets({r} \cup keys),
           issued' = issued \ keys, index \ keys \subseteq index'
    PROVE  BInv'
<1>1. IssuedInv'
  BY DEF BInv, IssuedInv
<1>2. /\ pc'[r] = "idle"
      /\ \A q \in Requests \ {r} : pc'[q] = pc[q] /\ job'[q] = job[q]
  BY GotoIs DEF Ends
<1>3. \A q \in Requests : MadeFor(q)'
  <2>1. MadeFor(r)'
    BY <1>2 DEF MadeFor
  <2>2. QED
    BY <1>2, <2>1, MadeKept
<1>4. /\ old' \subseteq old
      /\ \A q \in Requests : before'[q] \subseteq before[q]
      /\ before'[r] = {}
      /\ Marked' \subseteq Marked \ ({r} \cup keys)
  BY ForgetsShrinks
<1>5. ASSUME NEW x \in Marked'
      PROVE  \/ x \in issued'
             \/ x \in Requests /\ Flying(x)' /\ job'[x].user = job[x].user
  <2>1. x \in Marked /\ x # r /\ x \notin keys
    BY <1>4
  <2>2. CASE x \in issued
    BY <2>1, <2>2
  <2>3. CASE x \in Requests /\ Flying(x)
    BY <1>2, <2>1, <2>3 DEF Flying
  <2>4. QED
    BY <2>1, <2>2, <2>3 DEF BInv, MarkedInv
<1>6. \A q \in Requests : pc'[q] = "clear" => pc[q] = "clear" /\ job'[q] = job[q]
  BY <1>2
<1>7. \A q \in Requests : before'[q] # {} => pc'[q] = "clear"
  <2>1. \A q \in Requests : before'[q] # {} => before[q] # {} /\ q # r
    BY <1>4
  <2>2. QED
    BY <1>2, <2>1 DEF BInv, BeforeInv
<1>8. QED
  BY <1>1, <1>3, <1>4, <1>5, <1>6, <1>7, Shrinks

\* A refusal or a failure.
LEMMA FailsBound ==
    ASSUME IInv, BInv, OwnersKept, NEW r \in Requests, Fails(r), index \subseteq index'
    PROVE  BInv'
<1>1. Ends(r) /\ Forgets({r}) /\ issued' = issued
  BY DEF Fails
<1>2. {r} \cup {} = {r} /\ issued \ {} = issued /\ index \ {} = index /\ {} \in SUBSET Keys
  OBVIOUS
<1>3. QED
  BY <1>1, <1>2, IsOver

\* Keys die.
LEMMA KeysDie ==
    ASSUME IInv, BInv, NEW keys \in SUBSET Keys, Dies(keys), Forgets(keys),
           UNCHANGED <<pc, job>>
    PROVE  BInv'
<1>1. IssuedInv' /\ OwnersKept /\ issued' = issued \ keys
  BY DEF BInv, IssuedInv, Dies, OwnersKept
<1>2. \A q \in Requests : MadeFor(q)'
  BY <1>1, MadeKept
<1>3. /\ old' \subseteq old
      /\ \A q \in Requests : before'[q] \subseteq before[q]
      /\ Marked' \subseteq Marked \ keys
  BY ForgetsShrinks
<1>4. ASSUME NEW x \in Marked'
      PROVE  \/ x \in issued'
             \/ x \in Requests /\ Flying(x)' /\ job'[x].user = job[x].user
  <2>1. x \in Marked /\ x \notin keys
    BY <1>3
  <2>2. QED
    BY <1>1, <2>1 DEF BInv, MarkedInv, Flying
<1>5. \A q \in Requests : before'[q] # {} => pc'[q] = "clear"
  BY <1>3 DEF BInv, BeforeInv
<1>6. QED
  BY <1>1, <1>2, <1>3, <1>4, <1>5, Shrinks

-----------------------------------------------------------------------------
(* Steps on the row, and to the mail.                                      *)

LEMMA SelectBound ==
    ASSUME IInv, BInv, NEW r \in Requests, pc[r] \in {"idle", "select"}, NEW j, NEW p,
           Select(r, j, p)
    PROVE  BInv'
<1>1. PICK l \in {"hit", "miss"} : Goto(r, l, [j EXCEPT !.read = pass[j.user]])
  BY DEF Select
<1>2. UNCHANGED <<redis, issued, ghost>> /\ OwnersKept /\ index \subseteq index'
  BY DEF Select, redis, OwnersKept
<1>3. ~Flying(r) /\ pc[r] # "clear" /\ l # "clear" /\ l # "index"
  BY DEF Flying
<1>4. QED
  BY <1>1, <1>2, <1>3, MovesOn

\* An UPDATE that goes on is a step of its own, the others are failures.
LEMMA UpdateFails ==
    ASSUME IInv, BInv, NEW r \in Requests, UNCHANGED redis, Fails(r)
    PROVE  BInv'
<1>1. OwnersKept /\ index \subseteq index'
  BY DEF redis, OwnersKept
<1>2. QED
  BY <1>1, FailsBound

LEMMA SqlBound ==
    ASSUME IInv, BInv, NEW r \in Requests, Miss(r) \/ Hit(r) \/ Store(r) \/ ResetStore(r)
    PROVE  BInv'
<1>1. UNCHANGED redis /\ OwnersKept /\ index \subseteq index'
  BY DEF Miss, Hit, Store, ResetStore, redis, OwnersKept
<1>2. CASE Fails(r)
  BY <1>1, <1>2, UpdateFails
<1>3. job[r] \in Jobs
  BY DEF IInv, TypeOK
<1>4. CASE Hit(r) /\ ~Fails(r)
  <2>1. /\ pc[r] = "hit" /\ UNCHANGED <<issued, ghost>>
        /\ \/ job[r].kind = "login" /\ Goto(r, "create", job[r])
           \/ /\ job[r].kind = "change"
              /\ \E p \in Passwords : Goto(r, "store", [job[r] EXCEPT !.new = p])
    BY <1>4 DEF Hit, Update, At
  <2>2. CASE job[r].kind = "login" /\ Goto(r, "create", job[r])
    BY <1>1, <2>1, <2>2, MovesOn
  <2>3. ASSUME NEW p \in Passwords, job[r].kind = "change",
               Goto(r, "store", [job[r] EXCEPT !.new = p])
        PROVE  BInv'
    <3> DEFINE j == [job[r] EXCEPT !.new = p]
    <3>1. j.kind = "change" /\ j.user = job[r].user
      BY <1>3, <2>3 DEF Jobs
    <3> HIDE DEF j
    <3>2. Goto(r, "store", j)
      BY <2>3 DEF j
    <3>3. QED
      BY <1>1, <2>1, <3>1, <3>2, MovesOn
  <2>4. QED
    BY <2>1, <2>2, <2>3
<1>5. CASE Store(r) /\ ~Fails(r)
  <2> DEFINE j == Job("login", job[r].user)
  <2>1. pc[r] = "store" /\ UNCHANGED <<issued, ghost>> /\ Goto(r, "create", j)
    BY <1>5 DEF Store, Update, At
  <2>2. j.kind = "login" /\ j.user = job[r].user
    BY DEF Job, NoJob
  <2> HIDE DEF j
  <2>3. QED
    BY <1>1, <2>1, <2>2, MovesOn
<1>6. CASE ResetStore(r) /\ ~Fails(r)
  <2>1. PICK seed \in Seeds : Goto(r, "select", [job[r] EXCEPT !.new = seed])
    BY <1>6 DEF ResetStore, Update
  <2>2. pc[r] = "resetStore" /\ ~Flying(r) /\ UNCHANGED <<issued, ghost>>
    BY <1>6 DEF ResetStore, Update, At, Flying
  <2>3. QED
    BY <1>1, <2>1, <2>2, MovesOn
<1>7. QED
  BY <1>2, <1>4, <1>5, <1>6 DEF Miss, Update

LEMMA MailBound ==
    ASSUME IInv, BInv, NEW r \in Requests, DeleteLogin(r) \/ SendMail(r) \/ Sent(r)
    PROVE  BInv'
<1>1. UNCHANGED <<redis, issued, ghost>> /\ OwnersKept /\ index \subseteq index'
  BY DEF DeleteLogin, SendMail, Sent, redis, OwnersKept
<1>2. pc[r] \in {"idle", "mail", "ok"} /\ ~Flying(r)
  BY DEF DeleteLogin, SendMail, Sent, At, Flying
<1>3. PICK l \in {"create", "ok", "idle"} : \E j : Goto(r, l, j)
  BY DEF DeleteLogin, SendMail, Sent, Ends
<1>4. QED
  BY <1>1, <1>2, <1>3, MovesOn

LEMMA PadBound ==
    ASSUME IInv, BInv, NEW r \in Requests, PatchLoginWithPad(r)
    PROVE  BInv'
<1>1. UNCHANGED <<redis, issued, ghost>> /\ OwnersKept /\ index \subseteq index'
  BY DEF PatchLoginWithPad, redis, OwnersKept
<1>2. pc[r] = "idle" /\ ~Flying(r)
  BY DEF PatchLoginWithPad, At, Flying
<1>3. \E j : Goto(r, "members", j)
  BY DEF PatchLoginWithPad
<1>4. QED
  BY <1>1, <1>2, <1>3, MovesOn

-----------------------------------------------------------------------------
(* Keys.                                                                   *)

LEMMA StumblesBound ==
    ASSUME IInv, BInv, OwnersKept, NEW r \in Requests, pc[r] \in {"create", "index"},
           Stumbles(r) \/ Fails(r), index \subseteq index'
    PROVE  BInv'
<1>1. CASE Fails(r)
  BY <1>1, FailsBound
<1>2. CASE /\ job[r].kind = "forgot"
           /\ Goto(r, "mail", [job[r] EXCEPT !.key = None])
           /\ UNCHANGED <<issued, ghost>>
  <2>1. ~Flying(r)
    BY <1>2 DEF Flying
  <2>2. QED
    BY <1>2, <2>1, MovesOn
<1>3. QED
  BY <1>1, <1>2 DEF Stumbles, ghost

LEMMA CreateBound ==
    ASSUME IInv, BInv, NEW r \in Requests, Create(r)
    PROVE  BInv'
<1>1. pc[r] = "create" /\ job[r] \in Jobs /\ job[r].user \in Users
  BY JobKnown DEF Create, At
<1>2. CASE (Stumbles(r) \/ Fails(r)) /\ UNCHANGED <<mysql, redis>>
  <2>1. OwnersKept /\ index \subseteq index'
    BY <1>2 DEF redis, OwnersKept
  <2>2. QED
    BY <1>1, <1>2, <2>1, StumblesBound
<1>3. ASSUME NEW k \in NewKeys(r), HSet(r, k),
             \/ /\ Goto(r, "index", [job[r] EXCEPT !.key = k])
                /\ UNCHANGED <<issued, ghost>>
             \/ Stumbles(r)
      PROVE  BInv'
  <2>1. k \in Keys /\ owner[k] = None /\ owner' = [owner EXCEPT ![k] = job[r].user]
        /\ index \subseteq index'
    BY <1>3 DEF HSet, NewKeys, Keys
  <2>2. OwnersKept /\ owner'[k] = job[r].user
    BY <2>1, NoneElse DEF OwnersKept, IInv, TypeOK
  <2>3. CASE Stumbles(r)
    BY <1>1, <2>1, <2>2, <2>3, StumblesBound
  <2>4. CASE Goto(r, "index", [job[r] EXCEPT !.key = k]) /\ UNCHANGED <<issued, ghost>>
    <3> DEFINE j == [job[r] EXCEPT !.key = k]
    <3>1. j.kind = job[r].kind /\ j.user = job[r].user /\ j.key = k
      BY <1>1 DEF Jobs
    <3>2. Goto(r, "index", j)
      BY <2>4
    <3> HIDE DEF j
    <3>3. Flying(r) => j.kind \in {"login", "change"}
      BY <3>1 DEF Flying
    <3>4. QED
      BY <1>1, <2>1, <2>2, <2>4, <3>1, <3>2, <3>3, MovesOn
  <2>5. QED
    BY <1>3, <2>3, <2>4
<1>4. QED
  BY <1>2, <1>3 DEF Create, ghost

\* A token takes the place of its request, in what is old and in what the
\* redemptions under way have seen: as many survive.
LEMMA IssuesBound ==
    ASSUME IInv, BInv, NEW r \in Requests, pc[r] = "index", job[r].kind # "forgot",
           SAdd(r), Issues(r, job[r].key)
    PROVE  BInv'
<1>1. PICK k \in Tokens : k = job[r].key
  BY DEF IInv, RequestInv, MadeInv
<1> DEFINE token   == {k} \cap alive
           with(s) == IF r \in s THEN (s \ {r}) \cup token ELSE s
<1>2. /\ issued' = issued \cup token /\ index' = index \cup token
      /\ UNCHANGED <<owner, alive>>
      /\ old' = with(old)
      /\ \A q \in Requests : before'[q] = IF q = r THEN {} ELSE with(before[q])
  BY <1>1 DEF Issues, SAdd
<1>3. /\ pc'[r] = "idle" /\ \A q \in Requests \ {r} : pc'[q] = pc[q] /\ job'[q] = job[q]
  BY GotoIs DEF Issues, Ends
<1>4. k \in Keys /\ k \notin Requests /\ owner[k] = job[r].user
  <2>1. k \in Keys /\ k \notin Requests
    BY KindsDistinct DEF Keys
  <2>2. QED
    BY <1>1, <2>1 DEF BInv, MadeFor
<1>5. IssuedInv' /\ OwnersKept
  BY <1>2 DEF BInv, IssuedInv, OwnersKept
<1>6. \A q \in Requests : MadeFor(q)'
  <2>1. MadeFor(r)'
    BY <1>3 DEF MadeFor
  <2>2. QED
    BY <1>3, <1>5, <2>1, MadeKept
<1>7. ASSUME NEW s, NEW x \in with(s)
      PROVE  \/ x \in s /\ x # r
             \/ x = k /\ r \in s /\ x \in token
  BY <1>4, <1>7
<1> HIDE DEF with
<1>8. \A x \in Marked : x # r => Whose(x)' = Whose(x)
  BY <1>2, <1>3 DEF Whose
<1>9. Whose(k)' = Whose(r) /\ Whose(k) = Whose(r)
  BY <1>2, <1>4 DEF Whose
<1>10. ASSUME NEW x \in Marked'
       PROVE  (x \in Marked /\ x # r) \/ (x = k /\ x \in token)
  <2>1. x \in with(old) \/ \E q \in Requests \ {r} : x \in with(before[q])
    BY <1>2 DEF Marked
  <2>2. QED
    BY <1>7, <2>1 DEF Marked
<1>11. MarkedInv'
  <2>1. ASSUME NEW x \in Marked, x # r
        PROVE  x \in issued' \/ (x \in Requests /\ Flying(x)')
    BY <1>2, <1>3, <2>1 DEF BInv, MarkedInv, Flying
  <2>2. QED
    BY <1>2, <1>10, <2>1 DEF MarkedInv
<1>12. BeforeInv'
  <2>1. ASSUME NEW q \in Requests, NEW x \in before'[q]
        PROVE  pc'[q] = "clear" /\ Whose(x)' = owner'[job'[q].key]
    <3>1. q # r /\ x \in with(before[q])
      BY <1>2, <2>1
    <3>2. pc'[q] = pc[q] /\ job'[q] = job[q] /\ owner' = owner
      BY <1>2, <1>3, <3>1
    <3>3. CASE x \in before[q] /\ x # r
      BY <1>8, <3>2, <3>3 DEF BInv, BeforeInv, Marked
    <3>4. CASE x = k /\ r \in before[q]
      BY <1>9, <3>2, <3>4 DEF BInv, BeforeInv
    <3>5. QED
      BY <1>7, <3>1, <3>3, <3>4
  <2>2. QED
    BY <2>1 DEF BeforeInv
<1>13. SurvivorInv'
  <2>1. ASSUME NEW u \in Users, NEW rs \in SUBSET Clearing(u)'
        PROVE  Few(Survivors(u, rs)')
    <3>1. /\ rs \in SUBSET Clearing(u) /\ r \notin rs
          /\ \A q \in rs : q \in Requests /\ job'[q] = job[q] /\ before'[q] = with(before[q])
      BY <1>2, <1>3 DEF Clearing
    <3> DEFINE S == Survivors(u, rs)
               N == Survivors(u, rs)'
    <3>2. Few(S)
      BY <3>1 DEF BInv, SurvivorInv
    <3>3. \A q \in rs : r \notin job[q].members
      BY <3>1, KindsDistinct DEF IInv, TypeOK, Jobs
    <3>4. ASSUME NEW x \in N
          PROVE  (x \in S /\ x # r) \/ (x = k /\ r \in S)
      <4>1. \A q \in rs : x \notin job[q].members
        BY <3>1, <3>4 DEF Survivors
      <4>2. CASE x \in old' /\ Whose(x)' = u
        <5>1. CASE x \in old /\ x # r
          BY <1>8, <4>1, <4>2, <5>1 DEF Survivors, Marked
        <5>2. CASE x = k /\ r \in old
          BY <1>9, <3>3, <4>2, <5>2 DEF Survivors
        <5>3. QED
          BY <1>2, <1>7, <4>2, <5>1, <5>2
      <4>3. ASSUME NEW q \in rs, x \in before'[q]
            PROVE  (x \in S /\ x # r) \/ (x = k /\ r \in S)
        <5>1. x \in with(before[q])
          BY <3>1, <4>3
        <5>2. CASE x \in before[q] /\ x # r
          BY <4>1, <5>2 DEF Survivors
        <5>3. CASE x = k /\ r \in before[q]
          BY <3>3, <5>3 DEF Survivors
        <5>4. QED
          BY <1>7, <5>1, <5>2, <5>3
      <4>4. QED
        BY <3>1, <3>4, <4>2, <4>3 DEF Survivors
    <3> HIDE DEF S, N
    <3>5. CASE r \in S
      <4>1. Few((S \ {r}) \cup {k})
        BY <3>2, <3>5, FewExchanged
      <4>2. N \subseteq (S \ {r}) \cup {k}
        BY <3>4
      <4>3. QED
        BY <4>1, <4>2, FewLess DEF N
    <3>6. CASE r \notin S
      <4>1. N \subseteq S
        BY <3>4, <3>6
      <4>2. QED
        BY <3>2, <4>1, FewLess DEF N
    <3>7. QED
      BY <3>5, <3>6
  <2>2. QED
    BY <2>1 DEF SurvivorInv, Few
<1>14. QED
  BY <1>5, <1>6, <1>11, <1>12, <1>13 DEF BInv

LEMMA IndexingBound ==
    ASSUME IInv, BInv, NEW r \in Requests, Index(r)
    PROVE  BInv'
<1>1. pc[r] = "index" /\ OwnersKept /\ index \subseteq index'
  BY SAddType DEF Index, At, OwnersKept
<1>2. CASE Stumbles(r)
  BY <1>1, <1>2, StumblesBound
<1>3. CASE job[r].kind = "forgot" /\ Mails(r)
  <2>1. Goto(r, "mail", job[r]) /\ UNCHANGED <<issued, ghost>> /\ ~Flying(r)
    BY <1>3 DEF Mails, Flying
  <2>2. QED
    BY <1>1, <2>1, MovesOn
<1>4. CASE SAdd(r) /\ job[r].kind # "forgot" /\ Issues(r, job[r].key)
  BY <1>1, <1>4, IssuesBound
<1>5. QED
  BY <1>2, <1>3, <1>4 DEF Index

-----------------------------------------------------------------------------
(* Redemptions.                                                            *)

\* A redemption that has just read the index would leave the requests in flight,
\* of which it is none: every token of its user is in the index.
LEMMA MembersBound ==
    ASSUME IInv, BInv, NEW r \in Requests, Members(r)
    PROVE  BInv'
<1>1. pc[r] = "members" /\ UNCHANGED redis /\ OwnersKept /\ index \subseteq index'
  BY DEF Members, At, redis, OwnersKept
<1>2. PICK u \in Users : u = owner[job[r].key]
  BY <1>1, PadKnown
<1>3. CASE Fails(r)
  BY <1>1, <1>3, FailsBound
<1>4. CASE /\ Goto(r, "clear", [job[r] EXCEPT !.members = {k \in index : owner[k] = u}])
           /\ before' = [before EXCEPT ![r] = InFlight(u) \cup TokensOf(u)]
           /\ UNCHANGED <<issued, old>>
  <2> DEFINE j == [job[r] EXCEPT !.members = {k \in index : owner[k] = u}]
             seen == InFlight(u) \cup TokensOf(u)
  <2>1. /\ j.members = {k \in index : owner[k] = u} /\ j.key = job[r].key
    <3>1. job[r] \in Jobs
      BY DEF IInv, TypeOK
    <3>2. QED
      BY <3>1 DEF Jobs
  <2>2. Goto(r, "clear", j)
    BY <1>4
  <2> HIDE DEF j
  <2>3. /\ pc'[r] = "clear" /\ job'[r] = j
        /\ \A q \in Requests \ {r} : pc'[q] = pc[q] /\ job'[q] = job[q]
    BY <2>2, GotoIs
  <2>4. /\ before'[r] = seen
        /\ \A q \in Requests \ {r} : before'[q] = before[q]
    BY <1>4 DEF IInv, TypeOK
  <2>5. UNCHANGED <<owner, alive, index, issued, old>>
    BY <1>1, <1>4 DEF redis
  <2>6. IssuedInv' /\ \A q \in Requests : MadeFor(q)'
    <3>1. MadeFor(r)'
      BY <2>3 DEF MadeFor
    <3>2. QED
      BY <1>1, <2>3, <2>5, <3>1, MadeKept DEF BInv, IssuedInv
  <2>7. ASSUME NEW x \in seen
        PROVE  /\ \/ x \in issued /\ x \in Keys /\ owner[x] = u
                  \/ x \in Requests /\ Flying(x) /\ job[x].user = u /\ x # r
               /\ Whose(x)' = u
    <3>1. CASE x \in InFlight(u)
      <4>1. x \in Requests /\ Flying(x) /\ job[x].user = u /\ x # r
        BY <1>1, <3>1 DEF InFlight, Flying
      <4>2. QED
        BY <2>3, <4>1 DEF Whose
    <3>2. CASE x \in TokensOf(u)
      <4>1. x \in issued /\ x \in Keys /\ owner[x] = u /\ x \notin Requests
        BY <3>2, KindsDistinct DEF TokensOf, IInv, TypeOK, Keys
      <4>2. QED
        BY <2>5, <4>1 DEF Whose
    <3>3. QED
      BY <2>7, <3>1, <3>2
  <2> HIDE DEF seen
  <2>8. ASSUME NEW x \in Marked
        PROVE  /\ \/ x \in issued /\ x \in Keys
                  \/ x \in Requests /\ Flying(x) /\ x # r
               /\ Whose(x)' = Whose(x)
               /\ x \in issued => Whose(x) = owner[x]
    <3>1. CASE x \in Requests /\ Flying(x) /\ x \notin Keys
      <4>1. x # r /\ x \notin issued
        BY <1>1, <3>1 DEF Flying, IInv, TypeOK, Keys
      <4>2. QED
        BY <2>3, <3>1, <4>1 DEF Whose
    <3>2. CASE x \in issued /\ x \in Keys /\ x \notin Requests
      BY <2>5, <3>2 DEF Whose
    <3>3. QED
      BY <2>8, <3>1, <3>2, MarkedKnown
  <2>9. MarkedInv'
    <3>1. \A x \in Marked' : x \in Marked \/ x \in seen
      BY <2>4, <2>5 DEF Marked
    <3>2. \A x \in Marked \cup seen : x \in issued' \/ (x \in Requests /\ Flying(x)')
      BY <2>3, <2>5, <2>7, <2>8 DEF Flying
    <3>3. QED
      BY <3>1, <3>2 DEF MarkedInv
  <2>10. BeforeInv'
    <3>1. ASSUME NEW q \in Requests, NEW x \in before'[q]
          PROVE  pc'[q] = "clear" /\ Whose(x)' = owner'[job'[q].key]
      <4>1. CASE q = r
        BY <1>2, <2>1, <2>3, <2>4, <2>5, <2>7, <3>1, <4>1
      <4>2. CASE q # r
        <5>1. x \in before[q] /\ x \in Marked
          BY <2>4, <3>1, <4>2 DEF Marked
        <5>2. QED
          BY <2>3, <2>5, <2>8, <4>2, <5>1 DEF BInv, BeforeInv
      <4>3. QED
        BY <4>1, <4>2
    <3>2. QED
      BY <3>1 DEF BeforeInv
  <2>11. SurvivorInv'
    <3>1. ASSUME NEW v \in Users, NEW rs \in SUBSET Clearing(v)'
          PROVE  Few(Survivors(v, rs)')
      <4>1. /\ rs \ {r} \subseteq Clearing(v) /\ \A q \in rs : q \in Requests
            /\ r \in rs => v = u
        BY <1>2, <2>1, <2>3, <2>5 DEF Clearing
      <4>2. CASE r \notin rs
        <5>1. Survivors(v, rs)' \subseteq Survivors(v, rs)
          <6>1. \A x \in old' : Whose(x)' = v => x \in old /\ Whose(x) = v
            BY <2>5, <2>8 DEF Marked
          <6>2. \A q \in rs : before'[q] = before[q] /\ job'[q] = job[q]
            BY <2>3, <2>4, <4>1, <4>2
          <6>3. QED
            BY <6>1, <6>2 DEF Survivors
        <5>2. rs \in SUBSET Clearing(v)
          BY <4>1, <4>2
        <5>3. QED
          BY <5>1, <5>2, FewLess DEF BInv, SurvivorInv
      <4>3. CASE r \in rs
        <5>1. ASSUME NEW x \in Survivors(v, rs)'
              PROVE  x \in Requests \ {r}
          <6>1. x \notin j.members
            BY <2>3, <4>3, <5>1 DEF Survivors
          <6>2. \/ x \in issued /\ owner[x] = u
                \/ x \in Requests \ {r}
            <7>1. CASE x \in old' /\ Whose(x)' = v
              BY <2>5, <2>8, <4>1, <4>3, <7>1 DEF Marked
            <7>2. CASE x \in seen
              BY <2>7, <7>2
            <7>3. ASSUME NEW q \in rs, q # r, x \in before'[q]
                  PROVE  \/ x \in issued /\ owner[x] = u
                         \/ x \in Requests \ {r}
              <8>1. q \in Clearing(v) /\ x \in before[q] /\ x \in Marked
                BY <2>4, <4>1, <7>3 DEF Marked
              <8>2. Whose(x) = u
                BY <4>1, <4>3, <8>1 DEF BInv, BeforeInv, Clearing
              <8>3. QED
                BY <2>8, <8>1, <8>2
            <7>4. QED
              BY <2>4, <5>1, <7>1, <7>2, <7>3 DEF Survivors
          <6>3. QED
            BY <2>1, <6>1, <6>2 DEF BInv, IssuedInv
        <5>2. QED
          BY <5>1, FewOthers, FewLess
      <4>4. QED
        BY <4>2, <4>3
    <3>2. QED
      BY <3>1 DEF SurvivorInv, Few
  <2>12. QED
    BY <2>6, <2>9, <2>10, <2>11 DEF BInv
<1>5. QED
  BY <1>2, <1>3, <1>4 DEF Members

LEMMA ClearTokenBound ==
    ASSUME IInv, BInv, NEW r \in Requests, ClearToken(r)
    PROVE  BInv'
<1>1. PICK k \in alive : /\ Dies({k})
                         /\ \/ UNCHANGED <<pc, job>> /\ Forgets({k})
                            \/ Ends(r) /\ Forgets({k, r})
  BY DEF ClearToken
<1>2. {k} \in SUBSET Keys /\ {k, r} = {r} \cup {k}
  BY DEF IInv, TypeOK
<1>3. OwnersKept /\ issued' = issued \ {k} /\ index \ {k} \subseteq index'
  BY <1>1 DEF Dies, OwnersKept
<1>4. QED
  BY <1>1, <1>2, <1>3, KeysDie, IsOver

\* A redemption that ends well adds what it has seen to what is old, without what
\* was in the index: all that is dead.
LEMMA UnindexBound ==
    ASSUME IInv, BInv, NEW r \in Requests, Unindex(r)
    PROVE  BInv'
<1>1. pc[r] = "clear" /\ UNCHANGED redis /\ OwnersKept /\ index \subseteq index'
  BY DEF Unindex, At, redis, OwnersKept
<1>2. PICK u \in Users : u = owner[job[r].key]
  BY <1>1, PadKnown
<1>3. CASE Fails(r)
  BY <1>1, <1>3, FailsBound
<1>4. CASE /\ job[r].members \cap alive = {}
           /\ Cleared(r)
           /\ before' = [before EXCEPT ![r] = {}]
           /\ old' = old \cup before[r]
           /\ UNCHANGED issued
  <2>1. PICK l \in {"resetStore", "idle"} : \E j : Goto(r, l, j)
    BY <1>4 DEF Cleared, Ends
  <2>2. /\ pc'[r] = l
        /\ \A q \in Requests \ {r} : pc'[q] = pc[q] /\ job'[q] = job[q]
    BY <2>1, GotoIs
  <2>3. /\ before'[r] = {}
        /\ \A q \in Requests \ {r} : before'[q] = before[q]
        /\ UNCHANGED <<owner, alive, index, issued>>
    BY <1>1, <1>4 DEF IInv, TypeOK, redis
  <2>4. IssuedInv' /\ \A q \in Requests : MadeFor(q)'
    <3>1. MadeFor(r)'
      BY <2>2 DEF MadeFor
    <3>2. QED
      BY <1>1, <2>2, <2>3, <3>1, MadeKept DEF BInv, IssuedInv
  <2>5. \A x \in Marked' : x \in Marked
    BY <1>4, <2>3 DEF Marked
  <2>6. ASSUME NEW x \in Marked
        PROVE  /\ x \in issued' \/ (x \in Requests /\ Flying(x)')
               /\ Whose(x)' = Whose(x)
               /\ x \notin job[r].members
    <3>1. CASE x \in Requests /\ Flying(x) /\ x \notin Keys
      <4>1. x # r
        BY <1>1, <3>1 DEF Flying
      <4>2. x \notin job[r].members
        BY <3>1 DEF IInv, TypeOK, Jobs
      <4>3. QED
        BY <2>2, <3>1, <4>1, <4>2 DEF Flying, Whose
    <3>2. CASE x \in issued /\ x \in alive /\ x \notin Requests
      BY <1>4, <2>3, <3>2 DEF Whose
    <3>3. QED
      BY <2>6, <3>1, <3>2, MarkedKnown
  <2>7. MarkedInv'
    BY <2>5, <2>6 DEF MarkedInv
  <2>8. BeforeInv'
    <3>1. ASSUME NEW q \in Requests, NEW x \in before'[q]
          PROVE  pc'[q] = "clear" /\ Whose(x)' = owner'[job'[q].key]
      <4>1. q # r /\ x \in before[q] /\ x \in Marked
        BY <2>3, <3>1 DEF Marked
      <4>2. QED
        BY <2>2, <2>3, <2>6, <4>1 DEF BInv, BeforeInv
    <3>2. QED
      BY <3>1 DEF BeforeInv
  <2>9. SurvivorInv'
    <3>1. ASSUME NEW v \in Users, NEW rs \in SUBSET Clearing(v)'
          PROVE  Few(Survivors(v, rs)')
      <4>1. /\ r \notin rs /\ rs \in SUBSET Clearing(v)
            /\ \A q \in rs : q \in Requests /\ before'[q] = before[q] /\ job'[q] = job[q]
        BY <2>2, <2>3 DEF Clearing
      <4>2. \A x \in old' : Whose(x)' = v =>
                x \in Marked /\ Whose(x) = v /\ (x \in old \/ x \in before[r])
        BY <1>4, <2>6 DEF Marked
      <4>3. CASE v # u
        <5>1. \A x \in before[r] : Whose(x) = u
          BY <1>2 DEF BInv, BeforeInv
        <5>2. Survivors(v, rs)' \subseteq Survivors(v, rs)
          BY <4>1, <4>2, <4>3, <5>1 DEF Survivors
        <5>3. QED
          BY <4>1, <5>2, FewLess DEF BInv, SurvivorInv
      <4>4. CASE v = u
        <5> DEFINE all == rs \cup {r}
        <5>1. all \in SUBSET Clearing(v)
          BY <1>1, <1>2, <4>1, <4>4 DEF Clearing
        <5>2. ASSUME NEW x \in Survivors(v, rs)'
              PROVE  x \in Survivors(v, all)
          <6>1. \A q \in rs : x \notin job[q].members
            BY <4>1, <5>2 DEF Survivors
          <6>2. \/ x \in old' /\ Whose(x)' = v
                \/ \E q \in rs : x \in before[q]
            BY <4>1, <5>2 DEF Survivors
          <6>3. x \in Marked /\ \/ x \in old /\ Whose(x) = v
                                \/ \E q \in all : x \in before[q]
            BY <4>1, <4>2, <6>2 DEF Marked
          <6>4. \A q \in all : x \notin job[q].members
            BY <2>6, <6>1, <6>3
          <6>5. QED
            BY <6>3, <6>4 DEF Survivors
        <5>3. Few(Survivors(v, all))
          BY <5>1 DEF BInv, SurvivorInv
        <5> HIDE DEF all
        <5>4. QED
          BY <5>2, <5>3, FewLess
      <4>5. QED
        BY <4>3, <4>4
    <3>2. QED
      BY <3>1 DEF SurvivorInv, Few
  <2>10. QED
    BY <2>4, <2>7, <2>8, <2>9 DEF BInv
<1>5. QED
  BY <1>3, <1>4 DEF Unindex
-----------------------------------------------------------------------------
\* The steps of no request.
LEMMA OtherBound ==
    ASSUME IInv, BInv, KeyExpires \/ RedisRestarts \/ ServerCrashes
    PROVE  BInv'
<1>1. CASE KeyExpires \/ RedisRestarts
  <2>1. PICK keys \in SUBSET Keys : Dies(keys) /\ Forgets(keys) /\ UNCHANGED <<pc, job>>
    <3>1. \A k \in alive : {k} \in SUBSET Keys
      BY DEF IInv, TypeOK
    <3>2. QED
      BY <1>1, <3>1 DEF KeyExpires, RedisRestarts
  <2>2. QED
    BY <2>1, KeysDie
<1>2. CASE ServerCrashes
  <2>1. /\ \A q \in Requests : pc'[q] = "idle"
        /\ Forgets(Requests) /\ UNCHANGED <<redis, issued>>
    BY <1>2 DEF ServerCrashes
  <2>2. IssuedInv' /\ OwnersKept /\ \A q \in Requests : MadeFor(q)'
    BY <2>1 DEF BInv, IssuedInv, OwnersKept, MadeFor, redis
  <2>3. /\ old' \subseteq old
        /\ \A q \in Requests : before'[q] \subseteq before[q] /\ before'[q] = {}
        /\ Marked' \subseteq Marked \ Requests
    BY <2>1, ForgetsShrinks
  <2>4. \A x \in Marked' : x \in issued'
    BY <2>1, <2>3 DEF BInv, MarkedInv
  <2>5. QED
    BY <2>1, <2>2, <2>3, <2>4, Shrinks
<1>3. QED
  BY <1>1, <1>2

LEMMA RequestBound ==
    ASSUME IInv, BInv, NEW r \in Requests, Request(r)
    PROVE  BInv'
<1>1. CASE PostLogin(r) \/ PatchLogin(r)
  BY <1>1, SelectBound DEF PostLogin, PatchLogin, At
<1>2. CASE SelectAgain(r)
  BY <1>2, SelectBound, UpdateFails DEF SelectAgain, At
<1>3. CASE Miss(r) \/ Hit(r) \/ Store(r) \/ ResetStore(r)
  BY <1>3, SqlBound
<1>4. CASE DeleteLogin(r) \/ SendMail(r) \/ Sent(r) \/ PatchLoginWithPad(r)
  BY <1>4, MailBound, PadBound
<1>5. CASE Create(r) \/ Index(r)
  BY <1>5, CreateBound, IndexingBound
<1>6. CASE Members(r) \/ ClearToken(r) \/ Unindex(r)
  BY <1>6, MembersBound, ClearTokenBound, UnindexBound
<1>7. QED
  BY <1>1, <1>2, <1>3, <1>4, <1>5, <1>6 DEF Request

LEMMA BoundInitially ==
    ASSUME Init
    PROVE  BInv
<1>1. Marked = {} /\ \A r \in Requests : before[r] = {} /\ pc[r] = "idle"
  BY DEF Init, Marked
<1>2. IssuedInv /\ MarkedInv /\ BeforeInv /\ \A r \in Requests : MadeFor(r)
  BY <1>1 DEF Init, IssuedInv, MarkedInv, BeforeInv, MadeFor
<1>3. ASSUME NEW u \in Users, NEW rs \in SUBSET Clearing(u)
      PROVE  Few(Survivors(u, rs))
  <2>1. Survivors(u, rs) = {}
    BY <1>1 DEF Init, Survivors, Clearing
  <2>2. PICK r \in Requests : TRUE
    BY RequestsFinite
  <2>3. QED
    BY <2>1, FewOthers, FewLess
<1>4. QED
  BY <1>2, <1>3 DEF BInv, SurvivorInv

\* A reset leaves at most one login of its user from before it for each other
\* request, however many resets and logins overlap.
THEOREM OldLoginsStayBounded == Spec => []OldLoginsBounded
<1>1. ASSUME IInv, BInv, [Next]_vars
      PROVE  BInv'
  <2>1. CASE Next
    BY <1>1, <2>1, OtherBound, RequestBound DEF Next
  <2>2. CASE UNCHANGED vars
    BY <1>1, <2>2 DEF vars, mysql, redis, ghost, BInv, IssuedInv, MarkedInv, BeforeInv, MadeFor,
                      SurvivorInv, Survivors, Clearing, Marked, Flying, Whose
  <2>3. QED
    BY <1>1, <2>1, <2>2
<1>2. ASSUME IInv, BInv
      PROVE  OldLoginsBounded
  <2>1. ASSUME NEW u \in Users
        PROVE  Cardinality({k \in old \cap Tokens : owner[k] = u}) <= Cardinality(Requests) - 1
    <3> DEFINE left == {k \in old \cap Tokens : owner[k] = u}
    <3>1. left \subseteq Survivors(u, {})
      BY KindsDistinct DEF Survivors, Whose, Keys
    <3>2. Few(Survivors(u, {}))
      BY <1>2 DEF BInv, SurvivorInv
    <3> HIDE DEF left
    <3>3. Few(left)
      BY <3>1, <3>2, FewLess
    <3>4. QED
      BY <3>3 DEF Few, left
  <2>2. QED
    BY <2>1 DEF OldLoginsBounded
<1>3. QED
  BY <1>1, <1>2, BoundInitially, Inductive, PTL DEF Spec
=============================================================================
