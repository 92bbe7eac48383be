------------------------ MODULE TokenStoreBoundProofs ------------------------
(***************************************************************************)
(* The bound concurrent logins respect.  checkCount reads the size of the   *)
(* index and reserves nothing; a call it lets through adds its key later.   *)
(* Counting the calls let through with the index makes the bound inductive: *)
(* a call is let through either when the index had room (then all the calls *)
(* there are fit in the bound) or after it removed at least one stale       *)
(* member, whose place it takes.                                            *)
(*                                                                          *)
(* One call at a time, the bound is MaxLogins itself, and without faults a  *)
(* refused login is a user who has MaxLogins logins: a sweep leaves no      *)
(* stale member behind when nobody else changes the store meanwhile.        *)
(***************************************************************************)
EXTENDS TokenStoreProofs, FiniteSetTheorems

Bound == MaxLogins - 1 + Cardinality(Requests)

BoundInv ==
    /\ \A u \in Users : IsFiniteSet(logins[u])
    /\ \A r \in Requests : pc[r] \in {"probe", "sweep"} =>
         IsFiniteSet(snap[r]) /\ Cardinality(snap[r]) >= MaxLogins
    /\ IndexBound

\* Adding an element to a finite set adds at most one to its size.
LEMMA AddOne ==
    ASSUME NEW S, NEW x, IsFiniteSet(S)
    PROVE  /\ IsFiniteSet(S \cup {x})
           /\ Cardinality(S \cup {x}) <= Cardinality(S) + 1
           /\ Cardinality(S \cup {x}) \in Nat
<1>1. Cardinality(S) \in Nat
  BY FS_CardinalityType
<1>2. /\ IsFiniteSet(S \cup {x})
      /\ Cardinality(S \cup {x}) = IF x \in S THEN Cardinality(S) ELSE Cardinality(S) + 1
  BY FS_AddElement
<1>3. QED
  BY <1>1, <1>2

\* The calls let through are finitely many.
LEMMA AdmittedFinite ==
    ASSUME NEW u \in Users
    PROVE  /\ IsFiniteSet(Admitted(u)) /\ Cardinality(Admitted(u)) \in Nat
           /\ Cardinality(Admitted(u)) <= Cardinality(Requests)
           /\ Cardinality(Requests) \in Nat
<1>1. Admitted(u) \in SUBSET Requests
  BY DEF Admitted
<1>2. QED
  BY <1>1, RequestsFinite, FS_Subset, FS_CardinalityType

\* So they are after a step.
LEMMA AdmittedFiniteNext ==
    ASSUME NEW u \in Users
    PROVE  /\ IsFiniteSet(Admitted(u)') /\ Cardinality(Admitted(u)') \in Nat
           /\ Cardinality(Admitted(u)') <= Cardinality(Requests)
<1>1. Admitted(u)' \in SUBSET Requests
  BY DEF Admitted
<1>2. QED
  BY <1>1, RequestsFinite, FS_Subset, FS_CardinalityType

\* Nothing enters an index and no call is let through.
LEMMA Shrinks ==
    ASSUME BoundInv, NEW u \in Users,
           logins'[u] \subseteq logins[u], Admitted(u)' \subseteq Admitted(u)
    PROVE  /\ IsFiniteSet(logins'[u])
           /\ Cardinality(logins'[u]) + Cardinality(Admitted(u)') <= Bound
<1>1. /\ IsFiniteSet(logins'[u]) /\ Cardinality(logins'[u]) <= Cardinality(logins[u])
      /\ Cardinality(logins'[u]) \in Nat /\ Cardinality(logins[u]) \in Nat
  BY FS_Subset, FS_CardinalityType DEF BoundInv
<1>2. /\ Cardinality(Admitted(u)') <= Cardinality(Admitted(u))
      /\ Cardinality(Admitted(u)') \in Nat /\ Cardinality(Admitted(u)) \in Nat
      /\ Cardinality(Requests) \in Nat
  BY AdmittedFinite, FS_Subset, FS_CardinalityType
<1>3. Cardinality(logins[u]) + Cardinality(Admitted(u)) <= Bound
  BY DEF BoundInv, IndexBound, Bound
<1>4. QED
  BY <1>1, <1>2, <1>3, MaxPositive DEF Bound

Admissible == {"hset", "expire", "sadd"}

\* A step of r that does not let r through leaves every Admitted set as it was
\* or without r.
LEMMA AdmittedShrinks ==
    ASSUME NEW r \in Requests, NEW u \in Users, Others(r),
           pc'[r] \in Admissible => pc[r] \in Admissible /\ user'[r] = user[r] /\ op'[r] = op[r]
    PROVE  Admitted(u)' \subseteq Admitted(u)
BY DEF Others, LocalsSame, Admitted, Admissible

\* A call that counts fewer than MaxLogins members may be let through.
LEMMA CountBound ==
    ASSUME IInv, BoundInv, NEW r \in Requests, CountMembers(r)
    PROVE  BoundInv'
<1>1. StepOK(r) /\ Others(r) /\ UNCHANGED <<redis, user, op>> /\ pc[r] = "count"
  BY CountStep DEF StepOK, Others, CountMembers, At, Fails
<1>2. /\ user[r] \in Users /\ IsFiniteSet(logins[user[r]])
      /\ Cardinality(logins[user[r]]) \in Nat
  BY <1>1, FS_CardinalityType DEF IInv, RequestInv, CreateInv, Counting, BoundInv
<1>3. ASSUME NEW u \in Users
      PROVE  /\ IsFiniteSet(logins'[u])
             /\ Cardinality(logins'[u]) + Cardinality(Admitted(u)') <= Bound
  <2>1. CASE pc'[r] \in Admissible /\ u = user[r]
    <3>1. Cardinality(logins[u]) < MaxLogins
      BY <1>1, <1>2, <2>1 DEF CountMembers, Fails, Goto, Admissible, IInv, TypeOK
    <3>2. /\ Cardinality(Admitted(u)') \in Nat /\ Cardinality(Admitted(u)') <= Cardinality(Requests)
          /\ Cardinality(Requests) \in Nat
      BY AdmittedFinite, AdmittedFiniteNext
    <3>3. logins'[u] = logins[u]
      BY <1>1 DEF redis
    <3>4. QED
      BY <1>2, <2>1, <3>1, <3>2, <3>3, MaxPositive DEF Bound, BoundInv
  <2>2. CASE ~(pc'[r] \in Admissible /\ u = user[r])
    <3>1. Admitted(u)' \subseteq Admitted(u)
      BY <1>1, <2>2 DEF Others, LocalsSame, Admitted, Admissible
    <3>2. QED
      BY <1>1, <3>1, Shrinks DEF redis
  <2>3. QED
    BY <2>1, <2>2
<1>4. ASSUME NEW q \in Requests, pc'[q] \in {"probe", "sweep"}
      PROVE  IsFiniteSet(snap'[q]) /\ Cardinality(snap'[q]) >= MaxLogins
  <2>1. CASE q = r
    <3>1. snap'[r] = logins[user[r]] /\ ~(Cardinality(logins[user[r]]) < MaxLogins)
      BY <1>1, <1>4, <2>1 DEF CountMembers, Fails, Goto, IInv, TypeOK
    <3>2. QED
      BY <1>2, <2>1, <3>1, MaxPositive
  <2>2. CASE q # r
    BY <1>1, <1>4, <2>2 DEF Others, LocalsSame, BoundInv
  <2>3. QED
    BY <2>1, <2>2
<1>5. QED
  BY <1>3, <1>4 DEF BoundInv, IndexBound, Bound

\* Past the sweep only if a member was removed: SREM's reply is positive.
LEMMA SweepBound ==
    ASSUME IInv, BoundInv, NEW r \in Requests, Sweep(r)
    PROVE  BoundInv'
<1>1. /\ StepOK(r) /\ Others(r) /\ UNCHANGED <<user, op>> /\ pc[r] = "sweep"
      /\ pc'[r] \in {"hset", "refused", "error"}
  BY SweepStep DEF StepOK, Others, Sweep, At, Goto, Fails, local, IInv, TypeOK
<1>2. /\ user[r] \in Users /\ op[r] \in {"login", "otp"}
      /\ IsFiniteSet(logins[user[r]]) /\ Cardinality(logins[user[r]]) \in Nat
  BY <1>1, FS_CardinalityType DEF IInv, RequestInv, CreateInv, Counting, BoundInv
<1>3. \A u \in Users : logins'[u] \subseteq logins[u]
  BY <1>1 DEF StepOK, Guarantee, Own
<1>4. ASSUME NEW u \in Users
      PROVE  /\ IsFiniteSet(logins'[u])
             /\ Cardinality(logins'[u]) + Cardinality(Admitted(u)') <= Bound
  <2>1. CASE pc'[r] = "hset" /\ u = user[r]
    <3>1. PICK removed \in SRemReplies(r) :
            Cardinality(snap[r]) - removed < MaxLogins
      BY <2>1 DEF Sweep, Fails, Goto, IInv, TypeOK
    <3>2. logins'[u] = logins[u] \ gone[r]
      BY <1>2, <2>1 DEF Sweep, SRemKeys, Fails, Goto, IInv, TypeOK
    <3>3. /\ Cardinality(snap[r]) >= MaxLogins
          /\ IsFiniteSet(snap[r]) /\ Cardinality(snap[r]) \in Nat
      BY <1>1, FS_CardinalityType DEF BoundInv
    <3>4. /\ IsFiniteSet(gone[r] \cap logins[u])
          /\ Cardinality(gone[r] \cap logins[u]) \in Nat
      BY <1>2, <2>1, FS_Subset, FS_CardinalityType
    <3>5. Cardinality(gone[r] \cap logins[u]) >= 1
      <4>1. removed \in {Cardinality(gone[r] \cap logins[u]), 0}
        BY <2>1, <3>1 DEF SRemReplies
      <4>2. QED
        BY <3>1, <3>3, <3>4, <4>1, MaxPositive
    <3>6. /\ IsFiniteSet(logins'[u]) /\ Cardinality(logins'[u]) \in Nat
          /\ Cardinality(logins'[u]) <= Cardinality(logins[u]) - 1
      <4>1. gone[r] \cap logins[u] # {}
        BY <3>5, FS_EmptySet
      <4>2. PICK k \in logins[u] : k \in gone[r]
        BY <4>1
      <4>3. /\ IsFiniteSet(logins[u] \ {k})
            /\ Cardinality(logins[u] \ {k}) = Cardinality(logins[u]) - 1
        BY <1>2, <2>1, <4>2, FS_RemoveElement
      <4>4. logins'[u] \in SUBSET (logins[u] \ {k})
        BY <3>2, <4>2
      <4>5. QED
        BY <4>3, <4>4, FS_Subset, FS_CardinalityType
    <3>7. /\ Cardinality(Admitted(u)') <= Cardinality(Admitted(u)) + 1
          /\ Cardinality(Admitted(u)') \in Nat /\ Cardinality(Admitted(u)) \in Nat
      <4>1. Admitted(u)' \in SUBSET (Admitted(u) \cup {r})
        BY <1>1 DEF Others, LocalsSame, Admitted
      <4>2. /\ IsFiniteSet(Admitted(u)) /\ Cardinality(Admitted(u)) \in Nat
        BY AdmittedFinite
      <4>3. /\ IsFiniteSet(Admitted(u) \cup {r})
            /\ Cardinality(Admitted(u) \cup {r}) <= Cardinality(Admitted(u)) + 1
            /\ Cardinality(Admitted(u) \cup {r}) \in Nat
        BY <4>2, AddOne
      <4>4. /\ IsFiniteSet(Admitted(u)')
            /\ Cardinality(Admitted(u)') <= Cardinality(Admitted(u) \cup {r})
        BY <4>1, <4>3, FS_Subset
      <4>5. Cardinality(Admitted(u)') \in Nat
        BY AdmittedFiniteNext
      <4>6. QED
        BY <4>2, <4>3, <4>4, <4>5
    <3>8. /\ Cardinality(logins[u]) + Cardinality(Admitted(u)) <= Bound
          /\ Cardinality(Requests) \in Nat
      BY AdmittedFinite DEF BoundInv, IndexBound, Bound
    <3>9. QED
      BY <1>2, <2>1, <3>6, <3>7, <3>8, MaxPositive DEF Bound
  <2>2. CASE ~(pc'[r] = "hset" /\ u = user[r])
    <3>1. Admitted(u)' \subseteq Admitted(u)
      BY <1>1, <2>2 DEF Others, LocalsSame, Admitted
    <3>2. QED
      BY <1>3, <3>1, Shrinks
  <2>3. QED
    BY <2>1, <2>2
<1>5. \A q \in Requests : pc'[q] \in {"probe", "sweep"} =>
        IsFiniteSet(snap'[q]) /\ Cardinality(snap'[q]) >= MaxLogins
  BY <1>1 DEF Others, LocalsSame, BoundInv
<1>6. QED
  BY <1>4, <1>5 DEF BoundInv, IndexBound, Bound

\* The key enters the index as its call leaves the ones let through.
LEMMA SAddBound ==
    ASSUME IInv, BoundInv, NEW r \in Requests, SAdd(r)
    PROVE  BoundInv'
<1>1. /\ StepOK(r) /\ Others(r) /\ UNCHANGED <<user, op>> /\ pc[r] = "sadd"
      /\ pc'[r] \in {"ok", "error"}
  BY SAddStep DEF StepOK, Others, SAdd, At, Goto, Fails, local, IInv, TypeOK
<1>2. user[r] \in Users /\ op[r] \in {"login", "otp"}
  BY <1>1 DEF IInv, RequestInv, CreateInv, Creating
<1>3. \A u \in Users : logins'[u] \subseteq IF u = user[r] THEN logins[u] \cup {key[r]} ELSE logins[u]
  BY <1>2 DEF SAdd, SAddKey, Fails, redis, IInv, TypeOK
<1>4. ASSUME NEW u \in Users
      PROVE  /\ IsFiniteSet(logins'[u])
             /\ Cardinality(logins'[u]) + Cardinality(Admitted(u)') <= Bound
  <2>1. CASE u = user[r]
    <3>1. /\ IsFiniteSet(logins[u]) /\ Cardinality(logins[u]) \in Nat
          /\ IsFiniteSet(Admitted(u)) /\ Cardinality(Admitted(u)) \in Nat
          /\ Cardinality(Requests) \in Nat
      BY AdmittedFinite, FS_CardinalityType DEF BoundInv
    <3>2. /\ IsFiniteSet(logins[u] \cup {key[r]})
          /\ Cardinality(logins[u] \cup {key[r]}) <= Cardinality(logins[u]) + 1
          /\ Cardinality(logins[u] \cup {key[r]}) \in Nat
      BY <3>1, AddOne
    <3>3. /\ IsFiniteSet(logins'[u]) /\ Cardinality(logins'[u]) \in Nat
          /\ Cardinality(logins'[u]) <= Cardinality(logins[u]) + 1
      <4>1. logins'[u] \in SUBSET (logins[u] \cup {key[r]})
        BY <1>3, <2>1
      <4>2. /\ IsFiniteSet(logins'[u]) /\ Cardinality(logins'[u]) \in Nat
            /\ Cardinality(logins'[u]) <= Cardinality(logins[u] \cup {key[r]})
        BY <3>2, <4>1, FS_Subset, FS_CardinalityType
      <4>3. QED
        BY <3>1, <3>2, <4>2
    <3>4. Cardinality(Admitted(u)') <= Cardinality(Admitted(u)) - 1
      <4>1. r \in Admitted(u) /\ Admitted(u)' \in SUBSET (Admitted(u) \ {r})
        BY <1>1, <1>2, <2>1 DEF Others, LocalsSame, Admitted
      <4>2. /\ IsFiniteSet(Admitted(u) \ {r})
            /\ Cardinality(Admitted(u) \ {r}) = Cardinality(Admitted(u)) - 1
        BY <3>1, <4>1, FS_RemoveElement
      <4>3. QED
        BY <4>1, <4>2, FS_Subset
    <3>5. Cardinality(Admitted(u)') \in Nat
      BY AdmittedFiniteNext
    <3>6. Cardinality(logins[u]) + Cardinality(Admitted(u)) <= Bound
      BY DEF BoundInv, IndexBound, Bound
    <3>7. QED
      BY <3>1, <3>3, <3>4, <3>5, <3>6, MaxPositive DEF Bound
  <2>2. CASE u # user[r]
    <3>1. Admitted(u)' \subseteq Admitted(u)
      BY <1>1, <2>2 DEF Others, LocalsSame, Admitted
    <3>2. QED
      BY <1>3, <2>2, <3>1, Shrinks
  <2>3. QED
    BY <2>1, <2>2
<1>5. \A q \in Requests : pc'[q] \in {"probe", "sweep"} =>
        IsFiniteSet(snap'[q]) /\ Cardinality(snap'[q]) >= MaxLogins
  BY <1>1 DEF Others, LocalsSame, BoundInv
<1>6. QED
  BY <1>4, <1>5 DEF BoundInv, IndexBound, Bound

\* Every other step of a request only shrinks what the bound counts.
LEMMA OtherBound ==
    ASSUME IInv, BoundInv, NEW r \in Requests, Request(r),
           ~CountMembers(r), ~Sweep(r), ~SAdd(r)
    PROVE  BoundInv'
<1>1. StepOK(r) /\ Others(r)
  BY RequestStep DEF StepOK, Others
<1>2. /\ pc[r] # "sadd"
      /\ pc'[r] \in Admissible => pc[r] \in Admissible /\ user'[r] = user[r] /\ op'[r] = op[r]
      /\ pc'[r] \in {"probe", "sweep"} => pc[r] \in {"probe", "sweep"} /\ snap'[r] = snap[r]
  <2>1. CASE Login(r) \/ OTP(r) \/ Valid(r) \/ Logout(r) \/ LoginOTP(r) \/ CompleteOTP(r)
    BY <2>1 DEF Login, OTP, Valid, Logout, LoginOTP, CompleteOTP, Call, At, Goto, Admissible,
                IInv, TypeOK
  <2>2. CASE Probe(r)
    BY <2>2 DEF Probe, Fails, At, Goto, Admissible, IInv, TypeOK
  <2>3. CASE HSet(r) \/ SetExpiry(r)
    BY <2>3 DEF HSet, SetExpiry, Fails, At, Goto, Admissible, IInv, TypeOK, local
  <2>4. CASE CheckExists(r) \/ Touch(r) \/ LogoutUser(r) \/ LogoutHDel(r) \/ LogoutSRem(r)
    BY <2>4 DEF CheckExists, Touch, LogoutUser, LogoutHDel, LogoutSRem, Fails, At, Goto,
                Admissible, IInv, TypeOK
  <2>5. CASE Lookup(r) \/ Redeem(r) \/ Members(r) \/ Unindex(r)
    BY <2>5 DEF Lookup, Redeem, Members, Unindex, Fails, At, Goto, Admissible, IInv, TypeOK
  <2>6. CASE ClearToken(r)
    BY <2>6 DEF ClearToken, Fails, At, Goto, Admissible, IInv, TypeOK
  <2>7. CASE Reply(r)
    BY <2>7 DEF Reply, Outcomes, Goto, Admissible, IInv, TypeOK
  <2>8. QED
    BY <2>1, <2>2, <2>3, <2>4, <2>5, <2>6, <2>7 DEF Request
<1>3. \A u \in Users : logins'[u] \subseteq logins[u]
  BY <1>1, <1>2 DEF StepOK, Guarantee, Own
<1>4. \A u \in Users : Admitted(u)' \subseteq Admitted(u)
  BY <1>1, <1>2, AdmittedShrinks
<1>5. \A q \in Requests : pc'[q] \in {"probe", "sweep"} =>
        IsFiniteSet(snap'[q]) /\ Cardinality(snap'[q]) >= MaxLogins
  BY <1>1, <1>2 DEF Others, LocalsSame, BoundInv
<1>6. QED
  BY <1>3, <1>4, <1>5, Shrinks DEF BoundInv, IndexBound, Bound

\* Expiry, restarts and crashes keep the bound.
LEMMA EnvironmentBound ==
    ASSUME IInv, BoundInv,
           (\E k \in Keys : KeyExpires(k)) \/ RedisRestarts \/ ServerCrashes \/ UNCHANGED vars
    PROVE  BoundInv'
<1>1. \A u \in Users : logins'[u] \subseteq logins[u]
  BY DEF KeyExpires, RedisRestarts, ServerCrashes, vars, redis
<1>2. \A u \in Users : Admitted(u)' \subseteq Admitted(u)
  BY DEF KeyExpires, RedisRestarts, ServerCrashes, vars, local, Admitted
<1>3. \A q \in Requests : pc'[q] \in {"probe", "sweep"} =>
        IsFiniteSet(snap'[q]) /\ Cardinality(snap'[q]) >= MaxLogins
  BY DEF KeyExpires, RedisRestarts, ServerCrashes, vars, local, BoundInv
<1>4. QED
  BY <1>1, <1>2, <1>3, Shrinks DEF BoundInv, IndexBound, Bound

\* The bound holds with Redis empty and no calls.
LEMMA InitBound == Init => BoundInv
<1> SUFFICES ASSUME Init PROVE BoundInv
  OBVIOUS
<1>1. ASSUME NEW u \in Users
      PROVE  logins[u] = {} /\ Admitted(u) = {}
  BY DEF Init, Admitted
<1>2. Cardinality(Requests) \in Nat
  BY RequestsFinite, FS_CardinalityType
<1>3. IndexBound
  <2>1. 0 + 0 <= MaxLogins - 1 + Cardinality(Requests)
    BY <1>2, MaxPositive
  <2>2. QED
    BY <1>1, <2>1, FS_EmptySet DEF IndexBound
<1>4. \A u \in Users : IsFiniteSet(logins[u])
  BY <1>1, FS_EmptySet
<1>5. \A r \in Requests : pc[r] \notin {"probe", "sweep"}
  BY DEF Init
<1>6. QED
  BY <1>3, <1>4, <1>5 DEF BoundInv

\* No user has more than MaxLogins - 1 + (calls at once) entries in the index:
\* the limit is exceeded by at most the calls that checked it concurrently.
THEOREM IndexStaysBounded == Spec => []IndexBound
<1>1. IInv /\ BoundInv /\ [Next]_vars => BoundInv'
  BY CountBound, SweepBound, SAddBound, OtherBound, EnvironmentBound DEF Next
<1>2. BoundInv => IndexBound
  BY DEF BoundInv
<1>3. QED
  BY <1>1, <1>2, InitBound, SpecIInv, PTL DEF Spec
-----------------------------------------------------------------------------
(* One call at a time, with commands that are sent once and a Redis that   *)
(* does not restart: nothing comes between the reading of the index and    *)
(* what is made of it.                                                     *)

OneCall  == Cardinality(Requests) = 1
NoFaults == Faults = {}

SweepInv(r) ==
    /\ pc[r] \in {"idle", "count"} => gone[r] = {}
    /\ pc[r] \in {"probe", "sweep"} => snap[r] = logins[user[r]] /\ gone[r] \subseteq snap[r]
    /\ pc[r] = "probe" => todo[r] \subseteq snap[r]
    /\ pc[r] = "refused" => Cardinality(snap[r] \ gone[r]) >= MaxLogins

\* What is left of a finite set without some of its elements.
LEMMA Without ==
    ASSUME NEW S, NEW T, IsFiniteSet(S), T \subseteq S
    PROVE  Cardinality(S) - Cardinality(T) = Cardinality(S \ T)
<1>1. S \cap T = T
  OBVIOUS
<1>2. Cardinality(S) \in Nat /\ Cardinality(T) \in Nat
  BY FS_Subset, FS_CardinalityType
<1>3. Cardinality(S \ T) = Cardinality(S) - Cardinality(T)
  BY <1>1, FS_Difference
<1>4. QED
  BY <1>3

\* checkCount refuses only after it has seen MaxLogins live members.
LEMMA SweepOwn ==
    ASSUME NoFaults, IInv, BoundInv, NEW r \in Requests, SweepInv(r), Request(r)
    PROVE  SweepInv(r)'
<1>1. /\ TypeOK
      /\ pc[r] \in {"probe", "sweep"} =>
           IsFiniteSet(snap[r]) /\ Cardinality(snap[r]) >= MaxLogins
  BY DEF IInv, BoundInv
<1>2. CASE CountMembers(r)
  BY <1>1, <1>2 DEF CountMembers, Fails, At, Goto, SweepInv, TypeOK, redis
<1>3. CASE Probe(r)
  <2>1. CASE Fails(r, UNCHANGED redis)
    BY <1>1, <2>1 DEF Fails, Goto, SweepInv, TypeOK
  <2>2. CASE ~ Fails(r, UNCHANGED redis)
    <3>1. PICK k \in todo[r] :
            /\ gone' = [gone EXCEPT ![r] = IF Live(k) THEN gone[r] ELSE gone[r] \cup {k}]
            /\ todo' = [todo EXCEPT ![r] = @ \ {k}]
            /\ Goto(r, CASE todo[r] # {k} -> "probe"
                         [] todo[r] = {k} /\ (IF Live(k) THEN gone[r] ELSE gone[r] \cup {k}) = {}
                              -> "refused"
                         [] OTHER -> "sweep")
            /\ UNCHANGED <<redis, user, snap>>
      BY <1>3, <2>2 DEF Probe
    <3>2. /\ gone'[r] \in {gone[r], gone[r] \cup {k}} /\ todo'[r] \subseteq todo[r]
          /\ snap'[r] = snap[r] /\ logins'[user'[r]] = logins[user[r]]
          /\ pc'[r] \in {"probe", "sweep", "refused"}
          /\ pc'[r] = "refused" => gone'[r] = {}
      BY <1>1, <3>1 DEF Goto, TypeOK, redis
    <3>3. At(r, "probe") /\ k \in snap[r]
      BY <1>3, <3>1 DEF Probe, SweepInv, At
    <3>4. snap[r] \ {} = snap[r]
      OBVIOUS
    <3>5. QED
      BY <1>1, <3>2, <3>3, <3>4 DEF SweepInv, At
  <2>3. QED
    BY <2>1, <2>2
<1>4. CASE Sweep(r)
  <2>1. /\ At(r, "sweep") /\ snap[r] = logins[user[r]] /\ gone[r] \subseteq snap[r]
        /\ IsFiniteSet(snap[r])
    BY <1>1, <1>4 DEF Sweep, SweepInv, At
  <2>2. CASE pc'[r] = "refused"
    <3>1. snap'[r] = snap[r] /\ gone'[r] = gone[r]
      BY <1>1, <1>4, <2>2 DEF Sweep, Fails, Goto, TypeOK, local
    <3>2. PICK removed \in SRemReplies(r) : ~ (Cardinality(snap[r]) - removed < MaxLogins)
      BY <1>1, <1>4, <2>2 DEF Sweep, Fails, Goto, TypeOK
    <3>3. removed = Cardinality(gone[r])
      <4>1. gone[r] \cap logins[user[r]] = gone[r]
        BY <2>1
      <4>2. QED
        BY <3>2, <4>1 DEF SRemReplies, NoFaults
    <3>4. Cardinality(snap[r]) - removed = Cardinality(snap[r] \ gone[r])
      BY <2>1, <3>3, Without
    <3>5. Cardinality(snap[r] \ gone[r]) \in Nat
      BY <2>1, FS_Subset, FS_CardinalityType
    <3>6. QED
      BY <2>2, <3>1, <3>2, <3>4, <3>5, MaxPositive DEF SweepInv
  <2>3. CASE pc'[r] # "refused"
    <3>1. pc'[r] \in {"hset", "error"}
      BY <1>1, <1>4, <2>3 DEF Sweep, Fails, Goto, TypeOK
    <3>2. QED
      BY <3>1 DEF SweepInv
  <2>4. QED
    BY <2>2, <2>3
<1>5. CASE ~ (CountMembers(r) \/ Probe(r) \/ Sweep(r))
  <2>1. /\ pc'[r] \notin {"probe", "sweep", "refused"}
        /\ pc'[r] \in {"idle", "count"} => gone'[r] = {}
    <3>1. CASE Login(r) \/ OTP(r) \/ Valid(r) \/ Logout(r) \/ LoginOTP(r) \/ CompleteOTP(r)
      BY <1>1, <3>1 DEF Login, OTP, Valid, Logout, LoginOTP, CompleteOTP, Call, At, Goto,
                        TypeOK, SweepInv
    <3>2. CASE HSet(r) \/ SetExpiry(r) \/ SAdd(r)
      BY <1>1, <3>2 DEF HSet, SetExpiry, SAdd, Fails, Goto, TypeOK
    <3>3. CASE CheckExists(r) \/ Touch(r) \/ LogoutUser(r) \/ LogoutHDel(r) \/ LogoutSRem(r)
      BY <1>1, <3>3 DEF CheckExists, Touch, LogoutUser, LogoutHDel, LogoutSRem, Fails, Goto, TypeOK
    <3>4. CASE Lookup(r) \/ Redeem(r) \/ Members(r) \/ ClearToken(r) \/ Unindex(r)
      BY <1>1, <3>4 DEF Lookup, Redeem, Members, ClearToken, Unindex, Fails, Goto, TypeOK
    <3>5. CASE Reply(r)
      BY <1>1, <3>5 DEF Reply, Goto, TypeOK
    <3>6. QED
      BY <1>5, <3>1, <3>2, <3>3, <3>4, <3>5 DEF Request
  <2>2. QED
    BY <2>1 DEF SweepInv
<1>6. QED
  BY <1>2, <1>3, <1>4, <1>5

\* One call at a time, every step keeps that so.
LEMMA SweepStays ==
    ASSUME OneCall, NoFaults, IInv, BoundInv, \A r \in Requests : SweepInv(r), [Next]_vars
    PROVE  \A r \in Requests : SweepInv(r)'
<1>1. PICK r : Requests = {r}
  BY RequestsFinite, FS_Singleton DEF OneCall
<1>2. CASE Request(r)
  BY <1>1, <1>2, SweepOwn
<1>3. CASE (\E k \in Keys : KeyExpires(k)) \/ UNCHANGED vars
  BY <1>1, <1>3 DEF KeyExpires, vars, local, redis, SweepInv
<1>4. CASE ServerCrashes
  BY <1>1, <1>4 DEF ServerCrashes, SweepInv
<1>5. ~ RedisRestarts
  BY DEF RedisRestarts, NoFaults
<1>6. QED
  BY <1>1, <1>2, <1>3, <1>4, <1>5 DEF Next

\* It takes concurrent calls to exceed MaxLogins: one at a time, checkCount keeps
\* what the configuration says, with commands failing, keys expiring and restarts.
THEOREM OneCallWithinMax == OneCall /\ Spec => []LoginsWithinMax
<1> SUFFICES ASSUME OneCall PROVE Spec => []LoginsWithinMax
  OBVIOUS
<1>1. BoundInv => LoginsWithinMax
  <2> SUFFICES ASSUME BoundInv, NEW u \in Users PROVE Cardinality(logins[u]) <= MaxLogins
    BY DEF LoginsWithinMax
  <2>1. /\ Cardinality(logins[u]) \in Nat /\ Cardinality(Admitted(u)) \in Nat
        /\ Cardinality(logins[u]) + Cardinality(Admitted(u)) <= MaxLogins - 1 + 1
    BY AdmittedFinite, FS_CardinalityType DEF BoundInv, IndexBound, OneCall
  <2>2. QED
    BY <2>1, MaxPositive
<1>2. IInv /\ BoundInv /\ [Next]_vars => BoundInv'
  BY CountBound, SweepBound, SAddBound, OtherBound, EnvironmentBound DEF Next
<1>3. QED
  BY <1>1, <1>2, InitBound, SpecIInv, PTL DEF Spec

\* A refusal without cause takes a second call, a command sent twice or a restart:
\* apart from these, checkCount refuses only whom it has seen at the limit.
THEOREM OneCallRefusedRightly == OneCall /\ NoFaults /\ Spec => []RefusalJustified
<1> SUFFICES ASSUME OneCall, NoFaults PROVE Spec => []RefusalJustified
  OBVIOUS
<1> DEFINE Swept == \A r \in Requests : SweepInv(r)
<1>1. Init => Swept
  BY DEF Init, SweepInv
<1>2. IInv /\ BoundInv /\ Swept /\ [Next]_vars => Swept'
  BY SweepStays
<1>3. IInv /\ BoundInv /\ [Next]_vars => BoundInv'
  BY CountBound, SweepBound, SAddBound, OtherBound, EnvironmentBound DEF Next
<1>4. Swept => RefusalJustified
  BY DEF SweepInv, RefusalJustified
<1> HIDE DEF Swept
<1>5. QED
  BY <1>1, <1>2, <1>3, <1>4, InitBound, SpecIInv, PTL DEF Spec
=============================================================================
