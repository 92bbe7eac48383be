--------------------------- MODULE BasicAuthProofs ---------------------------
(***************************************************************************)
(* For every number of requests, passwords and ticks: TypeOK, CountBounded *)
(* and ResetAloneSucceeds are invariants of BasicAuth.                     *)
(*                                                                         *)
(* CountBounded needs to know that a request that writes a failure back    *)
(* read an account that was not locked.  ResetAloneSucceeds needs what the *)
(* row looks like at every step of a reset that is alone with it, and that *)
(* the seed such a reset stores is nowhere else.                           *)
(*                                                                         *)
(* With one call at a time, PasswordIsCurrent holds too and Login answers  *)
(* maxfailure + 1 wrong passwords at most: the row stays as the call read  *)
(* it.                                                                     *)
(***************************************************************************)
EXTENDS BasicAuth, TLAPS

\* What the passwords of the row and of the locals can be.
PassInv ==
    /\ row.pass \in Passwords \cup used
    /\ \A r \in Requests :
         /\ loc[r].new \in Passwords \cup {NoPassword}
         /\ loc[r].given \in Passwords \cup used \cup {NoPassword}
         /\ loc[r].read.pass \in Passwords \cup used
         /\ pc[r] \in Statements /\ op[r] # "login" => loc[r].new \in Passwords
         /\ pc[r] \in {"validate", "store"} => op[r] # "login"

CountInv ==
    /\ CountBounded
    /\ \A r \in Requests : At(r, "miss") => loc[r].read.count <= MaxFailure

\* r has a seed that nobody has seen yet.
SeedInv(r) ==
    At(r, "resetStore") =>
        /\ loc[r].given \in used
        /\ loc[r].now <= Rounded(clock)
        /\ loc[r].given # row.pass
        /\ \A q \in Requests : /\ loc[q].read.pass # loc[r].given
                               /\ q # r => loc[q].given # loc[r].given

\* Whatever the row's next UPDATE with time now is, it changes the row.
Moved(now) == row.success < now \/ row.mtime < Truncated(clock)

AloneInv(r) ==
    sole = r =>
        /\ pc[r] \in {"sleep", "select", "hit", "validate", "store", "ok", "rejected", "error"}
        /\ pc[r] \in {"sleep", "select", "hit"} =>
             row.count = 0 /\ row.pass = loc[r].given
        /\ At(r, "sleep") =>
             \E b \in Nat : /\ b <= clock /\ loc[r].wake = b + 1
                            /\ row.success <= Rounded(b) /\ row.mtime = Truncated(b)
        /\ pc[r] \in {"select", "hit"} => Moved(loc[r].now)
        /\ pc[r] \in {"hit", "validate", "store"} => row.pass = loc[r].read.pass
        /\ At(r, "hit") => loc[r].read = row
        /\ At(r, "store") => loc[r].new # row.pass

IInv ==
    /\ TypeOK /\ PassInv /\ CountInv
    /\ \A r \in Requests : SeedInv(r) /\ AloneInv(r)
-----------------------------------------------------------------------------
\* The values the statements write are rows, and have the passwords they should.
LEMMA RowValues ==
    ASSUME TypeOK, NEW r \in Requests
    PROVE  /\ Missed(r) \in Rows /\ Matched(r) \in Rows
           /\ loc[r].new # NoPassword => Changed(r) \in Rows
           /\ loc[r].given # NoPassword => Reset(r) \in Rows
           /\ \A v \in Rows : Stored(v) \in Rows
           /\ NewRow \in Rows /\ Empty \in Locals
           /\ Rounded(clock) \in Nat /\ Truncated(clock) \in Nat
<1>1. loc[r] \in Locals /\ loc[r].read \in Rows /\ loc[r].now \in Nat
  BY DEF TypeOK, Locals
<1>2. Rounded(clock) \in Nat /\ Truncated(clock) \in Nat
  BY DEF TypeOK, Rounded, Truncated
<1>3. \A v \in Rows : Stored(v) \in Rows
  BY <1>2 DEF Stored, Rows
<1>4. NewRow \in Rows /\ Empty \in Locals
  BY BlankWeak DEF NewRow, Empty, Rows, Locals, AnyPassword
<1>5. Missed(r) \in Rows /\ Matched(r) \in Rows
  <2>1. /\ loc[r].read.count + 1 \in Nat /\ 0 \in Nat
        /\ loc[r].read = [loc[r].read EXCEPT !.count = @]
    BY <1>1 DEF Rows
  <2>2. Missed(r) \in Rows
    BY <1>1, <2>1 DEF Missed, Rows
  <2>3. Matched(r) \in Rows
    BY <1>1, <2>1 DEF Matched, Rows
  <2>4. QED
    BY <2>2, <2>3
<1>6. /\ loc[r].new # NoPassword => Changed(r) \in Rows
      /\ loc[r].given # NoPassword => Reset(r) \in Rows
  BY <1>1 DEF Changed, Reset, Rows, Locals
<1>7. QED
  BY <1>2, <1>3, <1>4, <1>5, <1>6

\* Where a step goes, its locals go too.
LEMMA GotoType ==
    ASSUME TypeOK, NEW r \in Requests, NEW l \in Statements \cup Outcomes,
           NEW v \in Locals, Goto(r, l, v)
    PROVE  /\ pc' \in [Requests -> {"idle"} \cup Statements \cup Outcomes]
           /\ loc' \in [Requests -> Locals]
           /\ pc'[r] = l
           /\ loc'[r] = IF l \in Outcomes THEN Empty ELSE v
           /\ \A q \in Requests \ {r} : pc'[q] = pc[q] /\ loc'[q] = loc[q]
  BY RowValues DEF TypeOK, Goto

\* What a step of r may do: leave the row alone, or write it, with the password
\* it has read or one of its own; nobody else's progress is touched.
Writes(r) ==
    {v \in Rows : \/ At(r, "miss") /\ v = Missed(r)
                  \/ At(r, "hit") /\ v = Matched(r)
                  \/ At(r, "store") /\ v = Changed(r)
                  \/ At(r, "resetStore") /\ v = Reset(r)}

StepOK(r) ==
    /\ clock' = clock
    /\ pc' \in [Requests -> {"idle"} \cup Statements \cup Outcomes]
    /\ loc' \in [Requests -> Locals]
    /\ \A q \in Requests \ {r} : pc'[q] = pc[q] /\ op'[q] = op[q] /\ loc'[q] = loc[q]
    /\ row' \in Rows
    /\ \/ row' = row /\ sole' \in {sole, r, Nobody}
       \/ sole' \in {r, Nobody} /\ \E v \in Writes(r) : row' = Stored(v)

\* SoftLogin writes nothing and keeps the types.
LEMMA SelectShape ==
    ASSUME IInv, NEW r \in Requests, Select(r)
    PROVE  TypeOK' /\ StepOK(r)
<1>1. PICK l \in {"locked", "miss", "hit", "error"}, v \in Locals : Goto(r, l, v)
  <2>1. row \in Rows /\ loc[r] \in Locals /\ Empty \in Locals
    BY RowValues DEF IInv, TypeOK
  <2>2. [loc[r] EXCEPT !.read = row] \in Locals
    BY <2>1 DEF Locals
  <2>3. QED
    BY <2>1, <2>2 DEF Select, SelectFails
<1>2. /\ pc' \in [Requests -> {"idle"} \cup Statements \cup Outcomes]
      /\ loc' \in [Requests -> Locals]
      /\ \A q \in Requests \ {r} : pc'[q] = pc[q] /\ loc'[q] = loc[q]
  BY <1>1, GotoType DEF IInv, Statements, Outcomes
<1>3. QED
  BY <1>2 DEF Select, TypeOK, StepOK, IInv

\* An UPDATE with the values v, executed or not.
LEMMA UpdateShape ==
    ASSUME TypeOK, NEW r \in Requests, NEW v \in Rows, NEW next \in Statements \cup Outcomes,
           NEW w \in Locals, Update(r, v, next, w) \/ UpdateFails(r, v)
    PROVE  /\ pc' \in [Requests -> {"idle"} \cup Statements \cup Outcomes]
           /\ loc' \in [Requests -> Locals]
           /\ \A q \in Requests \ {r} : pc'[q] = pc[q] /\ loc'[q] = loc[q]
           /\ row' \in Rows
           /\ row' = row \/ row' = Stored(v)
<1>1. PICK l \in Statements \cup Outcomes, x \in Locals : Goto(r, l, x)
  <2>1. Empty \in Locals /\ {"notupdated", "error"} \subseteq Outcomes
    BY RowValues DEF Outcomes
  <2>2. QED
    BY <2>1 DEF Update, UpdateFails
<1>2. row \in Rows /\ Stored(v) \in Rows
  BY RowValues DEF TypeOK
<1>3. QED
  BY <1>1, <1>2, GotoType DEF Update, UpdateFails

\* The UPDATE of a wrong password writes Missed and keeps the types.
LEMMA MissShape ==
    ASSUME IInv, NEW r \in Requests, Miss(r)
    PROVE  TypeOK' /\ StepOK(r)
<1>1. Missed(r) \in Rows /\ Empty \in Locals /\ "badpass" \in Outcomes
  BY RowValues DEF IInv, Outcomes
<1>2. Update(r, Missed(r), "badpass", Empty) \/ UpdateFails(r, Missed(r))
  BY DEF Miss
<1>3. /\ pc' \in [Requests -> {"idle"} \cup Statements \cup Outcomes]
      /\ loc' \in [Requests -> Locals]
      /\ \A q \in Requests \ {r} : pc'[q] = pc[q] /\ loc'[q] = loc[q]
      /\ row' \in Rows
      /\ row' = row \/ row' = Stored(Missed(r))
  BY <1>1, <1>2, UpdateShape DEF IInv
<1>4. QED
  BY <1>1, <1>3 DEF Miss, Interrupts, TypeOK, StepOK, Writes, IInv

\* The UPDATE of a right password writes Matched and keeps the types.
LEMMA HitShape ==
    ASSUME IInv, NEW r \in Requests, Hit(r)
    PROVE  TypeOK' /\ StepOK(r)
<1>1. Matched(r) \in Rows /\ [loc[r] EXCEPT !.now = 0] \in Locals
  BY RowValues DEF IInv, TypeOK, Locals
<1>2. \/ Update(r, Matched(r), "ok", [loc[r] EXCEPT !.now = 0])
      \/ Update(r, Matched(r), "validate", [loc[r] EXCEPT !.now = 0])
      \/ UpdateFails(r, Matched(r))
  BY DEF Hit
<1>3. /\ pc' \in [Requests -> {"idle"} \cup Statements \cup Outcomes]
      /\ loc' \in [Requests -> Locals]
      /\ \A q \in Requests \ {r} : pc'[q] = pc[q] /\ loc'[q] = loc[q]
      /\ row' \in Rows
      /\ row' = row \/ row' = Stored(Matched(r))
  <2>1. "ok" \in Outcomes /\ "validate" \in Statements
    BY DEF Outcomes, Statements
  <2>2. QED
    BY <1>1, <1>2, <2>1, UpdateShape DEF IInv
<1>4. QED
  BY <1>1, <1>3 DEF Hit, Interrupts, Forgives, TypeOK, StepOK, Writes, IInv

\* The UPDATE of ChangePassword writes Changed and keeps the types.
LEMMA StoreShape ==
    ASSUME IInv, NEW r \in Requests, Store(r)
    PROVE  TypeOK' /\ StepOK(r)
<1>1. /\ loc[r].new \in Passwords /\ Changed(r) \in Rows /\ Empty \in Locals
      /\ "ok" \in Outcomes
  BY RowValues, NoPasswordElse DEF IInv, PassInv, Store, At, Statements, Outcomes
<1>2. Update(r, Changed(r), "ok", Empty) \/ UpdateFails(r, Changed(r))
  BY DEF Store
<1>3. /\ pc' \in [Requests -> {"idle"} \cup Statements \cup Outcomes]
      /\ loc' \in [Requests -> Locals]
      /\ \A q \in Requests \ {r} : pc'[q] = pc[q] /\ loc'[q] = loc[q]
      /\ row' \in Rows
      /\ row' = row \/ row' = Stored(Changed(r))
  BY <1>1, <1>2, UpdateShape DEF IInv
<1>4. current' \in AnyPassword
  BY <1>1 DEF Store, AnyPassword, IInv, TypeOK
<1>5. QED
  BY <1>1, <1>3, <1>4 DEF Store, Interrupts, Forgives, TypeOK, StepOK, Writes, IInv

\* The UPDATE of ResetPassword writes Reset and keeps the types.
LEMMA ResetStoreShape ==
    ASSUME IInv, NEW r \in Requests, ResetStore(r)
    PROVE  TypeOK' /\ StepOK(r)
<1> DEFINE v == [loc[r] EXCEPT !.read = NewRow, !.now = 0, !.wake = clock + 1]
<1>1. /\ loc[r].given \in Seeds /\ Reset(r) \in Rows /\ "sleep" \in Statements
  BY RowValues, NoPasswordElse DEF IInv, TypeOK, SeedInv, ResetStore, At, Statements
<1>2. v \in Locals
  <2>1. clock + 1 \in Nat /\ NewRow \in Rows /\ loc[r] \in Locals
    BY RowValues DEF IInv, TypeOK
  <2>2. QED
    BY <2>1 DEF Locals
<1>3. Update(r, Reset(r), "sleep", v) \/ UpdateFails(r, Reset(r))
  BY DEF ResetStore
<1>4. /\ pc' \in [Requests -> {"idle"} \cup Statements \cup Outcomes]
      /\ loc' \in [Requests -> Locals]
      /\ \A q \in Requests \ {r} : pc'[q] = pc[q] /\ loc'[q] = loc[q]
      /\ row' \in Rows
      /\ row' = row \/ row' = Stored(Reset(r))
  BY <1>1, <1>2, <1>3, UpdateShape DEF IInv
<1>5. current' \in AnyPassword
  BY <1>1 DEF ResetStore, AnyPassword, IInv, TypeOK
<1>6. QED
  BY <1>1, <1>4, <1>5 DEF ResetStore, Interrupts, Forgives, TypeOK, StepOK, Writes, IInv

\* The steps that write nothing.
LEMMA ValidateShape ==
    ASSUME IInv, NEW r \in Requests, Validate(r)
    PROVE  TypeOK' /\ StepOK(r)
<1>1. PICK l \in {"store", "rejected"}, v \in Locals : Goto(r, l, v)
  <2>1. loc[r] \in Locals /\ Empty \in Locals /\ Rounded(clock) \in Nat
    BY RowValues DEF IInv, TypeOK
  <2>2. [loc[r] EXCEPT !.now = Rounded(clock)] \in Locals
    BY <2>1 DEF Locals
  <2>3. QED
    BY <2>1, <2>2 DEF Validate
<1>2. /\ pc' \in [Requests -> {"idle"} \cup Statements \cup Outcomes]
      /\ loc' \in [Requests -> Locals]
      /\ \A q \in Requests \ {r} : pc'[q] = pc[q] /\ loc'[q] = loc[q]
  BY <1>1, GotoType DEF IInv, Statements, Outcomes
<1>3. QED
  BY <1>2 DEF Validate, TypeOK, StepOK, IInv

\* The SELECT of ResetPassword writes nothing and keeps the types.
LEMMA ResetSelectShape ==
    ASSUME IInv, NEW r \in Requests, ResetSelect(r)
    PROVE  TypeOK' /\ StepOK(r)
<1>1. PICK l \in {"reseed", "error"}, v \in Locals : Goto(r, l, v)
  <2>1. loc[r] \in Locals /\ Empty \in Locals /\ row \in Rows
    BY RowValues DEF IInv, TypeOK
  <2>2. [loc[r] EXCEPT !.read = row] \in Locals
    BY <2>1 DEF Locals
  <2>3. QED
    BY <2>1, <2>2 DEF ResetSelect, SelectFails
<1>2. /\ pc' \in [Requests -> {"idle"} \cup Statements \cup Outcomes]
      /\ loc' \in [Requests -> Locals]
      /\ \A q \in Requests \ {r} : pc'[q] = pc[q] /\ loc'[q] = loc[q]
  BY <1>1, GotoType DEF IInv, Statements, Outcomes
<1>3. QED
  BY <1>2 DEF ResetSelect, TypeOK, StepOK, IInv

\* The choice of a seed writes nothing and keeps the types.
LEMMA ReseedShape ==
    ASSUME IInv, NEW r \in Requests, Reseed(r)
    PROVE  TypeOK' /\ StepOK(r)
<1>1. PICK v \in Locals : Goto(r, "resetStore", v)
  <2>1. loc[r] \in Locals /\ Rounded(clock) \in Nat
    BY RowValues DEF IInv, TypeOK
  <2>2. \A seed \in Seeds :
          [loc[r] EXCEPT !.given = seed, !.now = Rounded(clock)] \in Locals
    BY <2>1 DEF Locals, AnyPassword
  <2>3. QED
    BY <2>2 DEF Reseed
<1>2. /\ pc' \in [Requests -> {"idle"} \cup Statements \cup Outcomes]
      /\ loc' \in [Requests -> Locals]
      /\ \A q \in Requests \ {r} : pc'[q] = pc[q] /\ loc'[q] = loc[q]
  BY <1>1, GotoType DEF IInv, Statements
<1>3. used' \in SUBSET Seeds
  BY DEF Reseed, IInv, TypeOK
<1>4. QED
  BY <1>2, <1>3 DEF Reseed, TypeOK, StepOK, IInv

\* The end of the sleep writes nothing and keeps the types.
LEMMA WakeShape ==
    ASSUME IInv, NEW r \in Requests, Wake(r)
    PROVE  TypeOK' /\ StepOK(r)
<1>1. [loc[r] EXCEPT !.now = Rounded(clock), !.wake = 0] \in Locals
  <2>1. loc[r] \in Locals /\ Rounded(clock) \in Nat /\ 0 \in Nat
    BY RowValues DEF IInv, TypeOK
  <2>2. QED
    BY <2>1 DEF Locals
<1>2. /\ pc' \in [Requests -> {"idle"} \cup Statements \cup Outcomes]
      /\ loc' \in [Requests -> Locals]
      /\ \A q \in Requests \ {r} : pc'[q] = pc[q] /\ loc'[q] = loc[q]
  BY <1>1, GotoType DEF Wake, IInv, Statements
<1>3. QED
  BY <1>2 DEF Wake, TypeOK, StepOK, IInv

\* Login, ChangePassword or ResetPassword is called.
Called(r) == Login(r) \/ ChangePassword(r) \/ ResetPassword(r)

\* The start of a call writes nothing and keeps the types.
LEMMA CallShape ==
    ASSUME IInv, NEW r \in Requests, Called(r)
    PROVE  TypeOK' /\ StepOK(r)
<1>1. \E o \in {"login", "change", "reset"}, l \in {"select", "resetSelect"}, v \in Locals :
         Call(r, o, l, v)
  <2>1. Empty \in Locals /\ Rounded(clock) \in Nat
    BY RowValues DEF IInv
  <2>2. \A p, n \in Passwords :
          /\ [Empty EXCEPT !.given = p, !.now = Rounded(clock)] \in Locals
          /\ [Empty EXCEPT !.given = p, !.new = n, !.now = Rounded(clock)] \in Locals
          /\ [Empty EXCEPT !.new = n] \in Locals
    BY <2>1 DEF Locals, AnyPassword
  <2>3. CASE Login(r)
    BY <2>2, <2>3 DEF Login
  <2>4. CASE ChangePassword(r)
    BY <2>2, <2>4 DEF ChangePassword
  <2>5. CASE ResetPassword(r)
    BY <2>2, <2>5 DEF ResetPassword
  <2>6. QED
    BY <2>3, <2>4, <2>5 DEF Called
<1>2. PICK o \in {"login", "change", "reset"}, l \in {"select", "resetSelect"}, v \in Locals :
         Call(r, o, l, v)
  BY <1>1
<1>3. /\ pc' \in [Requests -> {"idle"} \cup Statements \cup Outcomes]
      /\ loc' \in [Requests -> Locals]
      /\ \A q \in Requests \ {r} : pc'[q] = pc[q] /\ loc'[q] = loc[q]
  BY <1>2, GotoType DEF Call, IInv, Statements
<1>4. QED
  BY <1>2, <1>3 DEF Call, TypeOK, StepOK, IInv

\* The end of a call writes nothing and keeps the types.
LEMMA ReplyShape ==
    ASSUME IInv, NEW r \in Requests, Reply(r)
    PROVE  TypeOK' /\ StepOK(r)
  BY DEF Reply, TypeOK, StepOK, IInv

\* Every step of a request keeps the types, and writes one of its values or nothing.
LEMMA StepShape ==
    ASSUME IInv, NEW r \in Requests, Request(r)
    PROVE  TypeOK' /\ StepOK(r)
BY CallShape, SelectShape, MissShape, HitShape, ValidateShape, StoreShape,
   ResetSelectShape, ReseedShape, ResetStoreShape, WakeShape, ReplyShape
   DEF Request, Called

\* Time goes on, or the service dies: nothing in the database changes.
LEMMA EnvironmentShape ==
    ASSUME IInv, Tick \/ ServerCrashes
    PROVE  TypeOK' /\ row' = row /\ used' = used /\ clock' \in Nat /\ clock' >= clock
<1>1. CASE Tick
  BY <1>1 DEF Tick, TypeOK, IInv
<1>2. CASE ServerCrashes
  <2>1. \A r \in Requests : Empty \in Locals
    BY RowValues DEF IInv
  <2>2. QED
    BY <1>2, <2>1 DEF ServerCrashes, TypeOK, IInv
<1>3. QED
  BY <1>1, <1>2
-----------------------------------------------------------------------------
\* The passwords of the values r writes.
LEMMA WrittenPass ==
    ASSUME IInv, NEW r \in Requests, StepOK(r), row' # row
    PROVE  \/ row'.pass = loc[r].read.pass
           \/ At(r, "store") /\ row'.pass = loc[r].new /\ row'.count = 0
           \/ At(r, "resetStore") /\ row'.pass = loc[r].given /\ row'.count = 0
<1>1. PICK v \in Writes(r) : row' = Stored(v)
  BY DEF StepOK
<1>2. v \in Rows /\ row'.pass = v.pass /\ row'.count = v.count
  BY <1>1 DEF Writes, Stored, Rows
<1>3. loc[r].read \in Rows
  BY DEF IInv, TypeOK, Locals
<1>4. CASE v = Missed(r) \/ v = Matched(r)
  BY <1>2, <1>3, <1>4 DEF Missed, Matched, Rows
<1>5. CASE At(r, "store") /\ v = Changed(r)
  BY <1>2, <1>3, <1>5 DEF Changed, Rows
<1>6. CASE At(r, "resetStore") /\ v = Reset(r)
  BY <1>2, <1>3, <1>6 DEF Reset, Rows
<1>7. QED
  BY <1>1, <1>4, <1>5, <1>6 DEF Writes

\* What a step of r leaves in its locals.
LEMMA GotoOwn ==
    ASSUME TypeOK, NEW r \in Requests, NEW l, NEW v, Goto(r, l, v)
    PROVE  pc'[r] = l /\ loc'[r] = IF l \in Outcomes THEN Empty ELSE v
  BY DEF TypeOK, Goto

\* The passwords it leaves there, and who has a new one.
LEMMA OwnPass ==
    ASSUME IInv, NEW r \in Requests, Request(r)
    PROVE  /\ used \subseteq used'
           /\ loc'[r].new \in {loc[r].new, NoPassword} \cup Passwords
           /\ loc'[r].given \in {loc[r].given, NoPassword} \cup Passwords \cup (used' \ used)
           /\ loc'[r].read.pass \in {loc[r].read.pass, row.pass, Blank}
           /\ pc'[r] \in Statements /\ op'[r] # "login" => loc'[r].new \in Passwords
           /\ pc'[r] \in {"validate", "store"} => op'[r] # "login"
<1>1. Empty.read.pass = Blank /\ Empty.given = NoPassword /\ Empty.new = NoPassword
  BY DEF Empty, NewRow
<1>2. loc[r] \in Locals /\ r \in DOMAIN pc /\ r \in DOMAIN loc /\ r \in DOMAIN op
  BY DEF IInv, TypeOK
<1>3. Statements \cap Outcomes = {}
  BY DEF Statements, Outcomes
<1>4. pc[r] \in Statements /\ op[r] # "login" => loc[r].new \in Passwords
  BY DEF IInv, PassInv
<1>5. CASE Called(r)
  <2>1. /\ {"select", "resetSelect"} \cap Outcomes = {}
        /\ r \in DOMAIN op
    BY <1>2 DEF Outcomes
  <2>2. CASE Login(r)
    <3>1. PICK p \in Passwords :
            Call(r, "login", "select", [Empty EXCEPT !.given = p, !.now = Rounded(clock)])
      BY <2>2 DEF Login
    <3>2. /\ loc'[r] = [Empty EXCEPT !.given = p, !.now = Rounded(clock)]
          /\ op'[r] = "login" /\ pc'[r] = "select" /\ used' = used
      BY <2>1, <3>1, GotoOwn DEF Call, IInv
    <3>3. QED
      BY <1>1, <3>2 DEF Empty
  <2>3. CASE ChangePassword(r)
    <3>1. PICK p, n \in Passwords :
            Call(r, "change", "select",
                 [Empty EXCEPT !.given = p, !.new = n, !.now = Rounded(clock)])
      BY <2>3 DEF ChangePassword
    <3>2. /\ loc'[r] = [Empty EXCEPT !.given = p, !.new = n, !.now = Rounded(clock)]
          /\ op'[r] = "change" /\ pc'[r] = "select" /\ used' = used
      BY <2>1, <3>1, GotoOwn DEF Call, IInv
    <3>3. QED
      BY <1>1, <3>2 DEF Empty
  <2>4. CASE ResetPassword(r)
    <3>1. PICK n \in Passwords :
            Call(r, "reset", "resetSelect", [Empty EXCEPT !.new = n])
      BY <2>4 DEF ResetPassword
    <3>2. /\ loc'[r] = [Empty EXCEPT !.new = n]
          /\ op'[r] = "reset" /\ pc'[r] = "resetSelect" /\ used' = used
      BY <2>1, <3>1, GotoOwn DEF Call, IInv
    <3>3. QED
      BY <1>1, <3>2 DEF Empty
  <2>5. QED
    BY <1>5, <2>2, <2>3, <2>4 DEF Called
<1>6. CASE Select(r) \/ ResetSelect(r)
  BY <1>1, <1>2, <1>3, <1>4, <1>6 DEF Select, ResetSelect, SelectFails, Goto, At, Statements,
     Outcomes, Locals, IInv, TypeOK
<1>7. CASE Reseed(r) \/ Wake(r)
  <2>1. {"resetStore", "select"} \cap Outcomes = {} /\ pc[r] \in {"reseed", "sleep"}
    BY <1>7 DEF Outcomes, Reseed, Wake, At
  <2>2. op' = op /\ (op[r] # "login" => loc[r].new \in Passwords)
    BY <1>4, <1>7, <2>1 DEF Reseed, Wake, Statements
  <2>3. CASE Reseed(r)
    <3>1. PICK seed \in used' \ used :
            Goto(r, "resetStore", [loc[r] EXCEPT !.given = seed, !.now = Rounded(clock)])
      BY <2>3 DEF Reseed
    <3>2. /\ loc'[r] = [loc[r] EXCEPT !.given = seed, !.now = Rounded(clock)]
          /\ pc'[r] = "resetStore"
      BY <2>1, <3>1, GotoOwn DEF IInv
    <3>3. QED
      BY <1>2, <2>2, <2>3, <3>2 DEF Reseed, Locals
  <2>4. CASE Wake(r)
    <3>1. /\ loc'[r] = [loc[r] EXCEPT !.now = Rounded(clock), !.wake = 0]
          /\ pc'[r] = "select"
      BY <2>1, <2>4, GotoOwn DEF IInv, Wake
    <3>2. QED
      BY <1>2, <2>2, <2>4, <3>1 DEF Wake, Locals
  <2>5. QED
    BY <1>7, <2>3, <2>4
<1>8. CASE Miss(r) \/ Store(r)
  BY <1>1, <1>2, <1>3, <1>4, <1>8 DEF Miss, Store, Update, UpdateFails, Goto, At, Statements, Outcomes,
     Locals, IInv, TypeOK
<1>9. CASE Hit(r)
  BY <1>1, <1>2, <1>3, <1>4, <1>9 DEF Hit, Update, UpdateFails, Goto, At, Statements, Outcomes,
     Locals, IInv, TypeOK
<1>10. CASE ResetStore(r)
  <2>1. pc[r] = "resetStore" /\ op' = op /\ used' = used
    BY <1>10 DEF ResetStore, At
  <2>2. op[r] # "login" => loc[r].new \in Passwords
    BY <1>4, <2>1 DEF Statements
  <2>3. /\ pc'[r] \in {"sleep", "notupdated", "error"}
        /\ loc'[r] = IF pc'[r] # "sleep" THEN Empty
                     ELSE [loc[r] EXCEPT !.read = NewRow, !.now = 0, !.wake = clock + 1]
    BY <1>10, GotoOwn DEF ResetStore, Update, UpdateFails, IInv, Outcomes
  <2>4. QED
    BY <1>1, <1>2, <1>3, <2>1, <2>2, <2>3 DEF Locals, NewRow, Outcomes
<1>11. CASE Validate(r)
  BY <1>1, <1>2, <1>3, <1>4, <1>11 DEF Validate, Goto, At, Statements, Outcomes, Locals, IInv, TypeOK, PassInv
<1>12. CASE Reply(r)
  BY <1>1, <1>2, <1>3, <1>4, <1>12 DEF Reply, Statements, IInv, TypeOK
<1>13. QED
  BY <1>5, <1>6, <1>7, <1>8, <1>9, <1>10, <1>11, <1>12 DEF Request, Called

\* Every step of a request keeps what is known of where passwords are.
LEMMA PassStep ==
    ASSUME IInv, NEW r \in Requests, Request(r)
    PROVE  PassInv'
<1>1. StepOK(r) /\ used \subseteq used'
  BY StepShape, OwnPass
<1>2. row'.pass \in Passwords \cup used'
  <2>1. CASE row' = row
    BY <1>1, <2>1 DEF IInv, PassInv
  <2>2. CASE row' # row
    <3>1. \/ row'.pass = loc[r].read.pass
          \/ At(r, "store") /\ row'.pass = loc[r].new
          \/ At(r, "resetStore") /\ row'.pass = loc[r].given
      BY <1>1, <2>2, WrittenPass
    <3>2. /\ loc[r].read.pass \in Passwords \cup used
          /\ At(r, "store") => loc[r].new \in Passwords
          /\ At(r, "resetStore") => loc[r].given \in used
      BY DEF IInv, PassInv, SeedInv, At, Statements
    <3>3. QED
      BY <1>1, <3>1, <3>2
  <2>3. QED
    BY <2>1, <2>2
<1>3. Blank \in Passwords
  BY BlankWeak
<1>4. ASSUME NEW q \in Requests
      PROVE  /\ loc'[q].new \in Passwords \cup {NoPassword}
             /\ loc'[q].given \in Passwords \cup used' \cup {NoPassword}
             /\ loc'[q].read.pass \in Passwords \cup used'
             /\ pc'[q] \in Statements /\ op'[q] # "login" => loc'[q].new \in Passwords
             /\ pc'[q] \in {"validate", "store"} => op'[q] # "login"
  <2>1. CASE q = r
    BY <1>1, <1>3, <2>1, OwnPass DEF IInv, PassInv
  <2>2. CASE q # r
    BY <1>1, <2>2 DEF StepOK, IInv, PassInv
  <2>3. QED
    BY <2>1, <2>2
<1>5. QED
  BY <1>2, <1>4 DEF PassInv

\* Where each step goes.
LEMMA Outgoing ==
    ASSUME IInv, NEW r \in Requests
    PROVE  /\ Called(r) => pc'[r] \in {"select", "resetSelect"}
           /\ Select(r) => pc'[r] \in {"locked", "miss", "hit", "error"}
           /\ Miss(r) => pc'[r] \in {"badpass", "notupdated", "error"}
           /\ Hit(r) => pc'[r] \in {"ok", "validate", "notupdated", "error"}
           /\ Validate(r) => pc'[r] \in {"store", "rejected"}
           /\ Store(r) => pc'[r] \in {"ok", "notupdated", "error"}
           /\ ResetSelect(r) => pc'[r] \in {"reseed", "error"}
           /\ Reseed(r) => pc'[r] = "resetStore"
           /\ ResetStore(r) => pc'[r] \in {"sleep", "notupdated", "error"}
           /\ Wake(r) => pc'[r] = "select"
           /\ Reply(r) => pc'[r] = "idle"
<1>1. TypeOK
  BY DEF IInv
<1>2. Called(r) => pc'[r] \in {"select", "resetSelect"}
  BY <1>1, GotoOwn DEF Called, Login, ChangePassword, ResetPassword, Call
<1>3. Select(r) => pc'[r] \in {"locked", "miss", "hit", "error"}
  BY <1>1, GotoOwn DEF Select, SelectFails
<1>4. /\ Miss(r) => pc'[r] \in {"badpass", "notupdated", "error"}
      /\ Hit(r) => pc'[r] \in {"ok", "validate", "notupdated", "error"}
  BY <1>1, GotoOwn DEF Miss, Hit, Update, UpdateFails
<1>5. /\ Validate(r) => pc'[r] \in {"store", "rejected"}
      /\ Store(r) => pc'[r] \in {"ok", "notupdated", "error"}
  BY <1>1, GotoOwn DEF Validate, Store, Update, UpdateFails
<1>6. /\ ResetSelect(r) => pc'[r] \in {"reseed", "error"}
      /\ Reseed(r) => pc'[r] = "resetStore"
  BY <1>1, GotoOwn DEF ResetSelect, SelectFails, Reseed
<1>7. /\ ResetStore(r) => pc'[r] \in {"sleep", "notupdated", "error"}
      /\ Wake(r) => pc'[r] = "select"
  BY <1>1, GotoOwn DEF ResetStore, Wake, Update, UpdateFails
<1>8. Reply(r) => pc'[r] = "idle"
  BY <1>1 DEF Reply, TypeOK
<1>9. QED
  BY <1>2, <1>3, <1>4, <1>5, <1>6, <1>7, <1>8
-----------------------------------------------------------------------------
\* A failure is written on top of a count that was not locked, and every other
\* write sets the count to 0.
LEMMA CountStep ==
    ASSUME IInv, NEW r \in Requests, Request(r)
    PROVE  CountInv'
<1>1. StepOK(r)
  BY StepShape
<1>2. CountBounded'
  <2>1. CASE row' = row
    BY <2>1 DEF IInv, CountInv, CountBounded
  <2>2. CASE row' # row
    <3>1. PICK v \in Writes(r) : row' = Stored(v)
      BY <1>1, <2>2 DEF StepOK
    <3>2. v \in Rows /\ row'.count = v.count
      BY <3>1 DEF Writes, Stored, Rows
    <3>3. loc[r].read \in Rows
      BY DEF IInv, TypeOK, Locals
    <3>4. CASE At(r, "miss") /\ v = Missed(r)
      <4>1. loc[r].read.count \in Nat /\ loc[r].read.count <= MaxFailure
        BY <3>3, <3>4 DEF IInv, CountInv, Rows
      <4>2. v.count = loc[r].read.count + 1
        BY <3>3, <3>4 DEF Missed, Rows
      <4>3. QED
        BY <3>2, <4>1, <4>2, FailureNat DEF CountBounded
    <3>5. CASE v \in {Matched(r), Changed(r), Reset(r)}
      <4>1. v.count = 0
        BY <3>3, <3>5 DEF Matched, Changed, Reset, Rows
      <4>2. QED
        BY <3>2, <4>1, FailureNat DEF CountBounded
    <3>6. QED
      BY <3>1, <3>4, <3>5 DEF Writes
  <2>3. QED
    BY <2>1, <2>2
<1>3. ASSUME NEW q \in Requests, pc'[q] = "miss"
      PROVE  loc'[q].read.count <= MaxFailure
  <2>1. CASE q # r
    BY <1>1, <1>3, <2>1 DEF StepOK, IInv, CountInv, At
  <2>2. CASE q = r
    <3>1. Select(r)
      BY <1>3, <2>2, Outgoing DEF Request, Called
    <3>2. row.count <= MaxFailure
      BY <1>3, <2>2, <3>1, GotoOwn, FailureNat DEF Select, SelectFails, IInv, TypeOK, Rows
    <3>3. loc'[r] = [loc[r] EXCEPT !.read = row]
      BY <1>3, <2>2, <3>1, GotoOwn DEF Select, SelectFails, IInv, Outcomes
    <3>4. QED
      BY <2>2, <3>2, <3>3 DEF IInv, TypeOK, Locals
  <2>3. QED
    BY <2>1, <2>2
<1>4. QED
  BY <1>2, <1>3 DEF CountInv, At
-----------------------------------------------------------------------------
\* A new seed is nowhere yet, and nobody copies it before it is in the row.
LEMMA SeedStep ==
    ASSUME IInv, NEW r \in Requests, Request(r), NEW q \in Requests
    PROVE  SeedInv(q)'
<1>1. StepOK(r)
  BY StepShape
<1>2. SUFFICES ASSUME pc'[q] = "resetStore"
               PROVE  /\ loc'[q].given \in used'
                      /\ loc'[q].now <= Rounded(clock)
                      /\ loc'[q].given # row'.pass
                      /\ \A p \in Requests : /\ loc'[p].read.pass # loc'[q].given
                                             /\ p # q => loc'[p].given # loc'[q].given
  BY <1>1 DEF SeedInv, At, StepOK, Rounded
<1>3. /\ used \subseteq Seeds /\ Seeds \cap Passwords = {} /\ NoPassword \notin Seeds
      /\ Blank \in Passwords
  BY SeedsDistinct, NoPasswordElse, BlankWeak DEF IInv, TypeOK
<1>4. CASE q = r
  <2>1. Reseed(r)
    BY <1>2, <1>4, Outgoing DEF Request, Called
  <2>2. PICK seed \in Seeds \ used :
          /\ used' = used \cup {seed}
          /\ Goto(r, "resetStore", [loc[r] EXCEPT !.given = seed, !.now = Rounded(clock)])
    BY <2>1 DEF Reseed
  <2>3. loc'[r] = [loc[r] EXCEPT !.given = seed, !.now = Rounded(clock)]
    BY <2>2, GotoOwn DEF IInv, Outcomes
  <2>4. /\ loc'[r].given = seed /\ loc'[r].now = Rounded(clock)
        /\ loc'[r].read = loc[r].read
    BY <2>3 DEF IInv, TypeOK, Locals
  <2>5. Rounded(clock) <= Rounded(clock)
    BY DEF IInv, TypeOK, Rounded
  <2>6. row' = row
    BY <2>1 DEF Reseed
  <2>7. \A p \in Requests : /\ loc[p].read.pass # seed /\ loc[p].given # seed
                            /\ row.pass # seed
    BY <1>3, <2>2 DEF IInv, PassInv
  <2>8. QED
    BY <1>1, <1>4, <2>2, <2>4, <2>5, <2>6, <2>7 DEF StepOK
<1>5. CASE q # r
  <2>1. /\ At(q, "resetStore") /\ loc'[q] = loc[q]
    BY <1>1, <1>2, <1>5 DEF StepOK, At
  <2>2. /\ loc[q].given \in used /\ loc[q].now <= Rounded(clock)
        /\ loc[q].given # row.pass
        /\ \A p \in Requests : /\ loc[p].read.pass # loc[q].given
                               /\ p # q => loc[p].given # loc[q].given
    BY <2>1 DEF IInv, SeedInv
  <2>3. loc[q].given # row'.pass
    <3>1. CASE row' = row
      BY <2>2, <3>1
    <3>2. CASE row' # row
      <4>1. At(r, "store") => loc[r].new \in Passwords
        BY DEF IInv, PassInv, At, Statements
      <4>2. QED
        BY <1>1, <1>3, <1>5, <2>2, <3>2, <4>1, WrittenPass
    <3>3. QED
      BY <3>1, <3>2
  <2>4. loc'[r].read.pass # loc[q].given /\ loc'[r].given # loc[q].given
    BY <1>3, <1>5, <2>2, OwnPass
  <2>5. \A p \in Requests \ {r} : loc'[p] = loc[p]
    BY <1>1 DEF StepOK
  <2>6. used \subseteq used'
    BY OwnPass
  <2>7. QED
    BY <2>1, <2>2, <2>3, <2>4, <2>5, <2>6
<1>6. QED
  BY <1>4, <1>5
-----------------------------------------------------------------------------
\* Half a second after b, a time.Time or current_timestamp is another second.
LEMMA HalfSecond ==
    ASSUME NEW b \in Nat, NEW c \in Nat, c >= b + 1
    PROVE  Rounded(b) < Rounded(c) \/ Truncated(b) < Truncated(c)
  BY DEF Rounded, Truncated

\* Later ticks are not in earlier seconds.
LEMMA LaterSeconds ==
    ASSUME NEW b \in Nat, NEW c \in Nat, c >= b
    PROVE  /\ Rounded(b) \in Nat /\ Rounded(c) \in Nat
           /\ Truncated(b) \in Nat /\ Truncated(c) \in Nat
           /\ Rounded(b) <= Rounded(c) /\ Truncated(b) <= Truncated(c)
  BY DEF Rounded, Truncated

\* A write with another password, time or second changes the row.
LEMMA Changes ==
    ASSUME TypeOK, NEW v \in Rows,
           v.pass # row.pass \/ v.success # row.success \/ row.mtime # Truncated(clock)
    PROVE  Stored(v) # row
  BY DEF Stored, Rows, TypeOK

\* What r does when it is alone with the row since its reset.
LEMMA AloneOwn ==
    ASSUME IInv, NEW r \in Requests, Request(r), sole' = r
    PROVE  AloneInv(r)'
<1>1. /\ TypeOK /\ loc[r] \in Locals /\ row \in Rows /\ clock \in Nat /\ clock' = clock
      /\ r # Nobody /\ loc[r].read \in Rows
  BY StepShape, NobodyElse DEF IInv, TypeOK, StepOK, Locals
<1>2. sole = r \/ ResetStore(r)
  BY <1>1 DEF Request, Login, ChangePassword, ResetPassword, Call, Select, Miss, Hit, Validate, Store,
     ResetSelect, Reseed, Wake, Reply, Interrupts
<1>3. AloneInv(r)
  BY DEF IInv
<1>4. CASE ResetStore(r)
  <2>1. At(r, "resetStore") /\ sole # r
    BY <1>3, <1>4 DEF AloneInv, ResetStore, At
  <2>2. Update(r, Reset(r), "sleep",
               [loc[r] EXCEPT !.read = NewRow, !.now = 0, !.wake = clock + 1])
    BY <1>1, <1>4, <2>1 DEF ResetStore, Interrupts
  <2>3. /\ loc[r].given # row.pass /\ loc[r].now <= Rounded(clock)
        /\ loc[r].given # NoPassword
    BY <2>1, NoPasswordElse DEF IInv, TypeOK, SeedInv
  <2>4. /\ Reset(r) \in Rows /\ Reset(r).pass = loc[r].given
        /\ Reset(r).success = loc[r].now /\ Reset(r).count = 0
    BY <1>1, <2>3, RowValues DEF Reset, Rows
  <2>5. Stored(Reset(r)) # row
    BY <1>1, <2>3, <2>4, Changes
  <2>6. /\ pc'[r] = "sleep" /\ row' = Stored(Reset(r))
        /\ loc'[r] = [loc[r] EXCEPT !.read = NewRow, !.now = 0, !.wake = clock + 1]
    BY <1>1, <2>2, <2>5, GotoOwn DEF Update, Outcomes
  <2>7. /\ loc'[r].given = loc[r].given /\ loc'[r].wake = clock + 1
        /\ row'.pass = loc[r].given /\ row'.count = 0
        /\ row'.success = loc[r].now /\ row'.mtime = Truncated(clock)
    BY <1>1, <2>4, <2>6 DEF Locals, Stored, Rows
  <2>8. \E b \in Nat : /\ b <= clock' /\ loc'[r].wake = b + 1
                       /\ row'.success <= Rounded(b) /\ row'.mtime = Truncated(b)
    BY <1>1, <2>3, <2>7
  <2>9. QED
    BY <2>6, <2>7, <2>8 DEF AloneInv, At
<1>5. CASE sole = r /\ ~ResetStore(r)
  <2>1. pc[r] \in {"sleep", "select", "hit", "validate", "store", "ok", "rejected", "error"}
    BY <1>3, <1>5 DEF AloneInv
  <2>2. Wake(r) \/ Select(r) \/ Hit(r) \/ Validate(r) \/ Store(r) \/ Reply(r)
    BY <1>5, <2>1 DEF Request, Login, ChangePassword, ResetPassword, Call, Miss, ResetSelect, Reseed, At
  <2>3. CASE Wake(r)
    <3>1. /\ row.count = 0 /\ row.pass = loc[r].given
          /\ \E b \in Nat : /\ b <= clock /\ loc[r].wake = b + 1
                            /\ row.success <= Rounded(b) /\ row.mtime = Truncated(b)
      BY <1>3, <1>5, <2>3 DEF AloneInv, Wake, At
    <3>2. PICK b \in Nat : /\ loc[r].wake = b + 1
                          /\ row.success <= Rounded(b) /\ row.mtime = Truncated(b)
      BY <3>1
    <3>3. clock >= b + 1
      BY <2>3, <3>2 DEF Wake
    <3>4. row.success < Rounded(clock) \/ row.mtime < Truncated(clock)
      <4>1. Rounded(b) < Rounded(clock) \/ Truncated(b) < Truncated(clock)
        BY <1>1, <3>3, HalfSecond
      <4>2. row.success \in Nat /\ Rounded(b) \in Nat /\ Rounded(clock) \in Nat
        BY <1>1 DEF Rows, Rounded
      <4>3. QED
        BY <3>2, <4>1, <4>2
    <3>5. /\ pc'[r] = "select" /\ row' = row
          /\ loc'[r] = [loc[r] EXCEPT !.now = Rounded(clock), !.wake = 0]
      BY <1>1, <2>3, GotoOwn DEF Wake, Outcomes
    <3>6. loc'[r].now = Rounded(clock) /\ loc'[r].given = loc[r].given
      BY <1>1, <3>5 DEF Locals
    <3>7. Moved(loc[r].now)'
      BY <1>1, <3>4, <3>5, <3>6 DEF Moved, Truncated
    <3>8. QED
      BY <3>1, <3>5, <3>6, <3>7 DEF AloneInv, At
  <2>4. CASE Select(r)
    <3>1. /\ row.count = 0 /\ row.pass = loc[r].given /\ Moved(loc[r].now)
      BY <1>3, <1>5, <2>4 DEF AloneInv, Select, At
    <3>2. /\ row' = row
          /\ \/ pc'[r] = "error"
             \/ pc'[r] = "hit" /\ loc'[r] = [loc[r] EXCEPT !.read = row]
      <4>1. /\ row' = row
            /\ ~(row.count > MaxFailure)
            /\ ~(row.count <= MaxFailure /\ loc[r].given # row.pass)
        <5>1. row' = row
          BY <2>4 DEF Select
        <5>2. ~(row.count > MaxFailure)
          BY <3>1, FailureNat
        <5>3. QED
          BY <3>1, <5>1, <5>2
      <4>2. \/ Goto(r, "hit", [loc[r] EXCEPT !.read = row])
            \/ Goto(r, "error", Empty)
        BY <2>4, <4>1 DEF Select, SelectFails
      <4>3. QED
        BY <1>1, <4>1, <4>2, GotoOwn DEF Outcomes
    <3>3. CASE pc'[r] = "error"
      BY <3>3 DEF AloneInv, At
    <3>4. CASE pc'[r] = "hit" /\ loc'[r] = [loc[r] EXCEPT !.read = row]
      <4>1. /\ loc'[r].read = row /\ loc'[r].given = loc[r].given /\ loc'[r].now = loc[r].now
        BY <1>1, <3>4 DEF Locals
      <4>2. Moved(loc[r].now)'
        BY <1>1, <3>1, <3>2, <4>1 DEF Moved, Truncated
      <4>3. QED
        BY <3>1, <3>2, <3>4, <4>1, <4>2 DEF AloneInv, At
    <3>5. QED
      BY <3>2, <3>3, <3>4
  <2>5. CASE Hit(r)
    <3>1. loc[r].read = row /\ Moved(loc[r].now)
      BY <1>3, <1>5, <2>5 DEF AloneInv, Hit, At
    <3>2. /\ Matched(r) \in Rows /\ Matched(r).pass = row.pass
          /\ Matched(r).success = loc[r].now
      BY <1>1, <3>1, RowValues DEF Matched, Rows
    <3>3. Stored(Matched(r)) # row
      <4>1. loc[r].now \in Nat /\ row.success \in Nat /\ row.mtime \in Nat /\ Truncated(clock) \in Nat
        BY <1>1 DEF Locals, Rows, Truncated
      <4>2. loc[r].now # row.success \/ row.mtime # Truncated(clock)
        BY <3>1, <4>1 DEF Moved
      <4>3. QED
        BY <1>1, <3>2, <4>2, Changes
    <3>4. CASE UpdateFails(r, Matched(r))
      <4>1. pc'[r] = "error"
        BY <1>1, <3>4, GotoOwn DEF UpdateFails
      <4>2. QED
        BY <4>1 DEF AloneInv, At
    <3>5. CASE Update(r, Matched(r), IF op[r] = "login" THEN "ok" ELSE "validate",
                      [loc[r] EXCEPT !.now = 0])
      <4>1. /\ row' = Stored(Matched(r))
            /\ \/ pc'[r] = "ok"
               \/ pc'[r] = "validate" /\ loc'[r] = [loc[r] EXCEPT !.now = 0]
        BY <1>1, <3>3, <3>5, GotoOwn DEF Update, Outcomes
      <4>2. row'.pass = row.pass
        BY <3>2, <4>1 DEF Stored, Rows
      <4>3. pc'[r] = "validate" => loc'[r].read.pass = row.pass
        BY <1>1, <3>1, <4>1 DEF Locals
      <4>4. QED
        BY <4>1, <4>2, <4>3 DEF AloneInv, At
    <3>6. QED
      BY <2>5, <3>4, <3>5 DEF Hit
  <2>6. CASE Validate(r)
    <3>1. row.pass = loc[r].read.pass
      BY <1>3, <1>5, <2>6 DEF AloneInv, Validate, At
    <3>2. /\ row' = row
          /\ \/ pc'[r] = "rejected"
             \/ /\ pc'[r] = "store" /\ loc'[r] = [loc[r] EXCEPT !.now = Rounded(clock)]
                /\ loc[r].new # loc[r].read.pass
      BY <1>1, <2>6, GotoOwn DEF Validate, Outcomes
    <3>3. pc'[r] = "store" => loc'[r].new = loc[r].new /\ loc'[r].read = loc[r].read
      BY <1>1, <3>2 DEF Locals
    <3>4. QED
      BY <3>1, <3>2, <3>3 DEF AloneInv, At
  <2>7. CASE Store(r)
    <3>1. loc[r].new # row.pass
      BY <1>3, <1>5, <2>7 DEF AloneInv, Store, At
    <3>2. Changed(r) \in Rows /\ Changed(r).pass = loc[r].new
      <4>1. loc[r].new # NoPassword
        BY <2>7, NoPasswordElse DEF IInv, PassInv, Store, At, Statements
      <4>2. QED
        BY <1>1, <4>1, RowValues DEF Changed, Rows
    <3>3. Stored(Changed(r)) # row
      BY <1>1, <3>1, <3>2, Changes
    <3>4. pc'[r] \in {"ok", "error"}
      BY <1>1, <2>7, <3>3, GotoOwn DEF Store, Update, UpdateFails
    <3>5. QED
      BY <3>4 DEF AloneInv, At
  <2>8. CASE Reply(r)
    BY <1>1, <1>5, <2>8 DEF Reply
  <2>9. QED
    BY <2>2, <2>3, <2>4, <2>5, <2>6, <2>7, <2>8
<1>6. QED
  BY <1>2, <1>4, <1>5

\* Nobody else can write and leave r alone with the row.
LEMMA AloneStep ==
    ASSUME IInv, NEW r \in Requests, Request(r), NEW q \in Requests
    PROVE  AloneInv(q)'
<1>1. CASE q # r
  <2>1. SUFFICES ASSUME sole' = q
                 PROVE  AloneInv(q)'
    BY DEF AloneInv
  <2>2. /\ row' = row /\ sole = q /\ clock' = clock
        /\ pc'[q] = pc[q] /\ loc'[q] = loc[q]
    BY <1>1, <2>1, StepShape, NobodyElse DEF StepOK
  <2>3. AloneInv(q)
    BY DEF IInv
  <2>4. QED
    BY <2>2, <2>3 DEF AloneInv, At, Moved, Rounded, Truncated
<1>2. CASE q = r
  <2>1. SUFFICES ASSUME sole' = r
                 PROVE  AloneInv(r)'
    BY <1>2 DEF AloneInv
  <2>2. QED
    BY <2>1, AloneOwn
<1>3. QED
  BY <1>1, <1>2

\* The invariant holds for a new account and no calls.
LEMMA InitIInv == Init => IInv
<1> SUFFICES ASSUME Init PROVE IInv
  OBVIOUS
<1>1. NewRow \in Rows /\ Empty \in Locals /\ Blank \in Passwords
  BY BlankWeak DEF NewRow, Empty, Rows, Locals, AnyPassword
<1>2. TypeOK
  BY <1>1 DEF Init, TypeOK, AnyPassword
<1>3. PassInv
  BY <1>1 DEF Init, PassInv, Empty, NewRow, Statements
<1>4. CountInv
  BY FailureNat DEF Init, CountInv, CountBounded, NewRow, At
<1>5. ASSUME NEW r \in Requests PROVE SeedInv(r) /\ AloneInv(r)
  BY NobodyElse DEF Init, SeedInv, AloneInv, At
<1>6. QED
  BY <1>2, <1>3, <1>4, <1>5 DEF IInv

\* The clock and a crash of the service keep the invariant.
LEMMA EnvironmentStep ==
    ASSUME IInv, Tick \/ ServerCrashes
    PROVE  IInv'
<1>1. /\ TypeOK' /\ row' = row /\ used' = used /\ clock' >= clock
      /\ clock \in Nat /\ clock' \in Nat
  BY EnvironmentShape DEF IInv, TypeOK
<1>2. CASE Tick
  <2>1. UNCHANGED <<pc, op, loc, sole>>
    BY <1>2 DEF Tick
  <2>2. PassInv' /\ CountInv'
    BY <1>1, <2>1 DEF IInv, PassInv, CountInv, CountBounded, At
  <2>3. /\ Rounded(clock) <= Rounded(clock') /\ Truncated(clock) <= Truncated(clock')
        /\ Rounded(clock) \in Nat /\ Rounded(clock') \in Nat
        /\ Truncated(clock) \in Nat /\ Truncated(clock') \in Nat
    BY <1>1, LaterSeconds
  <2>4. ASSUME NEW r \in Requests PROVE SeedInv(r)'
    <3>1. SUFFICES ASSUME At(r, "resetStore")
                   PROVE  loc[r].now <= Rounded(clock')
      BY <1>1, <2>1 DEF IInv, SeedInv, At, Rounded
    <3>2. loc[r].now <= Rounded(clock) /\ loc[r].now \in Nat
      BY <3>1 DEF IInv, SeedInv, TypeOK, Locals
    <3>3. QED
      BY <2>3, <3>2
  <2>5. ASSUME NEW r \in Requests PROVE AloneInv(r)'
    <3>1. SUFFICES ASSUME sole = r
                   PROVE  AloneInv(r)'
      BY <2>1 DEF AloneInv
    <3>2. AloneInv(r)
      BY DEF IInv
    <3>3. Moved(loc[r].now) => Moved(loc[r].now)'
      <4>1. row.mtime \in Nat
        BY DEF IInv, TypeOK, Rows
      <4>2. row.mtime < Truncated(clock) => row.mtime < Truncated(clock')
        BY <2>3, <4>1
      <4>3. QED
        BY <1>1, <2>1, <4>2 DEF Moved
    <3>4. At(r, "sleep") =>
            \E b \in Nat : /\ b <= clock' /\ loc[r].wake = b + 1
                          /\ row.success <= Rounded(b) /\ row.mtime = Truncated(b)
      BY <1>1, <3>1, <3>2 DEF AloneInv
    <3>5. QED
      BY <1>1, <2>1, <3>1, <3>2, <3>3, <3>4 DEF AloneInv, At, Rounded, Truncated
  <2>6. QED
    BY <1>1, <2>2, <2>4, <2>5 DEF IInv
<1>3. CASE ServerCrashes
  <2>1. /\ pc' = [r \in Requests |-> "idle"] /\ loc' = [r \in Requests |-> Empty]
        /\ sole' = Nobody
    BY <1>3 DEF ServerCrashes
  <2>2. PassInv'
    BY <1>1, <2>1, BlankWeak DEF IInv, PassInv, Empty, NewRow, Statements
  <2>3. CountInv'
    BY <1>1, <2>1 DEF IInv, CountInv, CountBounded, At
  <2>4. ASSUME NEW r \in Requests PROVE SeedInv(r)' /\ AloneInv(r)'
    BY <2>1, NobodyElse DEF SeedInv, AloneInv, At
  <2>5. QED
    BY <1>1, <2>2, <2>3, <2>4 DEF IInv
<1>4. QED
  BY <1>2, <1>3

\* Every step keeps the invariant.
LEMMA NextIInv == IInv /\ [Next]_vars => IInv'
<1> SUFFICES ASSUME IInv, [Next]_vars PROVE IInv'
  OBVIOUS
<1>1. ASSUME NEW r \in Requests, Request(r) PROVE IInv'
  BY <1>1, StepShape, PassStep, CountStep, SeedStep, AloneStep DEF IInv
<1>2. CASE Tick \/ ServerCrashes
  BY <1>2, EnvironmentStep
<1>3. CASE UNCHANGED vars
  BY <1>3 DEF vars, IInv, TypeOK, PassInv, CountInv, CountBounded, SeedInv, AloneInv, At, Moved,
     Rounded, Truncated
<1>4. QED
  BY <1>1, <1>2, <1>3 DEF Next

\* The inductive invariant: where passwords and seeds are, what counts requests
\* write back, and what the row of an undisturbed reset looks like.
THEOREM SpecIInv == Spec => []IInv
  BY InitIInv, NextIInv, PTL DEF Spec

\* Every variable keeps its type.
THEOREM TypeCorrect == Spec => []TypeOK
<1>1. IInv => TypeOK
  BY DEF IInv
<1>2. QED
  BY <1>1, SpecIInv, PTL

\* The failure count of Login stays within maxfailure + 1, for every number of
\* concurrent calls and every maxfailure.
THEOREM CountStaysBounded == Spec => []CountBounded
<1>1. IInv => CountBounded
  BY DEF IInv, CountInv
<1>2. QED
  BY <1>1, SpecIInv, PTL

\* The half second authnPad sleeps is enough for a reset nobody disturbs,
\* whenever in its second it starts and however long its statements take.
THEOREM UndisturbedResetSucceeds == Spec => []ResetAloneSucceeds
<1>1. IInv => ResetAloneSucceeds
  BY DEF IInv, AloneInv, ResetAloneSucceeds
<1>2. QED
  BY <1>1, SpecIInv, PTL
-----------------------------------------------------------------------------
(* One call at a time, with failing statements, crashes and resets.        *)

Serial == \A q, r \in Requests : q = r

\* The row stays as the call read it until the call writes it.
SerialInv ==
    /\ row.pass = current
    /\ misses <= row.count
    /\ \A r \in Requests :
         /\ pc[r] \in {"miss", "hit", "validate", "store", "reseed", "resetStore"} =>
              loc[r].read.pass = row.pass
         /\ At(r, "miss") => loc[r].read.count = row.count

\* Where a step that writes nothing leaves the call, it has read the row as it is.
LEMMA SerialQuiet ==
    ASSUME IInv, IInv', SerialInv, Serial, NEW r \in Requests,
           Called(r) \/ Select(r) \/ Validate(r) \/ ResetSelect(r) \/ Reseed(r) \/ Wake(r)
             \/ Reply(r)
    PROVE  SerialInv'
<1>1. row' = row /\ current' = current /\ misses' = misses
  BY DEF Called, Login, ChangePassword, ResetPassword, Call, Select, Validate, ResetSelect,
     Reseed, Wake, Reply
<1>2. TypeOK /\ row \in Rows /\ loc[r] \in Locals
  BY DEF IInv, TypeOK
<1>3. SUFFICES /\ pc'[r] \in {"miss", "hit", "validate", "store", "reseed", "resetStore"} =>
                    loc'[r].read.pass = row.pass
               /\ pc'[r] = "miss" => loc'[r].read.count = row.count
  BY <1>1 DEF SerialInv, Serial, At
<1>4. CASE Called(r)
  <2>1. \E l \in {"select", "resetSelect"} : \E v : Goto(r, l, v)
    BY <1>4 DEF Called, Login, ChangePassword, ResetPassword, Call
  <2>2. pc'[r] \in {"select", "resetSelect"}
    BY <1>2, <2>1, GotoOwn
  <2>3. QED
    BY <2>2
<1>5. CASE Select(r) \/ ResetSelect(r)
  <2>1. \E l \in {"locked", "miss", "hit", "reseed", "error"} :
          Goto(r, l, [loc[r] EXCEPT !.read = row]) \/ Goto(r, "error", Empty)
    BY <1>5 DEF Select, ResetSelect, SelectFails
  <2>2. \/ pc'[r] = "error"
        \/ pc'[r] = "locked"
        \/ loc'[r] = [loc[r] EXCEPT !.read = row]
    BY <1>2, <2>1, GotoOwn DEF Outcomes
  <2>3. [loc[r] EXCEPT !.read = row].read = row
    BY <1>2 DEF Locals
  <2>4. QED
    BY <2>2, <2>3
<1>6. CASE Validate(r)
  <2>1. \/ Goto(r, "store", [loc[r] EXCEPT !.now = Rounded(clock)])
        \/ Goto(r, "rejected", Empty)
    BY <1>6 DEF Validate
  <2>2. \/ pc'[r] = "rejected"
        \/ pc'[r] = "store" /\ loc'[r] = [loc[r] EXCEPT !.now = Rounded(clock)]
    BY <1>2, <2>1, GotoOwn DEF Outcomes
  <2>3. [loc[r] EXCEPT !.now = Rounded(clock)].read = loc[r].read
    BY <1>2 DEF Locals
  <2>4. loc[r].read.pass = row.pass
    BY <1>6 DEF Validate, At, SerialInv
  <2>5. QED
    BY <2>2, <2>3, <2>4
<1>7. CASE Reseed(r)
  <2>1. PICK seed \in Seeds :
          Goto(r, "resetStore", [loc[r] EXCEPT !.given = seed, !.now = Rounded(clock)])
    BY <1>7 DEF Reseed
  <2>2. /\ pc'[r] = "resetStore"
        /\ loc'[r] = [loc[r] EXCEPT !.given = seed, !.now = Rounded(clock)]
    BY <1>2, <2>1, GotoOwn DEF Outcomes
  <2>3. [loc[r] EXCEPT !.given = seed, !.now = Rounded(clock)].read = loc[r].read
    BY <1>2 DEF Locals
  <2>4. loc[r].read.pass = row.pass
    BY <1>7 DEF Reseed, At, SerialInv
  <2>5. QED
    BY <2>2, <2>3, <2>4
<1>8. CASE Wake(r)
  <2>1. \E l \in {"select"} : \E v : Goto(r, l, v)
    BY <1>8 DEF Wake
  <2>2. pc'[r] = "select"
    BY <1>2, <2>1, GotoOwn
  <2>3. QED
    BY <2>2
<1>9. CASE Reply(r)
  BY <1>2, <1>9 DEF Reply, TypeOK
<1>10. QED
  BY <1>4, <1>5, <1>6, <1>7, <1>8, <1>9

\* The UPDATE of a Login leaves the password, and counts what it answers.
LEMMA SerialLogin ==
    ASSUME IInv, IInv', SerialInv, Serial, NEW r \in Requests, Miss(r) \/ Hit(r)
    PROVE  SerialInv'
<1>1. /\ row \in Rows /\ row' \in Rows /\ loc[r] \in Locals /\ loc[r].read \in Rows
      /\ misses \in Nat /\ TypeOK
  BY DEF IInv, TypeOK, Locals
<1>2. current' = current /\ loc[r].read.pass = row.pass
  BY DEF Miss, Hit, At, SerialInv
<1>3. CASE Miss(r)
  <2>1. loc[r].read.count = row.count
    BY <1>3 DEF Miss, SerialInv
  <2>2. /\ Stored(Missed(r)).pass = row.pass
        /\ Stored(Missed(r)).count = row.count + 1
    BY <1>1, <1>2, <2>1 DEF Stored, Missed, Rows
  <2>3. /\ row'.pass = row.pass
        /\ misses' <= row'.count
    BY <1>1, <1>3, <2>2 DEF Miss, Update, UpdateFails, SerialInv, Rows
  <2>4. \E l \in {"badpass", "notupdated", "error"} : \E v : Goto(r, l, v)
    BY <1>3 DEF Miss, Update, UpdateFails
  <2>5. pc'[r] \in {"badpass", "notupdated", "error"}
    BY <1>1, <2>4, GotoOwn
  <2>6. QED
    BY <1>2, <2>3, <2>5 DEF SerialInv, Serial, At
<1>4. CASE Hit(r)
  <2>1. Stored(Matched(r)).pass = row.pass /\ Stored(Matched(r)).count = 0
    BY <1>1, <1>2 DEF Stored, Matched, Rows
  <2>2. row' \in {row, Stored(Matched(r))}
    BY <1>4 DEF Hit, Update, UpdateFails
  <2>3. row'.pass = row.pass /\ (row' = row \/ row'.count = 0)
    BY <2>1, <2>2
  <2>4. misses' = IF row'.count = 0 THEN 0 ELSE misses
    BY <1>4 DEF Hit, Forgives
  <2>5. misses' <= row'.count
    BY <1>1, <2>3, <2>4 DEF SerialInv, Rows
  <2>6. \/ \E l \in {"ok", "validate", "notupdated"} :
             Goto(r, l, [loc[r] EXCEPT !.now = 0])
        \/ Goto(r, "error", Empty)
    BY <1>4 DEF Hit, Update, UpdateFails
  <2>7. \/ pc'[r] \in {"ok", "notupdated", "error"}
        \/ pc'[r] = "validate" /\ loc'[r] = [loc[r] EXCEPT !.now = 0]
    BY <1>1, <2>6, GotoOwn DEF Outcomes
  <2>8. [loc[r] EXCEPT !.now = 0].read = loc[r].read
    BY <1>1 DEF Locals
  <2>9. QED
    BY <1>2, <2>3, <2>5, <2>7, <2>8 DEF SerialInv, Serial, At
<1>5. QED
  BY <1>3, <1>4

\* The UPDATE of a change or a reset stores a new password and forgives.
LEMMA SerialStore ==
    ASSUME IInv, IInv', SerialInv, Serial, NEW r \in Requests, Store(r) \/ ResetStore(r)
    PROVE  SerialInv'
<1> DEFINE v    == IF At(r, "store") THEN Changed(r) ELSE Reset(r)
           pass == IF At(r, "store") THEN loc[r].new ELSE loc[r].given
<1>1. /\ row \in Rows /\ row' \in Rows /\ loc[r] \in Locals /\ loc[r].read \in Rows
      /\ misses \in Nat /\ TypeOK
  BY DEF IInv, TypeOK, Locals
<1>2. Stored(v).pass = pass /\ Stored(v).count = 0
  BY <1>1 DEF Stored, Changed, Reset, Rows
<1>3. row' \in {row, Stored(v)} /\ current' \in {current, pass}
  BY DEF Store, ResetStore, Update, UpdateFails, At
<1>4. \/ row' = Stored(v) /\ current' = pass
      \/ row' = row /\ current' = current
  BY DEF Store, ResetStore, Update, UpdateFails, At
<1>5. row'.pass = current' /\ (row' = row \/ row'.count = 0)
  BY <1>2, <1>4 DEF SerialInv
<1>6. misses' = IF row'.count = 0 THEN 0 ELSE misses
  BY DEF Store, ResetStore, Forgives
<1>7. misses' <= row'.count
  BY <1>1, <1>5, <1>6 DEF SerialInv, Rows
<1>8. \E l \in {"ok", "sleep", "notupdated", "error"} : \E w : Goto(r, l, w)
  BY DEF Store, ResetStore, Update, UpdateFails
<1>9. pc'[r] \in {"ok", "sleep", "notupdated", "error"}
  BY <1>1, <1>8, GotoOwn
<1>10. QED
  BY <1>5, <1>7, <1>9 DEF SerialInv, Serial, At

\* Every step keeps the invariant of a call that is alone.
LEMMA NextSerial == Serial /\ IInv /\ IInv' /\ SerialInv /\ [Next]_vars => SerialInv'
<1> SUFFICES ASSUME Serial, IInv, IInv', SerialInv, [Next]_vars PROVE SerialInv'
  OBVIOUS
<1>1. ASSUME NEW r \in Requests, Request(r) PROVE SerialInv'
  BY <1>1, SerialQuiet, SerialLogin, SerialStore DEF Request, Called
<1>2. CASE Tick
  BY <1>2 DEF Tick, SerialInv, At
<1>3. CASE ServerCrashes
  <2>1. \A r \in Requests : pc'[r] = "idle"
    BY <1>3 DEF ServerCrashes
  <2>2. row' = row /\ current' = current /\ misses' = misses
    BY <1>3 DEF ServerCrashes
  <2>3. QED
    BY <2>1, <2>2 DEF SerialInv, At
<1>4. CASE UNCHANGED vars
  BY <1>4 DEF vars, SerialInv, At
<1>5. QED
  BY <1>1, <1>2, <1>3, <1>4 DEF Next

\* The invariant of a call that is alone.
LEMMA SpecSerial == Serial /\ Spec => []SerialInv
<1> SUFFICES ASSUME Serial PROVE Spec => []SerialInv
  OBVIOUS
<1>1. Init => SerialInv
  BY DEF Init, SerialInv, NewRow, At
<1>2. IInv /\ IInv' /\ SerialInv /\ [Next]_vars => SerialInv'
  BY NextSerial
<1>3. QED
  BY <1>1, <1>2, SpecIInv, PTL DEF Spec

\* One call at a time, the password that was stored last is the one that counts:
\* it takes two calls of Login or ChangePassword to bring an older one back.
THEOREM OneCallKeepsPassword == Serial /\ Spec => []PasswordIsCurrent
<1> SUFFICES ASSUME Serial PROVE Spec => []PasswordIsCurrent
  OBVIOUS
<1>1. SerialInv => PasswordIsCurrent
  BY DEF SerialInv, PasswordIsCurrent
<1>2. QED
  BY <1>1, SpecSerial, PTL

\* One call at a time, Login answers no more than maxfailure + 1 wrong passwords
\* before it locks the account: the bound of LockoutBounded without concurrency.
THEOREM OneCallLocksInTime == Serial /\ Spec => [](misses <= MaxFailure + 1)
<1> SUFFICES ASSUME Serial PROVE Spec => [](misses <= MaxFailure + 1)
  OBVIOUS
<1>1. IInv /\ SerialInv => misses <= MaxFailure + 1
  BY FailureNat DEF IInv, TypeOK, Rows, CountInv, CountBounded, SerialInv
<1>2. QED
  BY <1>1, SpecIInv, SpecSerial, PTL
=============================================================================
