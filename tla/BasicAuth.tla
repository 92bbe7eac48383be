------------------------------ MODULE BasicAuth ------------------------------
(***************************************************************************)
(* Passwords in MySQL (src/internal/relational/basicauth.go), and how      *)
(* PatchLogin and authnPad (src/internal/router/basicauth.go) drive them:  *)
(* Login, ChangePassword and ResetPassword on one account.                 *)
(*                                                                         *)
(* Each of them reads the account's row with a SELECT and later writes the *)
(* whole of it back with an UPDATE, without a transaction.  MySQL tells    *)
(* how many rows the UPDATE changed, and not how many it found: an UPDATE  *)
(* that leaves the row as it was counts 0 rows, and is an error for the    *)
(* caller.                                                                 *)
(*                                                                         *)
(* Time goes in ticks of half a second, the same for the service and for   *)
(* MySQL.  The columns hold whole seconds: a time.Time is rounded,         *)
(* current_timestamp is truncated.  A stored password stands for its hash; *)
(* two different passwords never have the same one.                        *)
(***************************************************************************)
EXTENDS Naturals, FiniteSets, Combinatorics

CONSTANTS
    Requests,    \* concurrent calls
    Passwords,   \* what users type
    Weak,        \* the passwords validate rejects: too short, or the username
    Blank,       \* the password of a new account
    Seeds,       \* the random passwords ResetPassword stores, one each
    NoPassword,  \* of a request that has none
    Nobody,      \* no request
    MaxFailure,  \* maxfailure
    MaxClock     \* bound on the clock, in ticks

ASSUME BlankWeak      == Blank \in Weak /\ Weak \subseteq Passwords
ASSUME SeedsDistinct  == Seeds \cap Passwords = {}
ASSUME NoPasswordElse == NoPassword \notin Passwords \cup Seeds
ASSUME NobodyElse     == Nobody \notin Requests
ASSUME RequestsFinite == IsFiniteSet(Requests)
ASSUME FailureNat     == MaxFailure \in Nat
ASSUME ClockNat       == MaxClock \in Nat

VARIABLES
    clock,    \* the current tick
    row,      \* the account's row in users
    used,     \* the seeds generated so far
    pc,       \* pc[r]: the next statement of request r, or its outcome
    op,       \* op[r]: login, change, or reset (a change with the authn-pad cookie)
    loc,      \* loc[r]: r's local variables
    current,  \* the password that a change or a reset stored last
    misses,   \* answers to wrong passwords since the failure count was last 0
    sole      \* the request that alone wrote the row since its ResetPassword

vars == <<clock, row, used, pc, op, loc, current, misses, sole>>

AnyPassword == Passwords \cup Seeds
Outcomes    == {"ok", "badpass", "locked", "notupdated", "rejected", "error"}
Statements  == {"select", "miss", "hit", "validate", "store",
                "resetSelect", "reseed", "resetStore", "sleep"}

Rounded(t)   == (t + 1) \div 2
Truncated(t) == t \div 2

\* Column values: failure is 0 until there is one.
Rows == [pass : AnyPassword, success : Nat, failure : Nat, count : Nat, mtime : Nat]

\* given: the password r logs in with; new: the one it will set; read: the row
\* it read; now: its last time.Now(), as a column holds it; wake: when its sleep
\* may end.
Locals == [given : AnyPassword \cup {NoPassword}, new : AnyPassword \cup {NoPassword},
           read : Rows, now : Nat, wake : Nat]

TypeOK ==
    /\ clock \in Nat
    /\ row \in Rows
    /\ used \in SUBSET Seeds
    /\ pc \in [Requests -> {"idle"} \cup Statements \cup Outcomes]
    /\ op \in [Requests -> {"none", "login", "change", "reset"}]
    /\ loc \in [Requests -> Locals]
    /\ current \in AnyPassword
    /\ misses \in Nat
    /\ sole \in Requests \cup {Nobody}

\* The row AddUser inserted, the moment before.
NewRow == [pass |-> Blank, success |-> 0, failure |-> 0, count |-> 0, mtime |-> 0]
Empty  == [given |-> NoPassword, new |-> NoPassword, read |-> NewRow, now |-> 0, wake |-> 0]

Init ==
    /\ clock   = 0
    /\ row     = NewRow
    /\ used    = {}
    /\ pc      = [r \in Requests |-> "idle"]
    /\ op      = [r \in Requests |-> "none"]
    /\ loc     = [r \in Requests |-> Empty]
    /\ current = Blank
    /\ misses  = 0
    /\ sole    = Nobody

At(r, l) == pc[r] = l

\* r goes on with statement l and the local variables v, or ends with outcome l.
Goto(r, l, v) ==
    /\ pc'  = [pc EXCEPT ![r] = l]
    /\ loc' = [loc EXCEPT ![r] = IF l \in Outcomes THEN Empty ELSE v]

Tick ==
    /\ clock < MaxClock
    /\ clock' = clock + 1
    /\ UNCHANGED <<row, used, pc, op, loc, current, misses, sole>>
-----------------------------------------------------------------------------
(* Statements.                                                             *)

\* UPDATE users with the values v: the row as MySQL stores it.
Stored(v) == [v EXCEPT !.mtime = Truncated(clock)]

\* updateBasicAuth: the caller goes on only if that changed the row.
Update(r, v, next, l) ==
    /\ row' = Stored(v)
    /\ Goto(r, IF Stored(v) = row THEN "notupdated" ELSE next, l)

\* The statement fails for the caller, executed or not.
UpdateFails(r, v) ==
    /\ row' \in {row, Stored(v)}
    /\ Goto(r, "error", Empty)

SelectFails(r) == Goto(r, "error", Empty)

\* A write by r: nobody else is alone with the row any longer.
Interrupts(r) == sole' = IF sole = r THEN r ELSE Nobody

\* The count of wrong passwords starts again whenever the column does.
Forgives == misses' = IF row'.count = 0 THEN 0 ELSE misses

\* Faulty variant: a wrong password counts even when the account is locked.
SelectNeverLocks(r) ==
    /\ At(r, "select")
    /\ Goto(r, IF loc[r].given # row.pass THEN "miss" ELSE "hit",
            [loc[r] EXCEPT !.read = row])
    /\ UNCHANGED <<clock, row, used, op, current, misses, sole>>

Select(r) ==
    /\ At(r, "select")
    /\ \/ Goto(r, CASE row.count > MaxFailure -> "locked"
                    [] row.count <= MaxFailure /\ loc[r].given # row.pass -> "miss"
                    [] OTHER -> "hit",
               [loc[r] EXCEPT !.read = row])
       \/ SelectFails(r)
    /\ UNCHANGED <<clock, row, used, op, current, misses, sole>>

\* Faulty variant: the count is written back as it was read.
MissedNotCounted(r) == [loc[r].read EXCEPT !.failure = loc[r].now]

\* Faulty variant: the attempts left are counted down.
MissedCountsDown(r) == [loc[r].read EXCEPT !.failure = loc[r].now, !.count = @ - 1]

\* Login with a wrong password: the row as it was read, one failure more.
Missed(r) == [loc[r].read EXCEPT !.failure = loc[r].now, !.count = @ + 1]

Miss(r) ==
    /\ At(r, "miss")
    /\ \/ Update(r, Missed(r), "badpass", Empty) /\ misses' = misses + 1
       \/ UpdateFails(r, Missed(r)) /\ UNCHANGED misses
    /\ Interrupts(r)
    /\ UNCHANGED <<clock, used, op, current>>

\* Login with the right password: the row as it was read, no failures.
Matched(r) == [loc[r].read EXCEPT !.success = loc[r].now, !.count = 0]

Hit(r) ==
    /\ At(r, "hit")
    /\ \/ Update(r, Matched(r), IF op[r] = "login" THEN "ok" ELSE "validate",
                 [loc[r] EXCEPT !.now = 0])
       \/ UpdateFails(r, Matched(r))
    /\ Forgives /\ Interrupts(r)
    /\ UNCHANGED <<clock, used, op, current>>

\* ChangePassword after its Login: validate, and the time.
Validate(r) ==
    /\ At(r, "validate")
    /\ \/ /\ loc[r].new \notin Weak \cup {loc[r].read.pass}
          /\ Goto(r, "store", [loc[r] EXCEPT !.now = Rounded(clock)])
       \/ /\ loc[r].new \in Weak \cup {loc[r].read.pass}
          /\ Goto(r, "rejected", Empty)
    /\ UNCHANGED <<clock, row, used, op, current, misses, sole>>

Changed(r) ==
    [loc[r].read EXCEPT !.pass = loc[r].new, !.success = loc[r].now, !.count = 0]

Store(r) ==
    /\ At(r, "store")
    /\ \/ Update(r, Changed(r), "ok", Empty) /\ current' = loc[r].new
       \/ UpdateFails(r, Changed(r)) /\ current' = IF row' = row THEN current ELSE loc[r].new
    /\ Forgives /\ Interrupts(r)
    /\ UNCHANGED <<clock, used, op>>
-----------------------------------------------------------------------------
(* PatchLogin with the authn-pad cookie: ResetPassword, a sleep of 500 ms, *)
(* then ChangePassword with the seed for the old password.                 *)

ResetSelect(r) ==
    /\ At(r, "resetSelect")
    /\ Goto(r, "reseed", [loc[r] EXCEPT !.read = row]) \/ SelectFails(r)
    /\ UNCHANGED <<clock, row, used, op, current, misses, sole>>

Reseed(r) ==
    /\ At(r, "reseed")
    /\ \E seed \in Seeds \ used :
         /\ used' = used \cup {seed}
         /\ Goto(r, "resetStore", [loc[r] EXCEPT !.given = seed, !.now = Rounded(clock)])
    /\ UNCHANGED <<clock, row, op, current, misses, sole>>

Reset(r) ==
    [loc[r].read EXCEPT !.pass = loc[r].given, !.success = loc[r].now, !.count = 0]

\* Once the seed is stored the request falls asleep, until the next tick or later.
ResetStore(r) ==
    /\ At(r, "resetStore")
    /\ \/ /\ Update(r, Reset(r), "sleep",
                    [loc[r] EXCEPT !.read = NewRow, !.now = 0, !.wake = clock + 1])
          /\ current' = loc[r].given
          /\ sole' = r
       \/ /\ UpdateFails(r, Reset(r))
          /\ current' = IF row' = row THEN current ELSE loc[r].given
          /\ Interrupts(r)
    /\ Forgives
    /\ UNCHANGED <<clock, used, op>>

\* Faulty variant: the sleep is gone.
WakeAtOnce(r) ==
    /\ At(r, "sleep")
    /\ Goto(r, "select", [loc[r] EXCEPT !.now = Rounded(clock), !.wake = 0])
    /\ UNCHANGED <<clock, row, used, op, current, misses, sole>>

Wake(r) ==
    /\ At(r, "sleep")
    /\ clock >= loc[r].wake
    /\ Goto(r, "select", [loc[r] EXCEPT !.now = Rounded(clock), !.wake = 0])
    /\ UNCHANGED <<clock, row, used, op, current, misses, sole>>
-----------------------------------------------------------------------------
Call(r, o, l, v) ==
    /\ At(r, "idle")
    /\ Goto(r, l, v)
    /\ op' = [op EXCEPT ![r] = o]
    /\ UNCHANGED <<clock, row, used, current, misses, sole>>

Login(r) ==
    \E p \in Passwords :
        Call(r, "login", "select", [Empty EXCEPT !.given = p, !.now = Rounded(clock)])

ChangePassword(r) ==
    \E p, n \in Passwords :
        Call(r, "change", "select",
             [Empty EXCEPT !.given = p, !.new = n, !.now = Rounded(clock)])

ResetPassword(r) ==
    \E n \in Passwords : Call(r, "reset", "resetSelect", [Empty EXCEPT !.new = n])

\* The router has the outcome.
Reply(r) ==
    /\ pc[r] \in Outcomes
    /\ pc'   = [pc EXCEPT ![r] = "idle"]
    /\ op'   = [op EXCEPT ![r] = "none"]
    /\ sole' = IF sole = r THEN Nobody ELSE sole
    /\ UNCHANGED <<clock, row, used, loc, current, misses>>

\* The service dies with all its requests, asleep or not.
ServerCrashes ==
    /\ pc'   = [r \in Requests |-> "idle"]
    /\ op'   = [r \in Requests |-> "none"]
    /\ loc'  = [r \in Requests |-> Empty]
    /\ sole' = Nobody
    /\ UNCHANGED <<clock, row, used, current, misses>>

Request(r) ==
    \/ Login(r) \/ ChangePassword(r) \/ ResetPassword(r)
    \/ Select(r) \/ Miss(r) \/ Hit(r) \/ Validate(r) \/ Store(r)
    \/ ResetSelect(r) \/ Reseed(r) \/ ResetStore(r) \/ Wake(r)
    \/ Reply(r)

Next == Tick \/ ServerCrashes \/ \E r \in Requests : Request(r)

Spec == Init /\ [][Next]_vars
-----------------------------------------------------------------------------
(* Properties.                                                             *)

\* The failure count, an uint8 in Go and a column that every call overwrites
\* with what it read, stops one above maxfailure: no interleaving of SELECTs and
\* UPDATEs makes it wrap around to "not locked".
CountBounded == row.count <= MaxFailure + 1

\* How many wrong passwords an account answers before it is locked for good.
\* One call at a time: maxfailure + 1.  Each concurrent call may hold on to a
\* count it has read and set the column back to it once; n calls together get
\* no more than this number of answers out of that.
LockoutBounded ==
    LET n == Cardinality(Requests) IN misses < choose(n + MaxFailure + 1, n)

\* The half second PatchLogin sleeps between ResetPassword and ChangePassword
\* is enough: a reset whose row nobody else writes never finds its own UPDATE
\* without effect, its seed refused or the account locked.
ResetAloneSucceeds ==
    \A r \in Requests : op[r] = "reset" /\ sole = r =>
        pc[r] \notin {"notupdated", "badpass", "locked"}

\* When the service answers that a password was changed, the password that
\* counts is the one that was stored last: no call that read the row earlier
\* brings an older one back ("password changed").
PasswordIsCurrent ==
    \A r \in Requests : op[r] \in {"change", "reset"} /\ pc[r] = "ok" => row.pass = current

\* A reset that no failure and nobody else disturbs ends with the user's own
\* password, not with the random one ResetPassword put in its place ("clobbered
\* first, then set with the user imput").
SeedIsTransient ==
    \A r \in Requests : op[r] = "reset" /\ sole = r /\ pc[r] \in Outcomes \ {"error"} =>
        row.pass \notin Seeds
-----------------------------------------------------------------------------
(* What a client knows of a call.                                          *)

Stage(r) ==
    CASE pc[r] \in {"select", "sleep"}                   -> "asked"
      [] pc[r] = "miss"                                  -> "wrong"
      [] pc[r] = "hit"                                   -> "right"
      [] pc[r] \in {"validate", "store"}                 -> "proven"
      [] pc[r] \in {"resetSelect", "reseed", "resetStore"} -> "owner"
      [] pc[r] \in {"idle", "ok", "badpass", "locked"}   -> pc[r]
      [] OTHER                                           -> "failed"

CallOf(r) ==
    LET known(l, p) == IF pc[r] \in l THEN p ELSE NoPassword IN
    [op    |-> IF pc[r] = "idle" THEN "none" ELSE op[r],
     at    |-> Stage(r),
     given |-> known(Statements \ {"resetSelect", "reseed", "resetStore"}, loc[r].given),
     new   |-> known(Statements, loc[r].new),
     seen  |-> known({"miss", "hit"}, loc[r].read.pass)]

Promise == INSTANCE PasswordCheck WITH
               Limit    <- LET n == Cardinality(Requests) IN choose(n + MaxFailure + 1, n),
               password <- row.pass,
               locked   <- row.count > MaxFailure,
               guesses  <- misses,
               call     <- [r \in Requests |-> CallOf(r)]

\* With all its statements, whole rows written back and seconds rounded, BasicAuth
\* is an account that looks, counts and locks as PasswordCheck says.
KeepsPromise == Promise!Spec
=============================================================================
