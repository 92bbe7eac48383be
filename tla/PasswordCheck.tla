---------------------------- MODULE PasswordCheck ----------------------------
(***************************************************************************)
(* What the service promises of an account's password and its lock,        *)
(* without columns, times and the number of failures.  A call looks at the *)
(* account once, and is turned away if that is locked then.  A wrong       *)
(* password may lock it, and is answered at most Limit - 1 times before a  *)
(* right one opens it.  The password becomes what a call sets that gave    *)
(* the right one or has a pad; apart from that, a call may bring back the  *)
(* password it saw.                                                        *)
(***************************************************************************)
EXTENDS Naturals

CONSTANTS Requests, Passwords, Seeds, Blank, NoPassword, Limit

VARIABLES
    password,  \* of the account
    locked,    \* calls are turned away
    guesses,   \* wrong passwords answered since the account was last opened
    call       \* call[r]: where r is, what it gave, wants to set, and saw

vars == <<password, locked, guesses, call>>

Known(o, a, g, n, s) == [op |-> o, at |-> a, given |-> g, new |-> n, seen |-> s]

NoCall == Known("none", "idle", NoPassword, NoPassword, NoPassword)

Init ==
    /\ password = Blank
    /\ locked   = FALSE
    /\ guesses  = 0
    /\ call     = [r \in Requests |-> NoCall]

account == <<password, locked, guesses>>

Goes(r, c)        == call' = [call EXCEPT ![r] = c]
Moves(r, a, g, s) == Goes(r, Known(call[r].op, a, g, call[r].new, s))
Answers(r, a)     == Goes(r, Known(call[r].op, a, NoPassword, NoPassword, NoPassword))

Asks(r, o, p, n) ==
    Goes(r, Known(o, IF o = "reset" THEN "owner" ELSE "asked", p, n, NoPassword))

Call(r) ==
    /\ call[r].at = "idle"
    /\ \E p, n \in Passwords :
          \/ Asks(r, "login", p, NoPassword)
          \/ Asks(r, "change", p, n)
          \/ Asks(r, "reset", NoPassword, n)
    /\ UNCHANGED account

Look(r) ==
    /\ call[r].at = "asked"
    /\ \/ locked /\ Answers(r, "locked")
       \/ /\ ~ locked
          /\ Moves(r, IF call[r].given = password THEN "right" ELSE "wrong",
                   call[r].given, password)
    /\ UNCHANGED account

\* The account opens, with password p.
Opens(p) == password' = p /\ locked' = FALSE /\ guesses' = 0

\* The answer is counted, unless the call fails.
Wrong(r) ==
    /\ call[r].at = "wrong"
    /\ password' = call[r].seen /\ locked' \in BOOLEAN
    /\ \/ /\ guesses + 1 < Limit /\ guesses' = guesses + 1
          /\ Answers(r, "badpass") \/ Answers(r, "failed")
       \/ guesses' = guesses /\ Answers(r, "failed")

Right(r) ==
    /\ call[r].at = "right"
    /\ Opens(call[r].seen)
    /\ \/ call[r].op = "login" /\ Answers(r, "ok")
       \/ call[r].op # "login" /\ Moves(r, "proven", call[r].given, NoPassword)
       \/ Answers(r, "failed")

Change(r) ==
    /\ call[r].at = "proven"
    /\ Opens(call[r].new)
    /\ Answers(r, "ok") \/ Answers(r, "failed")

\* A call that has a pad sets a password nobody knows, and goes on with that.
Reset(r) ==
    /\ call[r].at = "owner"
    /\ \E s \in Seeds :
          /\ Opens(s)
          /\ Moves(r, "asked", s, NoPassword) \/ Answers(r, "failed")

GivesUp(r) ==
    /\ call[r].at \in {"asked", "wrong", "right", "proven", "owner"}
    /\ Answers(r, "failed")
    /\ UNCHANGED account

Ends(r) ==
    /\ call[r].at \in {"ok", "badpass", "locked", "failed"}
    /\ Goes(r, NoCall)
    /\ UNCHANGED account

Crash ==
    /\ call' = [r \in Requests |-> NoCall]
    /\ UNCHANGED account

Step(r) ==
    \/ Call(r) \/ Look(r) \/ Wrong(r) \/ Right(r) \/ Change(r) \/ Reset(r)
    \/ GivesUp(r) \/ Ends(r)

Next == Crash \/ \E r \in Requests : Step(r)

Spec == Init /\ [][Next]_vars
=============================================================================
