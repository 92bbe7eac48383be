----------------------------- MODULE Credentials -----------------------------
(***************************************************************************)
(* What the validator promises of the tokens and pads it hands out, without *)
(* Redis: a key is issued at most once, works until it dies, never works    *)
(* again after that, and a revocation (a logout, or the redemption of a     *)
(* pad) that is acknowledged has killed every key it promised to kill.      *)
(***************************************************************************)
CONSTANTS Requests, Keys, Users, NoUser

VARIABLES
    holder,   \* holder[k]: the user k belongs to, NoUser before k exists
    status,   \* status[k]: unknown to clients, alive or dead
    phase,    \* phase[r]: whether r revokes, and whether it was acknowledged
    promise   \* promise[r]: the keys r will have killed when acknowledged

vars == <<holder, status, phase, promise>>

TypeOK ==
    /\ holder  \in [Keys -> Users \cup {NoUser}]
    /\ status  \in [Keys -> {"unknown", "alive", "dead"}]
    /\ phase   \in [Requests -> {"idle", "revoking", "acked"}]
    /\ promise \in [Requests -> SUBSET Keys]

Init ==
    /\ holder  = [k \in Keys |-> NoUser]
    /\ status  = [k \in Keys |-> "unknown"]
    /\ phase   = [r \in Requests |-> "idle"]
    /\ promise = [r \in Requests |-> {}]

\* A user gets a uuid nobody had.
Reserve(k, u) ==
    /\ holder[k] = NoUser /\ status[k] = "unknown"
    /\ holder' = [holder EXCEPT ![k] = u]
    /\ UNCHANGED <<status, phase, promise>>

\* The key is handed out; it may have died on the way.
Issue(k) ==
    /\ holder[k] # NoUser /\ status[k] = "unknown"
    /\ \E s \in {"alive", "dead"} : status' = [status EXCEPT ![k] = s]
    /\ UNCHANGED <<holder, phase, promise>>

\* Keys die by expiry, by a restart of Redis, or one by one in a revocation.
Die(ks) ==
    /\ \A k \in ks : status[k] = "alive"
    /\ status' = [k \in Keys |-> IF k \in ks THEN "dead" ELSE status[k]]
    /\ UNCHANGED <<holder, phase, promise>>

IssuedKeys == {k \in Keys : status[k] # "unknown"}

\* One token, or all that one user holds.
BeginRevoke(r, ks) ==
    /\ phase[r] = "idle"
    /\ \/ \E k \in IssuedKeys : ks = {k}
       \/ \E u \in Users : ks = {k \in IssuedKeys : holder[k] = u}
    /\ phase'   = [phase EXCEPT ![r] = "revoking"]
    /\ promise' = [promise EXCEPT ![r] = ks]
    /\ UNCHANGED <<holder, status>>

Acknowledge(r) ==
    /\ phase[r] = "revoking"
    /\ \A k \in promise[r] : status[k] = "dead"
    /\ phase' = [phase EXCEPT ![r] = "acked"]
    /\ UNCHANGED <<holder, status, promise>>

\* Requests end, or fail, or are all lost in a crash; what they killed is dead.
Forget(rs) ==
    /\ phase'   = [r \in Requests |-> IF r \in rs THEN "idle" ELSE phase[r]]
    /\ promise' = [r \in Requests |-> IF r \in rs THEN {} ELSE promise[r]]
    /\ UNCHANGED <<holder, status>>

Next ==
    \/ \E k \in Keys, u \in Users : Reserve(k, u)
    \/ \E k \in Keys : Issue(k)
    \/ \E ks \in SUBSET Keys : Die(ks)
    \/ \E r \in Requests, ks \in SUBSET Keys : BeginRevoke(r, ks)
    \/ \E r \in Requests : Acknowledge(r)
    \/ \E rs \in SUBSET Requests : Forget(rs)

Spec == Init /\ [][Next]_vars
=============================================================================
