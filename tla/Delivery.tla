------------------------------- MODULE Delivery -------------------------------
(***************************************************************************)
(* What the relays promise to the requests that use them, without channels *)
(* and goroutines: a relay takes the message of a request once and tries   *)
(* the messages in the order in which it took them, each once; a request   *)
(* is answered when the relays have its messages, or refused when the      *)
(* service has given up on it; messages are lost with the service only.    *)
(***************************************************************************)
EXTENDS Naturals, Sequences

CONSTANTS Requests, Relays

VARIABLES
    asked,     \* the number of messages so far, and the name of the last one
    state,     \* state[r]: idle, asking or refused
    message,   \* message[r]: what r sends
    left,      \* left[r]: the relays that have still to take it
    queue,     \* queue[s]: what s has taken and not yet tried
    tried,     \* tried[s]: what s has tried
    late       \* the service does not wait for requests any more

vars == <<asked, state, message, left, queue, tried, late>>

Init ==
    /\ asked = 0 /\ late = FALSE
    /\ state   = [r \in Requests |-> "idle"]
    /\ message = [r \in Requests |-> 0]
    /\ left    = [r \in Requests |-> {}]
    /\ queue   = [s \in Relays |-> <<>>]
    /\ tried   = [s \in Relays |-> {}]

\* A request comes with a new message for some of the relays.
Ask(r) ==
    /\ state[r] = "idle"
    /\ asked' = asked + 1
    /\ state' = [state EXCEPT ![r] = "asking"]
    /\ message' = [message EXCEPT ![r] = asked + 1]
    /\ \E ss \in SUBSET Relays : left' = [left EXCEPT ![r] = ss]
    /\ UNCHANGED <<queue, tried, late>>

Take(r, s) ==
    /\ state[r] = "asking" /\ s \in left[r]
    /\ queue' = [queue EXCEPT ![s] = Append(@, message[r])]
    /\ left'  = [left EXCEPT ![r] = @ \ {s}]
    /\ UNCHANGED <<asked, state, message, tried, late>>

Deliver(s) ==
    /\ queue[s] # <<>>
    /\ tried' = [tried EXCEPT ![s] = @ \cup {Head(queue[s])}]
    /\ queue' = [queue EXCEPT ![s] = Tail(@)]
    /\ UNCHANGED <<asked, state, message, left, late>>

GivesUp ==
    /\ late' = TRUE
    /\ UNCHANGED <<asked, state, message, left, queue, tried>>

\* Requests with messages left are turned away, one or all that wait together.
Refuse(rs) ==
    /\ late
    /\ \A r \in rs : state[r] = "asking" /\ left[r] # {}
    /\ state' = [r \in Requests |-> IF r \in rs THEN "refused" ELSE state[r]]
    /\ left'  = [r \in Requests |-> IF r \in rs THEN {} ELSE left[r]]
    /\ UNCHANGED <<asked, message, queue, tried, late>>

Answer(r) ==
    /\ state[r] # "idle" /\ left[r] = {}
    /\ state'   = [state EXCEPT ![r] = "idle"]
    /\ message' = [message EXCEPT ![r] = 0]
    /\ UNCHANGED <<asked, left, queue, tried, late>>

\* The service ends, with all that has not been tried.
End ==
    /\ state'   = [r \in Requests |-> "idle"]
    /\ message' = [r \in Requests |-> 0]
    /\ left'    = [r \in Requests |-> {}]
    /\ queue'   = [s \in Relays |-> <<>>]
    /\ UNCHANGED <<asked, tried, late>>

Next ==
    \/ \E r \in Requests : Ask(r) \/ Answer(r)
    \/ \E r \in Requests, s \in Relays : Take(r, s)
    \/ \E s \in Relays : Deliver(s)
    \/ \E rs \in SUBSET Requests : Refuse(rs)
    \/ GivesUp \/ End

Spec == Init /\ [][Next]_vars
=============================================================================
