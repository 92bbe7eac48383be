-------------------------------- MODULE Sender --------------------------------
(***************************************************************************)
(* The mail and SMS relays (src/internal/messaging) between the requests    *)
(* that use them (the end of DeleteLogin, src/internal/router/basicauth.go) *)
(* and the shutdown of the service (src/internal/cmd/serve-mysql/main.go).  *)
(*                                                                         *)
(* A relay is a channel of limited capacity and one goroutine that takes   *)
(* messages from it and tries to deliver them, once each.  Send blocks its *)
(* request while the channel is full, and fails when the channel is closed *)
(* before or while it waits.  Channels are Go's: first in first out, and a *)
(* receive from a full channel lets the first waiting sender in.           *)
(***************************************************************************)
EXTENDS Naturals, Sequences, SequencesExt

CONSTANTS
    Requests,   \* concurrent DeleteLogin requests
    Capacity,   \* of a channel; 10 in the code
    MaxCalls,   \* bound on the calls made
    Addresses,  \* the sets of relays a user may have addresses for
    None        \* no call

ASSUME CapacityPositive == Capacity \in Nat \ {0}
ASSUME MaxCallsNat      == MaxCalls \in Nat
ASSUME NoneElse         == None \notin Nat

Relays == {"mail", "sms"}

ASSUME SomeAddress == Addresses \subseteq (SUBSET Relays) \ {{}}

VARIABLES
    stage,     \* what main is doing
    gaveUp,    \* srv.Shutdown ended with requests still running
    calls,     \* the number of calls made, and the name of the last one
    pc,        \* pc[r]: the relay r sends to next, or where it is otherwise
    call,      \* call[r]: the name of r's call, and of its messages
    wants,     \* wants[r]: the relays its user has an address for
    channel,   \* channel[s]: the buffered messages
    waiting,   \* waiting[s]: the requests blocked in a send
    closed,    \* the closed channels
    worker,    \* worker[s]: ready, busy with a message, or done
    busy,      \* busy[s]: that message
    tried      \* tried[s]: the messages delivered, or failed and logged, so far

requests == <<calls, pc, call, wants>>
relays   == <<channel, waiting, closed, worker, busy, tried>>
vars     == <<stage, gaveUp, requests, relays>>

Stages == {"serving", "draining", "stopping", "smsClosed", "mailClosed", "exited"}

TypeOK ==
    /\ stage   \in Stages
    /\ gaveUp  \in BOOLEAN
    /\ calls   \in 0..MaxCalls
    /\ pc      \in [Requests -> Relays \cup {"idle", "blocked", "ok", "error"}]
    /\ call    \in [Requests -> 0..MaxCalls]
    /\ wants   \in [Requests -> SUBSET Relays]
    /\ channel \in [Relays -> Seq(1..MaxCalls)]
    /\ \A s \in Relays : Len(channel[s]) <= Capacity
    /\ waiting \in [Relays -> Seq(Requests)]
    /\ closed  \in SUBSET Relays
    /\ worker  \in [Relays -> {"ready", "busy", "done"}]
    /\ busy    \in [Relays -> 1..MaxCalls \cup {None}]
    /\ tried   \in [Relays -> SUBSET (1..MaxCalls)]

Init ==
    /\ stage   = "serving"
    /\ gaveUp  = FALSE
    /\ calls   = 0
    /\ pc      = [r \in Requests |-> "idle"]
    /\ call    = [r \in Requests |-> 0]
    /\ wants   = [r \in Requests |-> {}]
    /\ channel = [s \in Relays |-> <<>>]
    /\ waiting = [s \in Relays |-> <<>>]
    /\ closed  = {}
    /\ worker  = [s \in Relays |-> "ready"]
    /\ busy    = [s \in Relays |-> None]
    /\ tried   = [s \in Relays |-> {}]

Up == stage # "exited"
-----------------------------------------------------------------------------
(* DeleteLogin: the mail, then the SMS, then the answer.                   *)

After(s) == IF s = "mail" THEN "sms" ELSE "ok"

\* A request reaches its first Send.  The server takes new ones until Shutdown
\* returns, and after it when Shutdown gave up on open connections.
Accept(r) ==
    /\ Up /\ (stage \in {"serving", "draining"} \/ gaveUp)
    /\ pc[r] = "idle" /\ calls < MaxCalls
    /\ calls' = calls + 1
    /\ call'  = [call EXCEPT ![r] = calls + 1]
    /\ \E ss \in Addresses : wants' = [wants EXCEPT ![r] = ss]
    /\ pc' = [pc EXCEPT ![r] = "mail"]
    /\ UNCHANGED <<stage, gaveUp, relays>>

\* No address, no message: a nil message is not sent.
SendNothing(r, s) ==
    /\ Up /\ pc[r] = s /\ s \notin wants[r]
    /\ pc' = [pc EXCEPT ![r] = After(s)]
    /\ UNCHANGED <<stage, gaveUp, calls, call, wants, relays>>

\* The send panics; Send recovers and returns the error.
SendRefused(r, s) ==
    /\ Up /\ pc[r] = s /\ s \in wants[r]
    /\ s \in closed
    /\ pc' = [pc EXCEPT ![r] = "error"]
    /\ UNCHANGED <<stage, gaveUp, calls, call, wants, relays>>

\* Faulty variant: one message more than the channel has room for.
SendOverfills(r, s) ==
    /\ Up /\ pc[r] = s /\ s \in wants[r]
    /\ s \notin closed /\ Len(channel[s]) <= Capacity
    /\ channel' = [channel EXCEPT ![s] = Append(@, call[r])]
    /\ pc' = [pc EXCEPT ![r] = After(s)]
    /\ UNCHANGED <<stage, gaveUp, calls, call, wants, waiting, closed, worker, busy, tried>>

SendBuffered(r, s) ==
    /\ Up /\ pc[r] = s /\ s \in wants[r]
    /\ s \notin closed /\ Len(channel[s]) < Capacity
    /\ channel' = [channel EXCEPT ![s] = Append(@, call[r])]
    /\ pc' = [pc EXCEPT ![r] = After(s)]
    /\ UNCHANGED <<stage, gaveUp, calls, call, wants, waiting, closed, worker, busy, tried>>

\* Faulty variant: a message that finds the channel full is dropped.
SendDrops(r, s) ==
    /\ Up /\ pc[r] = s /\ s \in wants[r]
    /\ s \notin closed /\ Len(channel[s]) >= Capacity
    /\ pc' = [pc EXCEPT ![r] = After(s)]
    /\ UNCHANGED <<stage, gaveUp, calls, call, wants, relays>>

SendBlocks(r, s) ==
    /\ Up /\ pc[r] = s /\ s \in wants[r]
    /\ s \notin closed /\ Len(channel[s]) >= Capacity
    /\ waiting' = [waiting EXCEPT ![s] = Append(@, r)]
    /\ pc' = [pc EXCEPT ![r] = "blocked"]
    /\ UNCHANGED <<stage, gaveUp, calls, call, wants, channel, closed, worker, busy, tried>>

Reply(r) ==
    /\ Up /\ pc[r] \in {"ok", "error"}
    /\ pc'    = [pc EXCEPT ![r] = "idle"]
    /\ call'  = [call EXCEPT ![r] = 0]
    /\ wants' = [wants EXCEPT ![r] = {}]
    /\ UNCHANGED <<stage, gaveUp, calls, relays>>
-----------------------------------------------------------------------------
(* The goroutine of a relay.                                               *)

\* A receive from a full channel lets the first blocked request in.
Receive(s) ==
    /\ Up /\ worker[s] = "ready" /\ channel[s] # <<>>
    /\ worker' = [worker EXCEPT ![s] = "busy"]
    /\ busy'   = [busy EXCEPT ![s] = Head(channel[s])]
    /\ \/ /\ waiting[s] = <<>>
          /\ channel' = [channel EXCEPT ![s] = Tail(@)]
          /\ UNCHANGED <<pc, waiting>>
       \/ /\ waiting[s] # <<>>
          /\ LET r == Head(waiting[s]) IN
             /\ channel' = [channel EXCEPT ![s] = Append(Tail(@), call[r])]
             /\ pc' = [pc EXCEPT ![r] = After(s)]
          /\ waiting' = [waiting EXCEPT ![s] = Tail(@)]
    /\ UNCHANGED <<stage, gaveUp, calls, call, wants, closed, tried>>

\* Faulty variant: the goroutine ends with the first message that fails.
TryEndsOnFailure(s) ==
    /\ Up /\ worker[s] = "busy"
    /\ \E w \in {"ready", "done"} : worker' = [worker EXCEPT ![s] = w]
    /\ tried'  = [tried EXCEPT ![s] = @ \cup {busy[s]}]
    /\ busy'   = [busy EXCEPT ![s] = None]
    /\ UNCHANGED <<stage, gaveUp, requests, channel, waiting, closed>>

\* Faulty variant: a message that fails is tried again.
TryAgain(s) ==
    /\ Up /\ worker[s] = "busy"
    /\ tried' = [tried EXCEPT ![s] = @ \cup {busy[s]}]
    /\ \/ /\ worker' = [worker EXCEPT ![s] = "ready"]
          /\ busy'   = [busy EXCEPT ![s] = None]
       \/ UNCHANGED <<worker, busy>>
    /\ UNCHANGED <<stage, gaveUp, requests, channel, waiting, closed>>

\* The server accepts the message, or an error is logged.
Try(s) ==
    /\ Up /\ worker[s] = "busy"
    /\ worker' = [worker EXCEPT ![s] = "ready"]
    /\ tried'  = [tried EXCEPT ![s] = @ \cup {busy[s]}]
    /\ busy'   = [busy EXCEPT ![s] = None]
    /\ UNCHANGED <<stage, gaveUp, requests, channel, waiting, closed>>

\* Faulty variant: the goroutine ends when the channel is closed.
EndsWhenClosed(s) ==
    /\ Up /\ worker[s] = "ready" /\ s \in closed
    /\ worker' = [worker EXCEPT ![s] = "done"]
    /\ UNCHANGED <<stage, gaveUp, requests, channel, waiting, closed, busy, tried>>

\* The channel is closed and empty: the range loop is over.
Ends(s) ==
    /\ Up /\ worker[s] = "ready" /\ s \in closed /\ channel[s] = <<>>
    /\ worker' = [worker EXCEPT ![s] = "done"]
    /\ UNCHANGED <<stage, gaveUp, requests, channel, waiting, closed, busy, tried>>
-----------------------------------------------------------------------------
(* main: a signal, Shutdown for 5 seconds at most, the deferred Closes in  *)
(* reverse order, the end of the process.                                  *)

Signal ==
    /\ stage = "serving"
    /\ stage' = "draining"
    /\ UNCHANGED <<gaveUp, requests, relays>>

\* Faulty variant: nobody waits for Shutdown.
ShutdownNotAwaited ==
    /\ stage = "draining"
    /\ stage' = "stopping"
    /\ UNCHANGED <<gaveUp, requests, relays>>

\* Shutdown returns when no request is running, or after the timeout: with one
\* of these requests running, or one that has not come to its first Send.
ShutdownReturns ==
    /\ stage = "draining"
    /\ stage' = "stopping"
    /\ \/ gaveUp' = FALSE /\ \A r \in Requests : pc[r] = "idle"
       \/ gaveUp' = TRUE
    /\ UNCHANGED <<requests, relays>>

\* The requests blocked on s panic, and their Send recovers.
Close(s) ==
    /\ stage = IF s = "sms" THEN "stopping" ELSE "smsClosed"
    /\ stage' = IF s = "sms" THEN "smsClosed" ELSE "mailClosed"
    /\ closed' = closed \cup {s}
    /\ pc' = [r \in Requests |-> IF r \in ToSet(waiting[s]) THEN "error" ELSE pc[r]]
    /\ waiting' = [waiting EXCEPT ![s] = <<>>]
    /\ UNCHANGED <<gaveUp, calls, call, wants, channel, worker, busy, tried>>

\* main returns, or the process is killed before: requests, goroutines and
\* buffered messages are gone.
Exits ==
    /\ Up
    /\ stage'   = "exited"
    /\ pc'      = [r \in Requests |-> "idle"]
    /\ call'    = [r \in Requests |-> 0]
    /\ wants'   = [r \in Requests |-> {}]
    /\ channel' = [s \in Relays |-> <<>>]
    /\ waiting' = [s \in Relays |-> <<>>]
    /\ worker'  = [s \in Relays |-> "done"]
    /\ busy'    = [s \in Relays |-> None]
    /\ UNCHANGED <<gaveUp, calls, closed, tried>>
-----------------------------------------------------------------------------
Send(r, s) ==
    \/ SendNothing(r, s) \/ SendRefused(r, s) \/ SendBuffered(r, s) \/ SendBlocks(r, s)

Next ==
    \/ \E r \in Requests : Accept(r) \/ Reply(r)
    \/ \E r \in Requests, s \in Relays : Send(r, s)
    \/ \E s \in Relays : Receive(s) \/ Try(s) \/ Ends(s) \/ Close(s)
    \/ Signal \/ ShutdownReturns \/ Exits

\* Goroutines that can run do run, and a delivery ends one way or another.
\* Nothing makes clients call, signals arrive or the process end.
Fairness ==
    /\ \A r \in Requests : WF_vars(\E s \in Relays : Send(r, s))
    /\ \A s \in Relays : WF_vars(Receive(s) \/ Try(s))

Spec == Init /\ [][Next]_vars /\ Fairness
-----------------------------------------------------------------------------
(* Properties.                                                             *)

\* The messages Send accepted: tried, with the goroutine, or buffered.
Taken(s) == tried[s] \cup ToSet(channel[s]) \cup ({busy[s]} \ {None})

\* DeleteLogin answers 204 only when, for every address the user has, a relay
\* has taken its message: with requests blocked, let in and thrown out by Close,
\* no nil error stands for a message nobody has.
OkMeansTaken ==
    \A r \in Requests : pc[r] = "ok" => \A s \in wants[r] : call[r] \in Taken(s)

\* Send fails only after Shutdown gave up on running requests: no request that
\* was in time is turned away, whatever the order of the two Closes.
RefusedAfterTimeout == \A r \in Requests : pc[r] = "error" => gaveUp

\* A request that is blocked is let in or thrown out: the relays keep no request
\* waiting for ever.
SendReturns ==
    \A r \in Requests :
        pc[r] \in Relays \cup {"blocked"} ~> pc[r] \notin Relays \cup {"blocked"}

\* A message that was taken is tried, unless the process ends before.
TakenIsTried ==
    \A s \in Relays, n \in 1..MaxCalls :
        n \in Taken(s) ~> n \in tried[s] \/ ~Up

\* The relays keep the promise of Delivery: no message is lost, doubled or
\* overtaken in the channel, by a request that blocks or by the goroutine that
\* lets it in, and a request is answered with what has been taken of its own.
State(r) == CASE pc[r] = "idle" -> "idle" [] pc[r] = "error" -> "refused" [] OTHER -> "asking"
Ahead(r) == CASE pc[r] = "mail" \/ r \in ToSet(waiting["mail"]) -> Relays
              [] pc[r] = "sms"  \/ r \in ToSet(waiting["sms"])  -> {"sms"}
              [] OTHER -> {}
Left(r)  == wants[r] \cap Ahead(r)
Queue(s) == IF busy[s] = None THEN channel[s] ELSE <<busy[s]>> \o channel[s]
Promise  == INSTANCE Delivery WITH
                asked   <- calls,
                state   <- [r \in Requests |-> State(r)],
                message <- call,
                left    <- [r \in Requests |-> Left(r)],
                queue   <- [s \in Relays |-> Queue(s)],
                late    <- gaveUp
KeepsPromise == Promise!Spec
=============================================================================
