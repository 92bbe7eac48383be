----------------------------- MODULE SenderProofs -----------------------------
(***************************************************************************)
(* For every number of requests and calls and every capacity: TypeOK,      *)
(* OkMeansTaken and RefusedAfterTimeout are invariants of Sender, and      *)
(* Sender implements Delivery.                                             *)
(*                                                                         *)
(* OkMeansTaken needs that a request waits at most once, for a relay it    *)
(* wants, so that the goroutine that lets it in lets in its message, and   *)
(* that nobody comes to the SMS without the mail.  RefusedAfterTimeout     *)
(* needs that after Shutdown requests are there only if it gave up.        *)
(*                                                                         *)
(* In Delivery a message is taken when it comes into the channel, by a     *)
(* send that finds room or by the receive that lets a blocked request in;  *)
(* the message the goroutine works on is still the first of the abstract   *)
(* queue.                                                                  *)
(***************************************************************************)
EXTENDS Sender, SequenceTheorems, TLAPS

Calls == 1..MaxCalls

\* Each request waits once.
Once(s) == \A i, j \in 1..Len(waiting[s]) : waiting[s][i] = waiting[s][j] => i = j

WaitInv ==
    /\ \A s \in Relays : Once(s)
    /\ \A s \in Relays : \A r \in ToSet(waiting[s]) : pc[r] = "blocked" /\ s \in wants[r]
    /\ ToSet(waiting["mail"]) \cap ToSet(waiting["sms"]) = {}

CallInv == \A r \in Requests : pc[r] # "idle" => call[r] \in Calls

WorkerInv == \A s \in Relays : /\ worker[s] = "ready" => busy[s] = None
                               /\ worker[s] = "busy" => busy[s] # None

\* A relay that r has behind it has taken the message, if there was one.
Past(r, s) ==
    IF s = "mail" THEN pc[r] \in {"sms", "ok"} \/ r \in ToSet(waiting["sms"])
                  ELSE pc[r] = "ok"
TakenInv == \A r \in Requests, s \in Relays :
                Past(r, s) /\ s \in wants[r] => call[r] \in Taken(s)

StageInv ==
    /\ closed # {} => stage \notin {"serving", "draining", "stopping"}
    /\ gaveUp => stage \notin {"serving", "draining"}
    /\ \A r \in Requests :
          /\ pc[r] # "idle" /\ stage \notin {"serving", "draining"} => gaveUp
          /\ pc[r] # "idle" => stage # "exited"
          /\ pc[r] = "error" => gaveUp

IInv == TypeOK /\ WaitInv /\ CallInv /\ WorkerInv /\ TakenInv /\ StageInv
-----------------------------------------------------------------------------
(* Sequences and their elements.                                           *)

LEMMA Elements ==
    ASSUME NEW S, NEW q \in Seq(S)
    PROVE  \A e : e \in ToSet(q) <=> \E i \in 1..Len(q) : q[i] = e
<1>1. DOMAIN q = 1..Len(q)
  OBVIOUS
<1>2. QED
  BY <1>1 DEF ToSet

LEMMA ToSetEmpty == ToSet(<<>>) = {}
  BY DEF ToSet

LEMMA ToSetAppend ==
    ASSUME NEW S, NEW q \in Seq(S), NEW e \in S
    PROVE  /\ ToSet(Append(q, e)) = ToSet(q) \cup {e}
           /\ Append(q, e) \in Seq(S) /\ Len(Append(q, e)) = Len(q) + 1
<1> DEFINE p == Append(q, e)
<1>1. /\ Len(q) \in Nat /\ p \in Seq(S) /\ Len(p) = Len(q) + 1 /\ p[Len(q) + 1] = e
      /\ \A i \in 1..Len(q) : p[i] = q[i]
  OBVIOUS
<1> HIDE DEF p
<1>2. \A d : d \in ToSet(p) <=> \E i \in 1..Len(p) : p[i] = d
  BY <1>1, Elements
<1>3. \A d : d \in ToSet(q) <=> \E i \in 1..Len(q) : q[i] = d
  BY Elements
<1>4. Len(q) + 1 \in 1..Len(p) /\ \A i \in 1..Len(p) : i = Len(q) + 1 \/ i \in 1..Len(q)
  BY <1>1
<1>5. ASSUME NEW i \in 1..Len(q) PROVE i \in 1..Len(p)
  BY <1>1, <1>5
<1>6. \A d : d \in ToSet(p) <=> d \in ToSet(q) \/ d = e
  BY <1>1, <1>2, <1>3, <1>4, <1>5
<1>7. QED
  BY <1>1, <1>6 DEF p

\* What the tail of a sequence is.
LEMMA TailOf ==
    ASSUME NEW S, NEW q \in Seq(S), q # <<>>
    PROVE  /\ Len(q) \in Nat \ {0} /\ Head(q) = q[1] /\ Head(q) \in S
           /\ Tail(q) \in Seq(S) /\ Len(Tail(q)) = Len(q) - 1
           /\ \A i \in 1..Len(Tail(q)) : Tail(q)[i] = q[i + 1]
  OBVIOUS

LEMMA ToSetHead ==
    ASSUME NEW S, NEW q \in Seq(S), q # <<>>
    PROVE  ToSet(q) = {Head(q)} \cup ToSet(Tail(q))
<1> DEFINE p == Tail(q)
<1>1. /\ Len(q) \in Nat \ {0} /\ Head(q) = q[1]
      /\ p \in Seq(S) /\ Len(p) = Len(q) - 1
      /\ \A i \in 1..Len(p) : p[i] = q[i + 1]
  BY TailOf
<1> HIDE DEF p
<1>2. \A d : d \in ToSet(p) <=> \E i \in 1..Len(p) : p[i] = d
  BY <1>1, Elements
<1>3. \A d : d \in ToSet(q) <=> \E i \in 1..Len(q) : q[i] = d
  BY Elements
<1>4. 1 \in 1..Len(q) /\ \A i \in 1..Len(p) : i + 1 \in 1..Len(q)
  BY <1>1
<1>5. ASSUME NEW i \in 1..Len(q), i # 1
      PROVE  i - 1 \in 1..Len(p) /\ p[i - 1] = q[i]
  <2>1. i - 1 \in 1..Len(p) /\ (i - 1) + 1 = i
    BY <1>1, <1>5
  <2>2. QED
    BY <1>1, <2>1
<1>6. \A d : d \in ToSet(q) <=> d = Head(q) \/ d \in ToSet(p)
  BY <1>1, <1>2, <1>3, <1>4, <1>5
<1>7. QED
  BY <1>6 DEF p

\* The first of those who wait does not wait behind.
LEMMA HeadOnce ==
    ASSUME NEW S, NEW q \in Seq(S), q # <<>>,
           \A i, j \in 1..Len(q) : q[i] = q[j] => i = j
    PROVE  /\ Head(q) \notin ToSet(Tail(q))
           /\ \A i, j \in 1..Len(Tail(q)) : Tail(q)[i] = Tail(q)[j] => i = j
<1> DEFINE p == Tail(q)
<1>1. /\ Len(q) \in Nat \ {0} /\ Head(q) = q[1]
      /\ p \in Seq(S) /\ Len(p) = Len(q) - 1
      /\ \A i \in 1..Len(p) : p[i] = q[i + 1]
  BY TailOf
<1> HIDE DEF p
<1>2. \A d : d \in ToSet(p) <=> \E i \in 1..Len(p) : p[i] = d
  BY <1>1, Elements
<1>3. 1 \in 1..Len(q) /\ \A i \in 1..Len(p) : i + 1 \in 1..Len(q) /\ i + 1 # 1
  BY <1>1
<1>4. Head(q) \notin ToSet(p)
  BY <1>1, <1>2, <1>3
<1>5. ASSUME NEW i \in 1..Len(p), NEW j \in 1..Len(p), p[i] = p[j]
      PROVE  i = j
  <2>1. i + 1 = j + 1
    BY <1>1, <1>3, <1>5
  <2>2. QED
    BY <2>1
<1>6. QED
  BY <1>4, <1>5 DEF p
-----------------------------------------------------------------------------
(* Steps of requests.                                                      *)

\* Only requests wait.
LEMMA Waiters ==
    ASSUME IInv
    PROVE  \A s \in Relays : /\ ToSet(waiting[s]) \subseteq Requests
                             /\ waiting[s] \in Seq(Requests)
<1>1. \A s \in Relays : waiting[s] \in Seq(Requests)
  BY DEF IInv, TypeOK
<1>2. QED
  BY <1>1, Elements

\* A request that does not wait is in no queue.
LEMMA NotWaiting ==
    ASSUME IInv, NEW r \in Requests, pc[r] # "blocked"
    PROVE  \A s \in Relays : r \notin ToSet(waiting[s])
  BY DEF IInv, WaitInv

\* A step of a request that is in no queue, and that puts none into one.
LEMMA QueuesKept ==
    ASSUME IInv, NEW r \in Requests, pc[r] # "blocked", UNCHANGED waiting,
           \A q \in Requests \ {r} : pc'[q] = pc[q] /\ wants'[q] = wants[q]
    PROVE  WaitInv'
<1>1. \A s \in Relays : \A q \in ToSet(waiting[s]) : q \in Requests \ {r}
  BY Waiters, NotWaiting
<1>2. QED
  BY <1>1 DEF IInv, WaitInv, Once

LEMMA AcceptStep ==
    ASSUME IInv, NEW r \in Requests, Accept(r)
    PROVE  IInv'
<1>1. PICK ss \in Addresses : wants' = [wants EXCEPT ![r] = ss]
  BY DEF Accept
<1>2. /\ pc[r] = "idle" /\ calls < MaxCalls /\ stage # "exited"
      /\ stage \in {"serving", "draining"} \/ gaveUp
      /\ calls' = calls + 1 /\ call' = [call EXCEPT ![r] = calls + 1]
      /\ pc' = [pc EXCEPT ![r] = "mail"]
      /\ UNCHANGED <<stage, gaveUp, relays>>
  BY DEF Accept, Up
<1>3. calls + 1 \in Calls /\ calls + 1 \in 0..MaxCalls /\ ss \in SUBSET Relays
  BY <1>2, MaxCallsNat, SomeAddress DEF IInv, TypeOK, Calls
<1>4. TypeOK'
  BY <1>1, <1>2, <1>3 DEF IInv, TypeOK, relays, Relays
<1>5. WaitInv'
  BY <1>1, <1>2, QueuesKept DEF IInv, TypeOK, relays
<1>6. CallInv' /\ WorkerInv' /\ StageInv'
  BY <1>2, <1>3 DEF IInv, TypeOK, CallInv, WorkerInv, StageInv, relays
<1>7. TakenInv'
  <2>1. \A q \in Requests, s \in Relays : Past(q, s)' => q # r /\ Past(q, s)
    BY <1>2, NotWaiting DEF IInv, TypeOK, Past, relays, Relays
  <2>2. \A s \in Relays : Taken(s)' = Taken(s)
    BY <1>2 DEF Taken, relays
  <2>3. QED
    BY <1>1, <1>2, <2>1, <2>2 DEF IInv, TypeOK, TakenInv
<1>8. QED
  BY <1>4, <1>5, <1>6, <1>7 DEF IInv

\* Where a request goes after relay s.
LEMMA AfterType ==
    ASSUME NEW s \in Relays
    PROVE  After(s) \in {"sms", "ok"} /\ (s = "mail" <=> After(s) = "sms")
  BY DEF After, Relays

LEMMA SendNothingStep ==
    ASSUME IInv, NEW r \in Requests, NEW s \in Relays, SendNothing(r, s)
    PROVE  IInv'
<1>1. /\ pc[r] = s /\ s \notin wants[r] /\ pc' = [pc EXCEPT ![r] = After(s)]
      /\ UNCHANGED <<stage, gaveUp, calls, call, wants, relays>>
      /\ pc[r] \notin {"blocked", "idle"}
  BY DEF SendNothing, Relays
<1>2. TypeOK'
  BY <1>1, AfterType DEF IInv, TypeOK, relays, Relays
<1>3. WaitInv'
  BY <1>1, QueuesKept DEF IInv, TypeOK, relays
<1>4. CallInv' /\ WorkerInv' /\ StageInv'
  BY <1>1, AfterType DEF IInv, TypeOK, CallInv, WorkerInv, StageInv, relays
<1>5. TakenInv'
  <2>1. \A q \in Requests, t \in Relays : Past(q, t)' => Past(q, t) \/ (q = r /\ t = s)
    BY <1>1, AfterType DEF IInv, TypeOK, Past, relays, Relays
  <2>2. \A t \in Relays : Taken(t)' = Taken(t)
    BY <1>1 DEF Taken, relays
  <2>3. QED
    BY <1>1, <2>1, <2>2 DEF IInv, TakenInv
<1>6. QED
  BY <1>2, <1>3, <1>4, <1>5 DEF IInv

LEMMA SendRefusedStep ==
    ASSUME IInv, NEW r \in Requests, NEW s \in Relays, SendRefused(r, s)
    PROVE  IInv'
<1>1. /\ pc[r] = s /\ s \in closed /\ pc' = [pc EXCEPT ![r] = "error"]
      /\ UNCHANGED <<stage, gaveUp, calls, call, wants, relays>>
      /\ pc[r] \notin {"blocked", "idle"}
  BY DEF SendRefused, Relays
<1>2. gaveUp
  BY <1>1 DEF IInv, StageInv, TypeOK, Stages
<1>3. TypeOK'
  BY <1>1 DEF IInv, TypeOK, relays, Relays
<1>4. WaitInv'
  BY <1>1, QueuesKept DEF IInv, TypeOK, relays
<1>5. CallInv' /\ WorkerInv' /\ StageInv'
  BY <1>1, <1>2 DEF IInv, TypeOK, CallInv, WorkerInv, StageInv, relays
<1>6. TakenInv'
  <2>1. \A q \in Requests, t \in Relays : Past(q, t)' => Past(q, t)
    BY <1>1 DEF IInv, TypeOK, Past, relays, Relays
  <2>2. \A t \in Relays : Taken(t)' = Taken(t)
    BY <1>1 DEF Taken, relays
  <2>3. QED
    BY <1>1, <2>1, <2>2 DEF IInv, TakenInv
<1>7. QED
  BY <1>3, <1>4, <1>5, <1>6 DEF IInv

\* A channel gets new contents.
LEMMA ChannelWritten ==
    ASSUME IInv, NEW s \in Relays, NEW c \in Seq(Calls), Len(c) <= Capacity,
           channel' = [channel EXCEPT ![s] = c]
    PROVE  /\ channel' \in [Relays -> Seq(1..MaxCalls)]
           /\ \A t \in Relays : Len(channel'[t]) <= Capacity
           /\ \A t \in Relays : channel'[t] = IF t = s THEN c ELSE channel[t]
<1>1. channel \in [Relays -> Seq(Calls)] /\ \A t \in Relays : Len(channel[t]) <= Capacity
  BY DEF IInv, TypeOK, Calls
<1>2. /\ channel' \in [Relays -> Seq(Calls)]
      /\ \A t \in Relays : channel'[t] = IF t = s THEN c ELSE channel[t]
  BY <1>1
<1>3. QED
  BY <1>1, <1>2 DEF Calls

LEMMA SendBufferedStep ==
    ASSUME IInv, NEW r \in Requests, NEW s \in Relays, SendBuffered(r, s)
    PROVE  IInv'
<1>1. /\ pc[r] = s /\ Len(channel[s]) < Capacity
      /\ channel' = [channel EXCEPT ![s] = Append(channel[s], call[r])]
      /\ pc' = [pc EXCEPT ![r] = After(s)]
      /\ UNCHANGED <<stage, gaveUp, calls, call, wants, waiting, closed, worker, busy, tried>>
      /\ pc[r] \notin {"blocked", "idle"}
  BY DEF SendBuffered, Relays
<1>2. call[r] \in Calls /\ channel[s] \in Seq(Calls)
  BY <1>1 DEF IInv, CallInv, TypeOK, Calls
<1> DEFINE c == Append(channel[s], call[r])
<1>3. c \in Seq(Calls) /\ Len(c) = Len(channel[s]) + 1
      /\ ToSet(c) = ToSet(channel[s]) \cup {call[r]}
  BY <1>2, ToSetAppend
<1>4. channel' = [channel EXCEPT ![s] = c]
  BY <1>1
<1> HIDE DEF c
<1>5. Len(c) <= Capacity
  BY <1>1, <1>2, <1>3, CapacityPositive
<1>6. /\ channel' \in [Relays -> Seq(1..MaxCalls)]
      /\ \A t \in Relays : Len(channel'[t]) <= Capacity
      /\ \A t \in Relays : channel'[t] = IF t = s THEN c ELSE channel[t]
  BY <1>3, <1>4, <1>5, ChannelWritten
<1>7. TypeOK'
  BY <1>1, <1>6, AfterType DEF IInv, TypeOK, Relays
<1>8. WaitInv'
  BY <1>1, QueuesKept DEF IInv, TypeOK
<1>9. CallInv' /\ WorkerInv' /\ StageInv'
  BY <1>1, AfterType DEF IInv, TypeOK, CallInv, WorkerInv, StageInv
<1>10. TakenInv'
  <2>1. \A q \in Requests, t \in Relays : Past(q, t)' => Past(q, t) \/ (q = r /\ t = s)
    BY <1>1, AfterType DEF IInv, TypeOK, Past, Relays
  <2>2. \A t \in Relays : Taken(t) \subseteq Taken(t)'
    BY <1>1, <1>3, <1>6 DEF Taken
  <2>3. call[r] \in Taken(s)'
    BY <1>3, <1>6 DEF Taken
  <2>4. QED
    BY <1>1, <2>1, <2>2, <2>3 DEF IInv, TakenInv
<1>11. QED
  BY <1>7, <1>8, <1>9, <1>10 DEF IInv

LEMMA SendBlocksStep ==
    ASSUME IInv, NEW r \in Requests, NEW s \in Relays, SendBlocks(r, s)
    PROVE  IInv'
<1> DEFINE w == Append(waiting[s], r)
<1>1. /\ pc[r] = s /\ s \in wants[r]
      /\ waiting' = [waiting EXCEPT ![s] = w]
      /\ pc' = [pc EXCEPT ![r] = "blocked"]
      /\ UNCHANGED <<stage, gaveUp, calls, call, wants, channel, closed, worker, busy, tried>>
      /\ pc[r] \notin {"blocked", "idle"}
  BY DEF SendBlocks, Relays
<1>2. waiting \in [Relays -> Seq(Requests)] /\ \A t \in Relays : r \notin ToSet(waiting[t])
  BY <1>1, NotWaiting DEF IInv, TypeOK
<1>3. w \in Seq(Requests) /\ ToSet(w) = ToSet(waiting[s]) \cup {r}
      /\ Len(w) = Len(waiting[s]) + 1
  BY <1>2, ToSetAppend
<1>4. \A i, j \in 1..Len(w) : w[i] = w[j] => i = j
  <2>1. /\ Len(waiting[s]) \in Nat /\ w[Len(waiting[s]) + 1] = r
        /\ \A i \in 1..Len(waiting[s]) : w[i] = waiting[s][i] /\ w[i] # r
    BY <1>2, Elements
  <2>2. \A i, j \in 1..Len(waiting[s]) : waiting[s][i] = waiting[s][j] => i = j
    BY DEF IInv, WaitInv, Once
  <2> HIDE DEF w
  <2>3. \A i \in 1..Len(w) : i = Len(waiting[s]) + 1 \/ i \in 1..Len(waiting[s])
    BY <1>3, <2>1
  <2>4. QED
    BY <2>1, <2>2, <2>3
<1> HIDE DEF w
<1>5. /\ waiting' \in [Relays -> Seq(Requests)]
      /\ \A t \in Relays : waiting'[t] = IF t = s THEN w ELSE waiting[t]
  BY <1>1, <1>2, <1>3
<1>6. TypeOK'
  BY <1>1, <1>5 DEF IInv, TypeOK
<1>7. /\ pc'[r] = "blocked" /\ wants' = wants
      /\ \A q \in Requests \ {r} : pc'[q] = pc[q]
      /\ \A t \in Relays : \A q \in ToSet(waiting[t]) : q \in Requests \ {r}
  <2>1. pc \in [Requests -> Relays \cup {"idle", "blocked", "ok", "error"}]
    BY DEF IInv, TypeOK
  <2>2. pc'[r] = "blocked" /\ \A q \in Requests \ {r} : pc'[q] = pc[q]
    BY <1>1, <2>1
  <2>3. QED
    BY <1>1, <1>2, <2>2, Waiters
<1>8. WaitInv'
  BY <1>1, <1>2, <1>3, <1>4, <1>5, <1>7 DEF IInv, WaitInv, Once, Relays
<1>9. CallInv' /\ WorkerInv' /\ StageInv'
  BY <1>1, <1>7 DEF IInv, CallInv, WorkerInv, StageInv
<1>10. TakenInv'
  <2>1. \A q \in Requests, t \in Relays : Past(q, t)' => Past(q, t)
    BY <1>1, <1>3, <1>5, <1>7 DEF Past, Relays
  <2>2. \A t \in Relays : Taken(t)' = Taken(t)
    BY <1>1 DEF Taken
  <2>3. QED
    BY <1>1, <2>1, <2>2 DEF IInv, TakenInv
<1>11. QED
  BY <1>6, <1>8, <1>9, <1>10 DEF IInv

LEMMA ReplyStep ==
    ASSUME IInv, NEW r \in Requests, Reply(r)
    PROVE  IInv'
<1>1. /\ pc[r] \in {"ok", "error"} /\ pc' = [pc EXCEPT ![r] = "idle"]
      /\ call' = [call EXCEPT ![r] = 0] /\ wants' = [wants EXCEPT ![r] = {}]
      /\ UNCHANGED <<stage, gaveUp, calls, relays>>
  BY DEF Reply
<1>2. TypeOK'
  BY <1>1, MaxCallsNat DEF IInv, TypeOK, relays
<1>3. WaitInv'
  BY <1>1, QueuesKept DEF IInv, TypeOK, relays
<1>4. CallInv' /\ WorkerInv' /\ StageInv'
  BY <1>1 DEF IInv, TypeOK, CallInv, WorkerInv, StageInv, relays
<1>5. TakenInv'
  <2>1. \A q \in Requests, t \in Relays : Past(q, t)' => q # r /\ Past(q, t)
    BY <1>1, NotWaiting DEF IInv, TypeOK, Past, relays, Relays
  <2>2. \A t \in Relays : Taken(t)' = Taken(t)
    BY <1>1 DEF Taken, relays
  <2>3. QED
    BY <1>1, <2>1, <2>2 DEF IInv, TypeOK, TakenInv
<1>6. QED
  BY <1>2, <1>3, <1>4, <1>5 DEF IInv
-----------------------------------------------------------------------------
(* Steps of the goroutines.                                                *)

\* A receive takes the first message, and lets the first who waits put its own
\* behind the rest.
LEMMA ReceiveStep ==
    ASSUME IInv, NEW s \in Relays, Receive(s)
    PROVE  IInv'
<1> DEFINE q == channel[s]
           w == waiting[s]
<1>1. /\ worker[s] = "ready" /\ q # <<>> /\ busy[s] = None
      /\ worker' = [worker EXCEPT ![s] = "busy"]
      /\ busy' = [busy EXCEPT ![s] = Head(q)]
      /\ UNCHANGED <<stage, gaveUp, calls, call, wants, closed, tried>>
  BY DEF Receive, IInv, WorkerInv
<1>2. q \in Seq(Calls) /\ Len(q) <= Capacity /\ w \in Seq(Requests)
  BY DEF IInv, TypeOK, Calls
<1>3. /\ Head(q) \in Calls /\ Tail(q) \in Seq(Calls) /\ Len(q) \in Nat \ {0}
      /\ Len(Tail(q)) = Len(q) - 1 /\ ToSet(q) = {Head(q)} \cup ToSet(Tail(q))
  BY <1>1, <1>2, TailOf, ToSetHead
<1>4. Head(q) # None /\ Head(q) \in Nat
  BY <1>3, MaxCallsNat, NoneElse DEF Calls
<1>5. /\ worker' \in [Relays -> {"ready", "busy", "done"}]
      /\ busy' \in [Relays -> 1..MaxCalls \cup {None}]
      /\ \A t \in Relays : worker'[t] = IF t = s THEN "busy" ELSE worker[t]
      /\ \A t \in Relays : busy'[t] = IF t = s THEN Head(q) ELSE busy[t]
  BY <1>1, <1>3 DEF IInv, TypeOK, Calls
<1>6. WorkerInv'
  BY <1>4, <1>5 DEF IInv, WorkerInv
<1>7. CASE w = <<>>
  <2>1. channel' = [channel EXCEPT ![s] = Tail(q)] /\ UNCHANGED <<pc, waiting>>
    BY <1>7 DEF Receive
  <2>2. Len(Tail(q)) <= Capacity
    BY <1>2, <1>3, CapacityPositive
  <2>3. /\ channel' \in [Relays -> Seq(1..MaxCalls)]
        /\ \A t \in Relays : Len(channel'[t]) <= Capacity
        /\ \A t \in Relays : channel'[t] = IF t = s THEN Tail(q) ELSE channel[t]
    BY <1>3, <2>1, <2>2, ChannelWritten
  <2>4. TypeOK'
    BY <1>1, <1>5, <2>1, <2>3 DEF IInv, TypeOK
  <2>5. WaitInv' /\ CallInv' /\ StageInv'
    BY <1>1, <2>1 DEF IInv, WaitInv, Once, CallInv, StageInv
  <2>6. TakenInv'
    <3>1. \A t \in Relays : Taken(t) \subseteq Taken(t)'
      BY <1>1, <1>3, <1>4, <1>5, <2>3 DEF Taken
    <3>2. \A r \in Requests, t \in Relays : Past(r, t)' => Past(r, t)
      BY <2>1 DEF Past
    <3>3. QED
      BY <1>1, <3>1, <3>2 DEF IInv, TakenInv
  <2>7. QED
    BY <1>6, <2>4, <2>5, <2>6 DEF IInv
<1>8. CASE w # <<>>
  <2> DEFINE r == Head(w)
             c == Append(Tail(q), call[r])
  <2>1. /\ channel' = [channel EXCEPT ![s] = c]
        /\ pc' = [pc EXCEPT ![r] = After(s)]
        /\ waiting' = [waiting EXCEPT ![s] = Tail(w)]
    BY <1>8 DEF Receive
  <2>2. /\ r \in Requests /\ Tail(w) \in Seq(Requests)
        /\ ToSet(w) = {r} \cup ToSet(Tail(w))
    BY <1>2, <1>8, TailOf, ToSetHead
  <2>3. /\ r \notin ToSet(Tail(w))
        /\ \A i, j \in 1..Len(Tail(w)) : Tail(w)[i] = Tail(w)[j] => i = j
    <3>1. \A i, j \in 1..Len(w) : w[i] = w[j] => i = j
      BY DEF IInv, WaitInv, Once
    <3>2. QED
      BY <1>2, <1>8, <3>1, HeadOnce
  <2>4. pc[r] = "blocked" /\ s \in wants[r] /\ call[r] \in Calls
    BY <2>2 DEF IInv, WaitInv, CallInv
  <2>5. /\ c \in Seq(Calls) /\ Len(c) = Len(q) /\ ToSet(c) = ToSet(Tail(q)) \cup {call[r]}
    <3> DEFINE u == Tail(q)
               e == call[r]
    <3>1. u \in Seq(Calls) /\ e \in Calls
      BY <1>3, <2>4
    <3> HIDE DEF u, e
    <3>2. /\ ToSet(Append(u, e)) = ToSet(u) \cup {e}
          /\ Append(u, e) \in Seq(Calls) /\ Len(Append(u, e)) = Len(u) + 1
      BY <3>1, ToSetAppend
    <3>3. Len(u) + 1 = Len(q)
      BY <1>3 DEF u
    <3>4. c = Append(u, e)
      BY DEF u, e
    <3>5. QED
      BY <3>2, <3>3, <3>4 DEF u, e
  <2> HIDE DEF c, r
  <2>6. /\ channel' \in [Relays -> Seq(1..MaxCalls)]
        /\ \A t \in Relays : Len(channel'[t]) <= Capacity
        /\ \A t \in Relays : channel'[t] = IF t = s THEN c ELSE channel[t]
    BY <1>2, <2>1, <2>5, ChannelWritten
  <2>7. /\ waiting' \in [Relays -> Seq(Requests)]
        /\ \A t \in Relays : waiting'[t] = IF t = s THEN Tail(w) ELSE waiting[t]
    BY <2>1, <2>2 DEF IInv, TypeOK
  <2>8. /\ pc' \in [Requests -> Relays \cup {"idle", "blocked", "ok", "error"}]
        /\ pc'[r] = After(s) /\ \A p \in Requests \ {r} : pc'[p] = pc[p]
    <3>1. pc \in [Requests -> Relays \cup {"idle", "blocked", "ok", "error"}]
      BY DEF IInv, TypeOK
    <3>2. After(s) \in Relays \cup {"idle", "blocked", "ok", "error"}
      BY AfterType DEF Relays
    <3>3. QED
      BY <2>1, <2>2, <3>1, <3>2
  <2>9. TypeOK'
    BY <1>1, <1>5, <2>6, <2>7, <2>8 DEF IInv, TypeOK
  <2>10. /\ \A t \in Relays : ToSet(waiting'[t]) \subseteq ToSet(waiting[t])
         /\ \A t \in Relays : r \notin ToSet(waiting'[t])
    BY <2>2, <2>3, <2>7 DEF IInv, WaitInv, Relays
  <2>11. WaitInv'
    <3>1. \A t \in Relays : Once(t)'
      BY <2>3, <2>7 DEF IInv, WaitInv, Once
    <3>2. \A t \in Relays : \A p \in ToSet(waiting'[t]) : pc'[p] = "blocked" /\ t \in wants'[p]
      BY <1>1, <2>8, <2>10, Waiters DEF IInv, WaitInv
    <3>3. ToSet(waiting'["mail"]) \cap ToSet(waiting'["sms"]) = {}
      BY <2>10 DEF IInv, WaitInv, Relays
    <3>4. QED
      BY <3>1, <3>2, <3>3 DEF WaitInv
  <2>12. CallInv' /\ StageInv'
    BY <1>1, <2>4, <2>8, AfterType DEF IInv, CallInv, StageInv
  <2>13. TakenInv'
    <3>1. \A t \in Relays : Taken(t) \subseteq Taken(t)'
      BY <1>1, <1>3, <1>4, <1>5, <2>5, <2>6 DEF Taken
    <3>2. call[r] \in Taken(s)'
      BY <2>5, <2>6 DEF Taken
    <3>3. \A p \in Requests, t \in Relays : Past(p, t)' => Past(p, t) \/ (p = r /\ t = s)
      BY <2>2, <2>8, <2>10, AfterType DEF Past, Relays
    <3>4. QED
      BY <1>1, <3>1, <3>2, <3>3 DEF IInv, TakenInv
  <2>14. QED
    BY <1>6, <2>9, <2>11, <2>12, <2>13 DEF IInv
<1>9. QED
  BY <1>7, <1>8

LEMMA TryStep ==
    ASSUME IInv, NEW s \in Relays, Try(s)
    PROVE  IInv'
<1>1. /\ worker[s] = "busy" /\ worker' = [worker EXCEPT ![s] = "ready"]
      /\ tried' = [tried EXCEPT ![s] = @ \cup {busy[s]}]
      /\ busy' = [busy EXCEPT ![s] = None]
      /\ UNCHANGED <<stage, gaveUp, requests, channel, waiting, closed>>
  BY DEF Try
<1>2. busy[s] \in 1..MaxCalls
  BY <1>1 DEF IInv, TypeOK, WorkerInv
<1>3. TypeOK'
  BY <1>1, <1>2 DEF IInv, TypeOK, requests
<1>4. WaitInv' /\ CallInv' /\ StageInv'
  BY <1>1 DEF IInv, WaitInv, Once, CallInv, StageInv, requests
<1>5. WorkerInv'
  BY <1>1 DEF IInv, TypeOK, WorkerInv
<1>6. TakenInv'
  <2>1. \A t \in Relays : Taken(t) \subseteq Taken(t)'
    BY <1>1 DEF Taken, IInv, TypeOK
  <2>2. \A r \in Requests, t \in Relays : Past(r, t)' <=> Past(r, t)
    BY <1>1 DEF Past, requests
  <2>3. QED
    BY <1>1, <2>1, <2>2 DEF IInv, TakenInv, requests
<1>7. QED
  BY <1>3, <1>4, <1>5, <1>6 DEF IInv

LEMMA EndsStep ==
    ASSUME IInv, NEW s \in Relays, Ends(s)
    PROVE  IInv'
<1>1. /\ worker' = [worker EXCEPT ![s] = "done"]
      /\ UNCHANGED <<stage, gaveUp, requests, channel, waiting, closed, busy, tried>>
  BY DEF Ends
<1>2. TypeOK'
  BY <1>1 DEF IInv, TypeOK, requests
<1>3. WaitInv' /\ CallInv' /\ StageInv' /\ TakenInv'
  BY <1>1 DEF IInv, WaitInv, Once, CallInv, StageInv, TakenInv, Past, Taken, requests
<1>4. WorkerInv'
  BY <1>1 DEF IInv, TypeOK, WorkerInv
<1>5. QED
  BY <1>2, <1>3, <1>4 DEF IInv
-----------------------------------------------------------------------------
(* Steps of main.                                                          *)

LEMMA MainStep ==
    ASSUME IInv, Signal \/ ShutdownReturns
    PROVE  IInv'
<1>1. UNCHANGED <<requests, relays>> /\ stage' \in {"draining", "stopping"}
      /\ stage \in {"serving", "draining"}
  BY DEF Signal, ShutdownReturns
<1>2. TypeOK'
  BY <1>1 DEF IInv, TypeOK, requests, relays, Signal, ShutdownReturns, Stages
<1>3. WaitInv' /\ CallInv' /\ WorkerInv' /\ TakenInv'
  BY <1>1 DEF IInv, WaitInv, Once, CallInv, WorkerInv, TakenInv, Past, Taken, requests, relays
<1>4. StageInv'
  BY DEF IInv, TypeOK, StageInv, Signal, ShutdownReturns, requests, relays
<1>5. QED
  BY <1>2, <1>3, <1>4 DEF IInv

LEMMA CloseStep ==
    ASSUME IInv, NEW s \in Relays, Close(s)
    PROVE  IInv'
<1>1. /\ stage \in {"stopping", "smsClosed"} /\ stage' \in {"smsClosed", "mailClosed"}
      /\ closed' = closed \cup {s}
      /\ pc' = [r \in Requests |-> IF r \in ToSet(waiting[s]) THEN "error" ELSE pc[r]]
      /\ waiting' = [waiting EXCEPT ![s] = <<>>]
      /\ UNCHANGED <<gaveUp, calls, call, wants, channel, worker, busy, tried>>
  BY DEF Close
<1>2. /\ waiting' \in [Relays -> Seq(Requests)]
      /\ \A t \in Relays : waiting'[t] = IF t = s THEN <<>> ELSE waiting[t]
  BY <1>1 DEF IInv, TypeOK
<1>3. TypeOK'
  BY <1>1, <1>2 DEF IInv, TypeOK, Stages
<1>4. \A t \in Relays : \A r \in ToSet(waiting'[t]) : r \in ToSet(waiting[t]) /\ r \notin ToSet(waiting[s])
  BY <1>2, ToSetEmpty DEF IInv, WaitInv, Relays
<1>5. WaitInv'
  <2>1. \A t \in Relays : Once(t)'
    BY <1>2 DEF IInv, WaitInv, Once
  <2>2. \A t \in Relays : \A r \in ToSet(waiting'[t]) : pc'[r] = "blocked" /\ t \in wants'[r]
    BY <1>1, <1>4, Waiters DEF IInv, WaitInv
  <2>3. ToSet(waiting'["mail"]) \cap ToSet(waiting'["sms"]) = {}
    BY <1>4 DEF IInv, WaitInv, Relays
  <2>4. QED
    BY <2>1, <2>2, <2>3 DEF WaitInv
<1>6. WorkerInv'
  BY <1>1 DEF IInv, WorkerInv
<1>7. CallInv' /\ StageInv'
  <2>1. \A r \in Requests : /\ pc'[r] # "idle" => pc[r] # "idle"
                            /\ pc'[r] = "error" => pc[r] = "error" \/ pc[r] = "blocked"
    BY <1>1 DEF IInv, WaitInv
  <2>2. QED
    BY <1>1, <2>1 DEF IInv, CallInv, StageInv
<1>8. TakenInv'
  <2>1. \A t \in Relays : Taken(t)' = Taken(t)
    BY <1>1 DEF Taken
  <2>2. \A r \in Requests, t \in Relays : Past(r, t)' => Past(r, t)
    BY <1>1, <1>4 DEF Past, Relays
  <2>3. QED
    BY <1>1, <2>1, <2>2 DEF IInv, TakenInv
<1>9. QED
  BY <1>3, <1>5, <1>6, <1>7, <1>8 DEF IInv

LEMMA ExitsStep ==
    ASSUME IInv, Exits
    PROVE  IInv'
<1>1. /\ stage' = "exited" /\ pc' = [r \in Requests |-> "idle"]
      /\ call' = [r \in Requests |-> 0] /\ wants' = [r \in Requests |-> {}]
      /\ channel' = [s \in Relays |-> <<>>] /\ waiting' = [s \in Relays |-> <<>>]
      /\ worker' = [s \in Relays |-> "done"] /\ busy' = [s \in Relays |-> None]
      /\ UNCHANGED <<gaveUp, calls, closed, tried>>
  BY DEF Exits
<1>2. TypeOK'
  BY <1>1, MaxCallsNat, CapacityPositive DEF IInv, TypeOK, Stages
<1>3. WaitInv'
  BY <1>1, ToSetEmpty DEF WaitInv, Once, Relays
<1>4. CallInv' /\ WorkerInv' /\ StageInv'
  BY <1>1 DEF IInv, CallInv, WorkerInv, StageInv
<1>5. TakenInv'
  BY <1>1, ToSetEmpty DEF TakenInv, Past, Relays
<1>6. QED
  BY <1>2, <1>3, <1>4, <1>5 DEF IInv
-----------------------------------------------------------------------------
LEMMA Initially ==
    ASSUME Init
    PROVE  IInv
<1>1. TypeOK
  <2>1. /\ [s \in Relays |-> <<>>] \in [Relays -> Seq(1..MaxCalls)]
        /\ [s \in Relays |-> <<>>] \in [Relays -> Seq(Requests)]
    OBVIOUS
  <2>2. \A s \in Relays : Len([t \in Relays |-> <<>>][s]) <= Capacity
    BY CapacityPositive
  <2>3. 0 \in 0..MaxCalls
    BY MaxCallsNat
  <2>4. /\ stage \in Stages /\ gaveUp \in BOOLEAN /\ calls \in 0..MaxCalls
        /\ pc \in [Requests -> Relays \cup {"idle", "blocked", "ok", "error"}]
        /\ call \in [Requests -> 0..MaxCalls] /\ wants \in [Requests -> SUBSET Relays]
        /\ closed \in SUBSET Relays /\ worker \in [Relays -> {"ready", "busy", "done"}]
        /\ busy \in [Relays -> 1..MaxCalls \cup {None}]
        /\ tried \in [Relays -> SUBSET (1..MaxCalls)]
    BY <2>3 DEF Init, Stages
  <2>5. /\ channel \in [Relays -> Seq(1..MaxCalls)] /\ waiting \in [Relays -> Seq(Requests)]
        /\ \A s \in Relays : Len(channel[s]) <= Capacity
    BY <2>1, <2>2 DEF Init
  <2>6. QED
    BY <2>4, <2>5 DEF TypeOK
<1>2. WaitInv /\ TakenInv
  BY ToSetEmpty DEF Init, WaitInv, Once, TakenInv, Past, Relays
<1>3. CallInv /\ WorkerInv /\ StageInv
  BY DEF Init, CallInv, WorkerInv, StageInv
<1>4. QED
  BY <1>1, <1>2, <1>3 DEF IInv

\* The inductive invariant holds in every state.
LEMMA Inductive == Spec => []IInv
<1>1. ASSUME IInv, [Next]_vars
      PROVE  IInv'
  <2>1. CASE \E r \in Requests : Accept(r) \/ Reply(r)
    BY <1>1, <2>1, AcceptStep, ReplyStep
  <2>2. CASE \E r \in Requests, s \in Relays : Send(r, s)
    BY <1>1, <2>2, SendNothingStep, SendRefusedStep, SendBufferedStep, SendBlocksStep DEF Send
  <2>3. CASE \E s \in Relays : Receive(s) \/ Try(s) \/ Ends(s) \/ Close(s)
    BY <1>1, <2>3, ReceiveStep, TryStep, EndsStep, CloseStep
  <2>4. CASE Signal \/ ShutdownReturns \/ Exits
    BY <1>1, <2>4, MainStep, ExitsStep
  <2>5. CASE UNCHANGED vars
    BY <1>1, <2>5 DEF vars, requests, relays, IInv, TypeOK, WaitInv, Once, CallInv, WorkerInv,
                      TakenInv, Past, Taken, StageInv
  <2>6. QED
    BY <1>1, <2>1, <2>2, <2>3, <2>4, <2>5 DEF Next
<1>2. QED
  BY <1>1, Initially, PTL DEF Spec

\* The types of Sender: no channel ever holds more than its capacity.
THEOREM TypeCorrect == Spec => []TypeOK
  BY Inductive, PTL DEF IInv

\* A 204 of DeleteLogin means that the relays have its messages.
THEOREM OkDoesMeanTaken == Spec => []OkMeansTaken
<1>1. IInv => OkMeansTaken
  BY DEF IInv, TypeOK, TakenInv, Past, OkMeansTaken, Relays
<1>2. QED
  BY <1>1, Inductive, PTL

\* Send fails only for requests that Shutdown has given up on.
THEOREM RefusalsAreLate == Spec => []RefusedAfterTimeout
<1>1. IInv => RefusedAfterTimeout
  BY DEF IInv, StageInv, RefusedAfterTimeout
<1>2. QED
  BY <1>1, Inductive, PTL
-----------------------------------------------------------------------------
(* Sender implements Delivery.                                             *)

States == [r \in Requests |-> State(r)]
Lefts  == [r \in Requests |-> Left(r)]
Queues == [s \in Relays |-> Queue(s)]
-----------------------------------------------------------------------------
(* A sequence and one more element, at the front or at the end.            *)

LEMMA ConsOf ==
    ASSUME NEW S, NEW b \in S, NEW q \in Seq(S)
    PROVE  LET c == <<b>> \o q IN
           /\ c \in Seq(S) /\ Len(c) = Len(q) + 1 /\ c[1] = b
           /\ \A i \in 1..Len(q) : c[i + 1] = q[i]
<1> DEFINE one == <<b>>
           c   == one \o q
<1>1. one \in Seq(S) /\ Len(one) = 1 /\ one[1] = b
  OBVIOUS
<1>2. Len(q) \in Nat
  OBVIOUS
<1> HIDE DEF one
<1>3. /\ c \in Seq(S) /\ Len(c) = 1 + Len(q)
      /\ \A i \in 1 .. 1 + Len(q) : c[i] = IF i <= 1 THEN one[i] ELSE q[i - 1]
  <2>1. /\ one \o q \in Seq(S) /\ Len(one \o q) = Len(one) + Len(q)
        /\ \A i \in 1 .. Len(one) + Len(q) :
              (one \o q)[i] = IF i <= Len(one) THEN one[i] ELSE q[i - Len(one)]
    BY <1>1, ConcatProperties
  <2>2. QED
    BY <1>1, <2>1
<1> HIDE DEF c
<1>4. c[1] = b
  BY <1>1, <1>2, <1>3
<1>5. ASSUME NEW i \in 1..Len(q) PROVE c[i + 1] = q[i]
  BY <1>2, <1>3, <1>5
<1>6. QED
  BY <1>2, <1>3, <1>4, <1>5 DEF c, one

\* Head and tail make the sequence they come from.
LEMMA HeadBack ==
    ASSUME NEW S, NEW q \in Seq(S), q # <<>>
    PROVE  <<Head(q)>> \o Tail(q) = q
<1> DEFINE b == Head(q)
           p == Tail(q)
           c == <<b>> \o p
<1>1. /\ Len(q) \in Nat \ {0} /\ b = q[1] /\ b \in S /\ p \in Seq(S) /\ Len(p) = Len(q) - 1
      /\ \A i \in 1..Len(p) : p[i] = q[i + 1]
  BY TailOf
<1> HIDE DEF b, p
<1>2. /\ c \in Seq(S) /\ Len(c) = Len(p) + 1 /\ c[1] = b
      /\ \A i \in 1..Len(p) : c[i + 1] = p[i]
  BY <1>1, ConsOf
<1> HIDE DEF c
<1>3. Len(c) = Len(q)
  BY <1>1, <1>2
<1>4. ASSUME NEW i \in 1..Len(c) PROVE c[i] = q[i]
  <2>1. CASE i = 1
    BY <1>1, <1>2, <2>1
  <2>2. CASE i # 1
    <3>1. i - 1 \in 1..Len(p) /\ (i - 1) + 1 = i
      BY <1>1, <1>3, <2>2
    <3>2. QED
      BY <1>1, <1>2, <3>1
  <2>3. QED
    BY <2>1, <2>2
<1>5. c = q
  BY <1>2, <1>3, <1>4, SeqEqual
<1>6. QED
  BY <1>5 DEF b, p, c

\* Tail and head of a sequence with one more element at the front.
LEMMA ConsTail ==
    ASSUME NEW S, NEW b \in S, NEW q \in Seq(S)
    PROVE  LET c == <<b>> \o q IN c # <<>> /\ Head(c) = b /\ Tail(c) = q
<1> DEFINE c == <<b>> \o q
<1>1. /\ c \in Seq(S) /\ Len(c) = Len(q) + 1 /\ c[1] = b
      /\ \A i \in 1..Len(q) : c[i + 1] = q[i]
  BY ConsOf
<1>2. Len(q) \in Nat
  OBVIOUS
<1> HIDE DEF c
<1>3. c # <<>>
  BY <1>1, <1>2
<1>4. /\ Head(c) = b /\ Tail(c) \in Seq(S) /\ Len(Tail(c)) = Len(q)
      /\ \A i \in 1..Len(q) : Tail(c)[i] = q[i]
  <2>1. /\ Head(c) = c[1] /\ Tail(c) \in Seq(S) /\ Len(Tail(c)) = Len(c) - 1
        /\ \A i \in 1..Len(Tail(c)) : Tail(c)[i] = c[i + 1]
    BY <1>1, <1>3, TailOf
  <2>2. QED
    BY <1>1, <1>2, <2>1
<1> DEFINE p == Tail(c)
<1>5. p \in Seq(S) /\ Len(p) = Len(q) /\ \A i \in 1..Len(p) : p[i] = q[i]
  BY <1>4
<1> HIDE DEF p
<1>6. p = q
  BY <1>5, SeqEqual
<1>7. QED
  BY <1>3, <1>4, <1>6 DEF c, p

\* What is appended to the rest is appended to the whole.
LEMMA ConsAppend ==
    ASSUME NEW S, NEW b \in S, NEW q \in Seq(S), NEW e \in S
    PROVE  <<b>> \o Append(q, e) = Append(<<b>> \o q, e)
<1> DEFINE one == <<b>>
           last == <<e>>
<1>1. one \in Seq(S) /\ last \in Seq(S)
  OBVIOUS
<1>2. \A p \in Seq(S) : Append(p, e) = p \o last
  <2> SUFFICES ASSUME NEW p \in Seq(S) PROVE Append(p, e) = p \o last
    OBVIOUS
  <2> DEFINE x == Append(p, e)
             y == p \o last
  <2>1. Len(p) \in Nat /\ Len(last) = 1 /\ last[1] = e
    OBVIOUS
  <2>2. /\ x \in Seq(S) /\ Len(x) = Len(p) + 1 /\ x[Len(p) + 1] = e
        /\ \A i \in 1..Len(p) : x[i] = p[i]
    OBVIOUS
  <2> HIDE DEF last, x
  <2>3. /\ y \in Seq(S) /\ Len(y) = Len(p) + 1
        /\ \A i \in 1 .. Len(p) + 1 : y[i] = IF i <= Len(p) THEN p[i] ELSE last[i - Len(p)]
    BY <1>1, <2>1, ConcatProperties
  <2> HIDE DEF y
  <2>4. ASSUME NEW i \in 1..Len(x) PROVE x[i] = y[i]
    <3>1. CASE i = Len(p) + 1
      <4>1. i \in 1 .. Len(p) + 1 /\ ~(i <= Len(p)) /\ i - Len(p) = 1
        BY <2>1, <3>1
      <4>2. QED
        BY <2>1, <2>2, <2>3, <3>1, <4>1
    <3>2. CASE i # Len(p) + 1
      <4>1. i \in 1..Len(p) /\ i \in 1 .. Len(p) + 1 /\ i <= Len(p)
        BY <2>1, <2>2, <3>2
      <4>2. QED
        BY <2>2, <2>3, <4>1
    <3>3. QED
      BY <3>1, <3>2
  <2>5. x = y
    BY <2>2, <2>3, <2>4, SeqEqual
  <2>6. QED
    BY <2>5 DEF x, y
<1>3. one \o q \in Seq(S)
  BY <1>1, ConcatProperties
<1> HIDE DEF one, last
<1>4. one \o (q \o last) = (one \o q) \o last
  BY <1>1, ConcatAssociative
<1>5. QED
  BY <1>2, <1>3, <1>4 DEF one
-----------------------------------------------------------------------------
(* The queue of a relay through the steps of its goroutine.                *)

\* What Queue is made of.
LEMMA QueueType ==
    ASSUME IInv, NEW s \in Relays
    PROVE  /\ channel[s] \in Seq(Calls)
           /\ busy[s] # None => busy[s] \in Calls
           /\ Queue(s) = IF busy[s] = None THEN channel[s] ELSE <<busy[s]>> \o channel[s]
  BY DEF IInv, TypeOK, Queue, Calls

\* A relay whose variables stay has its queue, and tried what it had.
LEMMA QueuesSame ==
    ASSUME UNCHANGED <<channel, busy>>
    PROVE  Queues' = Queues
  BY DEF Queues, Queue

\* A step that changes the queue of s to c.
LEMMA QueuesAre ==
    ASSUME NEW s \in Relays, NEW c, Queue(s)' = c,
           \A t \in Relays \ {s} : Queue(t)' = Queue(t)
    PROVE  Queues' = [Queues EXCEPT ![s] = c] /\ Queues[s] = Queue(s)
  BY DEF Queues

\* The channel of s gets a message at the end: so does its queue.
LEMMA QueueAppend ==
    ASSUME IInv, NEW s \in Relays, NEW m \in Calls, UNCHANGED busy,
           channel' = [channel EXCEPT ![s] = Append(channel[s], m)]
    PROVE  Queues' = [Queues EXCEPT ![s] = Append(Queues[s], m)]
<1>1. /\ channel'[s] = Append(channel[s], m)
      /\ \A t \in Relays \ {s} : channel'[t] = channel[t]
  BY DEF IInv, TypeOK
<1>2. \A t \in Relays \ {s} : Queue(t)' = Queue(t)
  BY <1>1 DEF Queue
<1>3. Queue(s)' = Append(Queue(s), m)
  <2>1. CASE busy[s] = None
    BY <1>1, <2>1 DEF Queue
  <2>2. CASE busy[s] # None
    <3>1. <<busy[s]>> \o Append(channel[s], m) = Append(<<busy[s]>> \o channel[s], m)
      BY <2>2, QueueType, ConsAppend
    <3>2. QED
      BY <1>1, <2>2, <3>1 DEF Queue
  <2>3. QED
    BY <2>1, <2>2
<1>4. QED
  BY <1>2, <1>3, QueuesAre
-----------------------------------------------------------------------------
(* Steps of Delivery, in terms of its variables here.                      *)

LEMMA AbstractSame ==
    ASSUME UNCHANGED <<calls, call, tried, gaveUp>>, States' = States, Lefts' = Lefts,
           Queues' = Queues
    PROVE  UNCHANGED Promise!vars
  BY DEF Promise!vars, States, Lefts, Queues

LEMMA AbstractTake ==
    ASSUME NEW r \in Requests, NEW s \in Relays,
           UNCHANGED <<calls, call, tried, gaveUp>>, States' = States,
           States[r] = "asking", s \in Lefts[r],
           Queues' = [Queues EXCEPT ![s] = Append(Queues[s], call[r])],
           Lefts' = [Lefts EXCEPT ![r] = Lefts[r] \ {s}]
    PROVE  Promise!Next
<1>1. Promise!Take(r, s)
  BY DEF Promise!Take, States, Lefts, Queues
<1>2. QED
  BY <1>1 DEF Promise!Next

LEMMA AbstractDeliver ==
    ASSUME NEW s \in Relays, UNCHANGED <<calls, call, gaveUp>>, States' = States,
           Lefts' = Lefts, Queues[s] # <<>>,
           tried' = [tried EXCEPT ![s] = tried[s] \cup {Head(Queues[s])}],
           Queues' = [Queues EXCEPT ![s] = Tail(Queues[s])]
    PROVE  Promise!Next
<1>1. Promise!Deliver(s)
  BY DEF Promise!Deliver, States, Lefts, Queues
<1>2. QED
  BY <1>1 DEF Promise!Next

LEMMA AbstractRefuse ==
    ASSUME NEW rs \in SUBSET Requests, gaveUp, UNCHANGED <<calls, call, tried, gaveUp>>,
           Queues' = Queues,
           \A r \in rs : States[r] = "asking" /\ Lefts[r] # {},
           States' = [r \in Requests |-> IF r \in rs THEN "refused" ELSE States[r]],
           Lefts' = [r \in Requests |-> IF r \in rs THEN {} ELSE Lefts[r]]
    PROVE  Promise!Next
<1>1. Promise!Refuse(rs)
  BY DEF Promise!Refuse, States, Lefts, Queues
<1>2. QED
  BY <1>1 DEF Promise!Next
-----------------------------------------------------------------------------
(* What a request has left, by where it is.                                *)

LeftBy(r) ==
    /\ pc[r] = "mail" \/ r \in ToSet(waiting["mail"]) => Left(r) = wants[r]
    /\ pc[r] = "sms" \/ r \in ToSet(waiting["sms"]) => Left(r) = wants[r] \ {"mail"}
    /\ pc[r] \in {"idle", "ok", "error"} => Left(r) = {}

LEMMA LeftIs == IInv => \A r \in Requests : LeftBy(r)
<1> SUFFICES ASSUME IInv, NEW r \in Requests PROVE LeftBy(r)
  OBVIOUS
<1>1. wants[r] \subseteq Relays /\ Relays = {"mail", "sms"}
  BY DEF IInv, TypeOK, Relays
<1>2. pc[r] # "blocked" => r \notin ToSet(waiting["mail"]) /\ r \notin ToSet(waiting["sms"])
  BY NotWaiting DEF Relays
<1>3. /\ r \in ToSet(waiting["mail"]) => r \notin ToSet(waiting["sms"])
      /\ r \in ToSet(waiting["mail"]) \/ r \in ToSet(waiting["sms"]) => pc[r] = "blocked"
  BY DEF IInv, WaitInv, Relays
<1>4. QED
  BY <1>1, <1>2, <1>3 DEF LeftBy, Left, Ahead

LEMMA LeftIsNext == IInv' => \A r \in Requests : LeftBy(r)'
<1>1. (IInv => \A r \in Requests : LeftBy(r))'
  BY LeftIs, PTL
<1>2. QED
  BY <1>1

\* Only a step of r moves r in a queue: the others have what they had.
LEMMA Others ==
    ASSUME NEW r \in Requests,
           \A q \in Requests \ {r} : pc'[q] = pc[q] /\ wants'[q] = wants[q],
           \A s \in Relays : \A q \in Requests \ {r} :
              q \in ToSet(waiting'[s]) <=> q \in ToSet(waiting[s])
    PROVE  /\ States' = [States EXCEPT ![r] = State(r)']
           /\ Lefts' = [Lefts EXCEPT ![r] = Left(r)']
<1>1. \A q \in Requests \ {r} : State(q)' = State(q) /\ Left(q)' = Left(q)
  BY DEF State, Left, Ahead, Relays
<1>2. QED
  BY <1>1 DEF States, Lefts

\* Requests that stay where they are.
LEMMA AllSame ==
    ASSUME UNCHANGED <<pc, wants, waiting>>
    PROVE  States' = States /\ Lefts' = Lefts
  BY DEF States, Lefts, State, Left, Ahead
-----------------------------------------------------------------------------
(* The steps of requests.                                                  *)

\* A request that moves from s on, in no queue before and after.
LEMMA Moves ==
    ASSUME IInv, IInv', NEW r \in Requests, NEW s \in Relays, pc[r] = s,
           pc' = [pc EXCEPT ![r] = After(s)], UNCHANGED <<wants, waiting>>
    PROVE  /\ States' = States /\ States[r] = "asking"
           /\ Lefts' = [Lefts EXCEPT ![r] = Lefts[r] \ {s}]
           /\ s \in wants[r] => s \in Lefts[r]
<1>1. /\ pc'[r] = After(s) /\ \A q \in Requests \ {r} : pc'[q] = pc[q]
  BY DEF IInv, TypeOK
<1>2. /\ States' = [States EXCEPT ![r] = State(r)']
      /\ Lefts' = [Lefts EXCEPT ![r] = Left(r)']
  BY <1>1, Others
<1>3. /\ State(r) = "asking" /\ State(r)' = "asking"
  BY <1>1, AfterType DEF State, Relays
<1>4. Left(r)' = Left(r) \ {s} /\ (s \in wants[r] => s \in Left(r))
  <2>1. wants[r] \subseteq {"mail", "sms"}
    BY DEF IInv, TypeOK, Relays
  <2>2. LeftBy(r) /\ LeftBy(r)'
    BY LeftIs, LeftIsNext
  <2>3. QED
    BY <1>1, <2>1, <2>2, AfterType DEF LeftBy, Relays
<1>5. QED
  BY <1>2, <1>3, <1>4 DEF States, Lefts

LEMMA SendNothingPromise ==
    ASSUME IInv, IInv', NEW r \in Requests, NEW s \in Relays, SendNothing(r, s)
    PROVE  UNCHANGED Promise!vars
<1>1. /\ pc[r] = s /\ s \notin wants[r] /\ pc' = [pc EXCEPT ![r] = After(s)]
      /\ UNCHANGED <<gaveUp, calls, call, wants, channel, waiting, busy, tried>>
  BY DEF SendNothing, relays
<1>2. States' = States /\ Lefts' = [Lefts EXCEPT ![r] = Lefts[r] \ {s}]
  BY <1>1, Moves
<1>3. Lefts' = Lefts
  <2>1. s \notin Lefts[r]
    BY <1>1 DEF Lefts, Left
  <2>2. QED
    BY <1>2, <2>1 DEF Lefts
<1>4. QED
  BY <1>1, <1>2, <1>3, QueuesSame, AbstractSame

LEMMA SendBufferedPromise ==
    ASSUME IInv, IInv', NEW r \in Requests, NEW s \in Relays, SendBuffered(r, s)
    PROVE  Promise!Next
<1>1. /\ pc[r] = s /\ s \in wants[r] /\ pc' = [pc EXCEPT ![r] = After(s)]
      /\ channel' = [channel EXCEPT ![s] = Append(channel[s], call[r])]
      /\ UNCHANGED <<gaveUp, calls, call, wants, waiting, busy, tried>>
  BY DEF SendBuffered
<1>2. call[r] \in Calls
  BY <1>1 DEF IInv, CallInv, Relays
<1>3. QED
  BY <1>1, <1>2, Moves, QueueAppend, AbstractTake

LEMMA SendBlocksPromise ==
    ASSUME IInv, IInv', NEW r \in Requests, NEW s \in Relays, SendBlocks(r, s)
    PROVE  UNCHANGED Promise!vars
<1>1. /\ pc[r] = s /\ waiting' = [waiting EXCEPT ![s] = Append(waiting[s], r)]
      /\ pc' = [pc EXCEPT ![r] = "blocked"]
      /\ UNCHANGED <<gaveUp, calls, call, wants, channel, busy, tried>>
  BY DEF SendBlocks
<1>2. /\ pc'[r] = "blocked" /\ \A q \in Requests \ {r} : pc'[q] = pc[q]
      /\ \A t \in Relays : waiting'[t] = IF t = s THEN Append(waiting[s], r) ELSE waiting[t]
      /\ waiting[s] \in Seq(Requests)
  BY <1>1 DEF IInv, TypeOK
<1>3. ToSet(waiting'[s]) = ToSet(waiting[s]) \cup {r}
  BY <1>2, ToSetAppend
<1>4. /\ States' = [States EXCEPT ![r] = State(r)']
      /\ Lefts' = [Lefts EXCEPT ![r] = Left(r)']
  BY <1>1, <1>2, <1>3, Others
<1>5. State(r)' = State(r)
  BY <1>1, <1>2 DEF State, Relays
<1>6. Left(r)' = Left(r)
  BY <1>1, <1>3, LeftIs, LeftIsNext DEF LeftBy, Relays
<1>7. States' = States /\ Lefts' = Lefts
  BY <1>4, <1>5, <1>6 DEF States, Lefts
<1>8. QED
  BY <1>1, <1>7, QueuesSame, AbstractSame

LEMMA SendRefusedPromise ==
    ASSUME IInv, IInv', NEW r \in Requests, NEW s \in Relays, SendRefused(r, s)
    PROVE  Promise!Next
<1>1. /\ pc[r] = s /\ s \in wants[r] /\ s \in closed /\ pc' = [pc EXCEPT ![r] = "error"]
      /\ UNCHANGED <<stage, gaveUp, calls, call, wants, channel, waiting, busy, tried>>
  BY DEF SendRefused, relays
<1>2. gaveUp
  BY <1>1 DEF IInv, StageInv, TypeOK, Stages, Relays
<1>3. /\ pc'[r] = "error" /\ \A q \in Requests \ {r} : pc'[q] = pc[q]
  BY <1>1 DEF IInv, TypeOK
<1>4. /\ States' = [States EXCEPT ![r] = State(r)']
      /\ Lefts' = [Lefts EXCEPT ![r] = Left(r)']
  BY <1>1, <1>3, Others
<1>5. State(r) = "asking" /\ State(r)' = "refused" /\ Left(r)' = {} /\ Left(r) # {}
  <2>1. State(r) = "asking" /\ State(r)' = "refused"
    BY <1>1, <1>3 DEF State, Relays
  <2>2. Left(r)' = {} /\ s \in Left(r)
    BY <1>1, <1>3, LeftIs, LeftIsNext DEF LeftBy, Relays
  <2>3. QED
    BY <2>1, <2>2
<1>6. /\ \A q \in {r} : States[q] = "asking" /\ Lefts[q] # {}
      /\ States' = [q \in Requests |-> IF q \in {r} THEN "refused" ELSE States[q]]
      /\ Lefts' = [q \in Requests |-> IF q \in {r} THEN {} ELSE Lefts[q]]
  BY <1>4, <1>5 DEF States, Lefts
<1>7. Queues' = Queues
  BY <1>1, QueuesSame
<1>8. QED
  BY <1>1, <1>2, <1>6, <1>7, AbstractRefuse

LEMMA AcceptPromise ==
    ASSUME IInv, IInv', NEW r \in Requests, Accept(r)
    PROVE  Promise!Next
<1>1. /\ pc[r] = "idle" /\ pc' = [pc EXCEPT ![r] = "mail"]
      /\ calls' = calls + 1 /\ call' = [call EXCEPT ![r] = calls + 1]
      /\ UNCHANGED <<gaveUp, channel, waiting, busy, tried>>
  BY DEF Accept, relays
<1>2. PICK ss \in Addresses : wants' = [wants EXCEPT ![r] = ss]
  BY DEF Accept
<1>3. /\ pc'[r] = "mail" /\ wants'[r] = ss
      /\ \A q \in Requests \ {r} : pc'[q] = pc[q] /\ wants'[q] = wants[q]
  BY <1>1, <1>2 DEF IInv, TypeOK
<1>4. /\ States' = [States EXCEPT ![r] = State(r)']
      /\ Lefts' = [Lefts EXCEPT ![r] = Left(r)']
  BY <1>1, <1>3, Others
<1>5. State(r) = "idle" /\ State(r)' = "asking"
  BY <1>1, <1>3 DEF State
<1>6. Left(r)' = ss /\ ss \in SUBSET Relays
  BY <1>2, <1>3, LeftIsNext, SomeAddress DEF LeftBy
<1>7. Queues' = Queues
  BY <1>1, QueuesSame
<1>8. Promise!Ask(r)
  BY <1>1, <1>4, <1>5, <1>6, <1>7 DEF Promise!Ask, States, Lefts, Queues
<1>9. QED
  BY <1>8 DEF Promise!Next

LEMMA ReplyPromise ==
    ASSUME IInv, IInv', NEW r \in Requests, Reply(r)
    PROVE  Promise!Next
<1>1. /\ pc[r] \in {"ok", "error"} /\ pc' = [pc EXCEPT ![r] = "idle"]
      /\ call' = [call EXCEPT ![r] = 0] /\ wants' = [wants EXCEPT ![r] = {}]
      /\ UNCHANGED <<gaveUp, calls, channel, waiting, busy, tried>>
  BY DEF Reply, relays
<1>2. /\ pc'[r] = "idle"
      /\ \A q \in Requests \ {r} : pc'[q] = pc[q] /\ wants'[q] = wants[q]
  BY <1>1 DEF IInv, TypeOK
<1>3. /\ States' = [States EXCEPT ![r] = State(r)']
      /\ Lefts' = [Lefts EXCEPT ![r] = Left(r)']
  BY <1>1, <1>2, Others
<1>4. State(r) # "idle" /\ State(r)' = "idle"
  BY <1>1, <1>2 DEF State
<1>5. Left(r) = {} /\ Left(r)' = {}
  BY <1>1, <1>2, LeftIs, LeftIsNext DEF LeftBy
<1>6. Lefts' = Lefts /\ Lefts[r] = {}
  BY <1>3, <1>5 DEF Lefts
<1>7. Queues' = Queues
  BY <1>1, QueuesSame
<1>8. Promise!Answer(r)
  BY <1>1, <1>3, <1>4, <1>6, <1>7 DEF Promise!Answer, States, Lefts, Queues
<1>9. QED
  BY <1>8 DEF Promise!Next
-----------------------------------------------------------------------------
(* The steps of the goroutines.                                            *)

\* The message that the goroutine receives stays the first of the queue.
LEMMA ReceivePromise ==
    ASSUME IInv, IInv', NEW s \in Relays, Receive(s)
    PROVE  Promise!Next \/ UNCHANGED Promise!vars
<1> DEFINE q == channel[s]
           w == waiting[s]
<1>1. /\ q # <<>> /\ busy[s] = None /\ busy' = [busy EXCEPT ![s] = Head(q)]
      /\ UNCHANGED <<gaveUp, calls, call, wants, tried>>
  BY DEF Receive, IInv, WorkerInv
<1>2. q \in Seq(Calls) /\ w \in Seq(Requests)
  BY DEF IInv, TypeOK, Calls
<1>3. Head(q) \in Calls /\ Tail(q) \in Seq(Calls) /\ Head(q) # None
  <2>1. Head(q) \in Calls /\ Tail(q) \in Seq(Calls)
    BY <1>1, <1>2, TailOf
  <2>2. QED
    BY <2>1, MaxCallsNat, NoneElse DEF Calls
<1>4. \A t \in Relays : busy'[t] = IF t = s THEN Head(q) ELSE busy[t]
  BY <1>1 DEF IInv, TypeOK
<1>5. <<Head(q)>> \o Tail(q) = q /\ Queue(s) = q
  BY <1>1, <1>2, HeadBack DEF Queue
<1>6. CASE w = <<>>
  <2>1. channel' = [channel EXCEPT ![s] = Tail(q)] /\ UNCHANGED <<pc, waiting>>
    BY <1>6 DEF Receive
  <2>2. \A t \in Relays : channel'[t] = IF t = s THEN Tail(q) ELSE channel[t]
    BY <2>1 DEF IInv, TypeOK
  <2>3. \A t \in Relays : Queue(t)' = Queue(t)
    BY <1>3, <1>4, <1>5, <2>2 DEF Queue
  <2>4. Queues' = Queues
    BY <2>3 DEF Queues
  <2>5. QED
    BY <1>1, <2>1, <2>4, AllSame, AbstractSame
<1>7. CASE w # <<>>
  <2>0. PICK r \in Requests : r = Head(w)
    BY <1>2, <1>7, TailOf
  <2> DEFINE c == Append(Tail(q), call[r])
  <2>1. /\ channel' = [channel EXCEPT ![s] = c]
        /\ pc' = [pc EXCEPT ![r] = After(s)]
        /\ waiting' = [waiting EXCEPT ![s] = Tail(w)]
    BY <1>7, <2>0 DEF Receive
  <2>2. ToSet(w) = {r} \cup ToSet(Tail(w))
    BY <1>2, <1>7, <2>0, ToSetHead
  <2>3. r \notin ToSet(Tail(w))
    <3>1. \A i, j \in 1..Len(w) : w[i] = w[j] => i = j
      BY DEF IInv, WaitInv, Once
    <3>2. QED
      BY <1>2, <1>7, <2>0, <3>1, HeadOnce
  <2>4. pc[r] = "blocked" /\ s \in wants[r] /\ call[r] \in Calls /\ r \in ToSet(waiting[s])
    BY <2>2 DEF IInv, WaitInv, CallInv
  <2>5. <<Head(q)>> \o c = Append(q, call[r])
    <3> DEFINE b == Head(q)
               u == Tail(q)
               e == call[r]
    <3>1. b \in Calls /\ u \in Seq(Calls) /\ e \in Calls /\ <<b>> \o u = q
      BY <1>3, <1>5, <2>4
    <3> HIDE DEF b, u, e
    <3>2. <<b>> \o Append(u, e) = Append(<<b>> \o u, e)
      BY <3>1, ConsAppend
    <3>3. QED
      BY <3>1, <3>2 DEF b, u, e
  <2> HIDE DEF c
  <2>6. /\ \A t \in Relays : channel'[t] = IF t = s THEN c ELSE channel[t]
        /\ \A t \in Relays : waiting'[t] = IF t = s THEN Tail(w) ELSE waiting[t]
        /\ pc'[r] = After(s) /\ \A p \in Requests \ {r} : pc'[p] = pc[p]
    BY <2>1, <2>2 DEF IInv, TypeOK
  <2>7. Queues' = [Queues EXCEPT ![s] = Append(Queues[s], call[r])]
    <3>1. \A t \in Relays \ {s} : Queue(t)' = Queue(t)
      BY <1>4, <2>6 DEF Queue
    <3>2. Queue(s)' = Append(q, call[r])
      BY <1>3, <1>4, <2>5, <2>6 DEF Queue
    <3>3. QED
      BY <1>5, <3>1, <3>2, QueuesAre
  <2>8. /\ States' = [States EXCEPT ![r] = State(r)']
        /\ Lefts' = [Lefts EXCEPT ![r] = Left(r)']
    <3>1. \A t \in Relays : \A p \in Requests \ {r} :
             p \in ToSet(waiting'[t]) <=> p \in ToSet(waiting[t])
      BY <2>2, <2>6
    <3>2. QED
      BY <1>1, <2>2, <2>6, <3>1, Others
  <2>9. State(r) = "asking" /\ State(r)' = "asking"
    BY <2>4, <2>6, AfterType DEF State
  <2>10. s \in Left(r) /\ Left(r)' = Left(r) \ {s}
    <3>1. wants[r] \subseteq {"mail", "sms"} /\ wants'[r] = wants[r]
      BY <1>1, <2>2 DEF IInv, TypeOK, Relays
    <3>2. LeftBy(r) /\ LeftBy(r)'
      BY <2>2, LeftIs, LeftIsNext
    <3>3. QED
      BY <2>4, <2>6, <3>1, <3>2, AfterType DEF LeftBy, Relays
  <2>11. /\ States' = States /\ States[r] = "asking" /\ s \in Lefts[r]
         /\ Lefts' = [Lefts EXCEPT ![r] = Lefts[r] \ {s}]
    BY <2>2, <2>8, <2>9, <2>10 DEF States, Lefts
  <2>12. QED
    BY <1>1, <2>2, <2>7, <2>11, AbstractTake
<1>8. QED
  BY <1>6, <1>7

LEMMA TryPromise ==
    ASSUME IInv, IInv', NEW s \in Relays, Try(s)
    PROVE  Promise!Next
<1>1. /\ busy[s] # None /\ busy' = [busy EXCEPT ![s] = None]
      /\ tried' = [tried EXCEPT ![s] = tried[s] \cup {busy[s]}]
      /\ UNCHANGED <<gaveUp, calls, call, wants, pc, channel, waiting>>
  BY DEF Try, IInv, WorkerInv, requests
<1>2. busy[s] \in Calls /\ channel[s] \in Seq(Calls)
  BY <1>1, QueueType
<1>3. \A t \in Relays : busy'[t] = IF t = s THEN None ELSE busy[t]
  BY <1>1 DEF IInv, TypeOK
<1>4. Queue(s) # <<>> /\ Head(Queue(s)) = busy[s] /\ Tail(Queue(s)) = channel[s]
  BY <1>1, <1>2, ConsTail DEF Queue
<1>5. Queue(s)' = channel[s] /\ \A t \in Relays \ {s} : Queue(t)' = Queue(t)
  BY <1>1, <1>3 DEF Queue
<1>6. Queues' = [Queues EXCEPT ![s] = Tail(Queues[s])] /\ Queues[s] = Queue(s)
  BY <1>4, <1>5, QueuesAre
<1>7. QED
  BY <1>1, <1>4, <1>6, AllSame, AbstractDeliver

\* Steps of which Delivery knows nothing.
LEMMA Unseen ==
    ASSUME UNCHANGED <<gaveUp, calls, call, wants, pc, channel, waiting, busy, tried>>
    PROVE  UNCHANGED Promise!vars
  BY AllSame, QueuesSame, AbstractSame
-----------------------------------------------------------------------------
(* The steps of main.                                                      *)

LEMMA ShutdownPromise ==
    ASSUME IInv, ShutdownReturns
    PROVE  Promise!Next \/ UNCHANGED Promise!vars
<1>1. /\ stage = "draining" /\ gaveUp' \in BOOLEAN
      /\ UNCHANGED <<calls, call, wants, pc, channel, waiting, busy, tried>>
  BY DEF ShutdownReturns, requests, relays
<1>2. gaveUp = FALSE
  BY <1>1 DEF IInv, StageInv, TypeOK
<1>3. CASE gaveUp' = FALSE
  BY <1>1, <1>2, <1>3, Unseen
<1>4. CASE gaveUp' = TRUE
  <2>1. States' = States /\ Lefts' = Lefts /\ Queues' = Queues
    BY <1>1, AllSame, QueuesSame
  <2>2. Promise!GivesUp
    BY <1>1, <1>4, <2>1 DEF Promise!GivesUp, States, Lefts, Queues
  <2>3. QED
    BY <2>2 DEF Promise!Next
<1>5. QED
  BY <1>1, <1>3, <1>4

\* Close refuses all that wait for its relay.
LEMMA ClosePromise ==
    ASSUME IInv, IInv', NEW s \in Relays, Close(s)
    PROVE  Promise!Next \/ UNCHANGED Promise!vars
<1> DEFINE rs == ToSet(waiting[s])
<1>1. /\ stage \in {"stopping", "smsClosed"}
      /\ pc' = [r \in Requests |-> IF r \in rs THEN "error" ELSE pc[r]]
      /\ waiting' = [waiting EXCEPT ![s] = <<>>]
      /\ UNCHANGED <<gaveUp, calls, call, wants, channel, busy, tried>>
  BY DEF Close
<1>2. \A t \in Relays : waiting'[t] = IF t = s THEN <<>> ELSE waiting[t]
  BY <1>1 DEF IInv, TypeOK
<1>3. /\ rs \in SUBSET Requests
      /\ \A r \in rs : pc[r] = "blocked" /\ r \in ToSet(waiting[s]) /\ s \in wants[r]
  BY Waiters DEF IInv, WaitInv
<1>4. ASSUME NEW r \in Requests \ rs
      PROVE  State(r)' = State(r) /\ Left(r)' = Left(r)
  <2>1. \A t \in Relays : r \in ToSet(waiting'[t]) <=> r \in ToSet(waiting[t])
    BY <1>2, ToSetEmpty
  <2>2. pc'[r] = pc[r] /\ wants'[r] = wants[r]
    BY <1>1
  <2>3. QED
    BY <2>1, <2>2 DEF State, Left, Ahead, Relays
<1>5. ASSUME NEW r \in rs
      PROVE  State(r) = "asking" /\ Left(r) # {} /\ State(r)' = "refused" /\ Left(r)' = {}
  <2>1. pc[r] = "blocked" /\ pc'[r] = "error"
    BY <1>1, <1>3
  <2>2. State(r) = "asking" /\ State(r)' = "refused"
    BY <2>1 DEF State
  <2>3. LeftBy(r) /\ LeftBy(r)'
    BY <1>3, LeftIs, LeftIsNext
  <2>4. s \in Left(r) /\ Left(r)' = {}
    BY <1>3, <2>1, <2>3 DEF LeftBy, Relays
  <2>5. QED
    BY <2>2, <2>4
<1>6. Queues' = Queues
  BY <1>1, QueuesSame
<1> HIDE DEF rs
<1>7. /\ \A r \in rs : States[r] = "asking" /\ Lefts[r] # {}
      /\ States' = [r \in Requests |-> IF r \in rs THEN "refused" ELSE States[r]]
      /\ Lefts' = [r \in Requests |-> IF r \in rs THEN {} ELSE Lefts[r]]
  BY <1>3, <1>4, <1>5 DEF States, Lefts
<1>8. CASE rs = {}
  <2>1. States' = States /\ Lefts' = Lefts
    BY <1>7, <1>8 DEF States, Lefts
  <2>2. QED
    BY <1>1, <1>6, <2>1, AbstractSame
<1>9. CASE rs # {}
  <2>1. gaveUp
    <3>1. PICK r \in rs : r \in Requests /\ pc[r] = "blocked"
      BY <1>3, <1>9
    <3>2. QED
      BY <1>1, <3>1 DEF IInv, StageInv
  <2>2. QED
    BY <1>1, <1>3, <1>6, <1>7, <2>1, AbstractRefuse
<1>10. QED
  BY <1>8, <1>9

LEMMA ExitsPromise ==
    ASSUME IInv', Exits
    PROVE  Promise!Next
<1>1. /\ pc' = [r \in Requests |-> "idle"] /\ call' = [r \in Requests |-> 0]
      /\ channel' = [s \in Relays |-> <<>>] /\ busy' = [s \in Relays |-> None]
      /\ UNCHANGED <<gaveUp, calls, tried>>
  BY DEF Exits
<1>2. \A r \in Requests : State(r)' = "idle" /\ Left(r)' = {}
  BY <1>1, LeftIsNext DEF State, LeftBy
<1>3. \A s \in Relays : Queue(s)' = <<>>
  BY <1>1 DEF Queue
<1>4. /\ States' = [r \in Requests |-> "idle"] /\ Lefts' = [r \in Requests |-> {}]
      /\ Queues' = [s \in Relays |-> <<>>]
  BY <1>2, <1>3 DEF States, Lefts, Queues
<1>5. Promise!End
  BY <1>1, <1>4 DEF Promise!End, States, Lefts, Queues
<1>6. QED
  BY <1>5 DEF Promise!Next
-----------------------------------------------------------------------------
\* Sender implements Delivery: with channels, blocked requests and goroutines,
\* and a shutdown that closes the one and ends the others, the relays take and
\* try the messages as if each of them was one step.
THEOREM RelaysKeepPromise == Spec => KeepsPromise
<1>1. Init => Promise!Init
  BY ToSetEmpty DEF Init, Promise!Init, State, Left, Ahead, Queue, Relays
<1>2. IInv /\ IInv' /\ [Next]_vars => [Promise!Next]_Promise!vars
  <2> SUFFICES ASSUME IInv, IInv', [Next]_vars
               PROVE  Promise!Next \/ UNCHANGED Promise!vars
    OBVIOUS
  <2>1. CASE \E r \in Requests : Accept(r) \/ Reply(r)
    BY <2>1, AcceptPromise, ReplyPromise
  <2>2. CASE \E r \in Requests, s \in Relays : Send(r, s)
    BY <2>2, SendNothingPromise, SendRefusedPromise, SendBufferedPromise, SendBlocksPromise
       DEF Send
  <2>3. CASE \E s \in Relays : Receive(s) \/ Try(s) \/ Close(s)
    BY <2>3, ReceivePromise, TryPromise, ClosePromise
  <2>4. CASE Signal \/ \E s \in Relays : Ends(s)
    BY <2>4, Unseen DEF Signal, Ends, requests, relays
  <2>5. CASE ShutdownReturns \/ Exits
    BY <2>5, ShutdownPromise, ExitsPromise
  <2>6. CASE UNCHANGED vars
    BY <2>6, Unseen DEF vars, requests, relays
  <2>7. QED
    BY <2>1, <2>2, <2>3, <2>4, <2>5, <2>6 DEF Next
<1>3. QED
  BY <1>1, <1>2, Inductive, PTL DEF Spec, KeepsPromise, Promise!Spec
=============================================================================
