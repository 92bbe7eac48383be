---------------------------- MODULE AccountsProofs ----------------------------
(***************************************************************************)
(* For every number of requests, users, names and addresses, and any       *)
(* clock: TypeOK, Deliverable, FoundIsWhole, RefusedDeleteIsDone and       *)
(* TimesAgree are invariants of Accounts.                                  *)
(*                                                                         *)
(* Nothing is ever taken out of the tables, so what a request found stays  *)
(* there; the rest is what each request knows of the row it is about when  *)
(* its statement comes, and that contacts refer to addresses that exist.   *)
(***************************************************************************)
EXTENDS Accounts, TLAPS

\* Every user can be reached, its times agree, and it was made by now.
RowInv(v) ==
    /\ v.reach # {}
    /\ v.mtime + 1 >= v.ctime
    /\ v.dtime # 0 => v.dtime >= v.ctime

UsersInv    == \A i \in Ids : IsUser(i) => /\ RowInv(users[i])
                                           /\ users[i].ctime <= Rounded(clock)
ContactsInv == \A i \in Ids : HasContact(i) =>
                   /\ contacts[i].billto \in addresses \cup {None}
                   /\ contacts[i].shipto \in addresses \cup {None}
ClockInv    == clock >= 2

\* What a request knows by where it is: the body it writes; that the user it was
\* called for is there, if it ever was; the time it writes; the addresses it has
\* still to read.
BodyInv(r)    == pc[r] \in {"drawUuid", "insertUser", "updateUser"} =>
                     job[r].reach # {} /\ job[r].name \in Names
DrawnInv(r)   == pc[r] = "insertUser" => job[r].id \in Ids
CalledInv(r)  == pc[r] \in {"updateUser", "deleteUser", "selectUser", "updateContact"}
                     /\ job[r].id \in Ids => IsUser(job[r].id)
FoundInv(r)   == pc[r] \in {"selectContact", "selectBillTo", "selectShipTo", "insertContact"}
                     => IsUser(job[r].id)
TimeInv(r)    == /\ pc[r] \in {"insertUser", "updateUser", "deleteUser"} =>
                        job[r].now >= 1 /\ job[r].now <= Rounded(clock)
                 /\ pc[r] \in {"updateUser", "deleteUser"} /\ job[r].id \in Ids =>
                        users[job[r].id].ctime <= job[r].now
AddressInv(r) == /\ job[r].billto \in addresses \cup {None}
                 /\ job[r].shipto \in addresses \cup {None}
                 /\ pc[r] = "selectBillTo" => job[r].billto # None
                 /\ pc[r] = "selectShipTo" => job[r].shipto # None
                 /\ pc[r] = "selectAddress" => job[r].id \in addresses \cup {Unknown}
MissingInv(r) == /\ pc[r] = "selectUser" => job[r].id \in Ids \cup {Unknown}
                 /\ pc[r] = "missing" => job[r].id = Unknown
DeletedInv(r) == pc[r] = "notdeleted" /\ job[r].id \in Ids =>
                     IsUser(job[r].id) /\ users[job[r].id].dtime # 0

RequestInv(r) ==
    /\ BodyInv(r) /\ DrawnInv(r) /\ CalledInv(r) /\ FoundInv(r)
    /\ TimeInv(r) /\ AddressInv(r) /\ MissingInv(r) /\ DeletedInv(r)

IInv ==
    /\ TypeOK /\ ClockInv /\ UsersInv /\ ContactsInv
    /\ \A r \in Requests : RequestInv(r)
-----------------------------------------------------------------------------
\* Nothing is lost: what every step does to what others know.
Grows ==
    /\ clock' \in Nat /\ clock' >= clock
    /\ addresses \subseteq addresses'
    /\ \A i \in Ids : IsUser(i) => /\ IsUser(i)'
                                   /\ users'[i].ctime = users[i].ctime
                                   /\ users[i].dtime # 0 => users'[i].dtime # 0

\* Times, in seconds.
LEMMA Seconds ==
    ASSUME NEW t \in Nat
    PROVE  /\ Rounded(t) \in Nat /\ Truncated(t) \in Nat
           /\ Truncated(t) + 1 >= Rounded(t)
           /\ t >= 2 => Rounded(t) >= 1
           /\ \A s \in Nat : s >= t => Rounded(s) >= Rounded(t)
  BY DEF Rounded, Truncated

\* What is known of a request stays known while its variables do.
LEMMA Kept ==
    ASSUME TypeOK, Grows, NEW r \in Requests, RequestInv(r),
           pc'[r] = pc[r], job'[r] = job[r]
    PROVE  RequestInv(r)'
<1>1. BodyInv(r)' /\ DrawnInv(r)' /\ AddressInv(r)' /\ MissingInv(r)'
  BY DEF RequestInv, Grows, BodyInv, DrawnInv, AddressInv, MissingInv
<1>2. CalledInv(r)' /\ FoundInv(r)'
  BY DEF RequestInv, Grows, CalledInv, FoundInv, IsUser
<1>3. TimeInv(r)'
  <2>1. Rounded(clock') \in Nat /\ Rounded(clock) \in Nat /\ Rounded(clock') >= Rounded(clock)
    BY Seconds DEF TypeOK, Grows
  <2>2. Rounded(clock)' = Rounded(clock')
    BY DEF Rounded
  <2>3. job[r].now \in Nat
    BY DEF TypeOK, Jobs
  <2>4. pc[r] \in {"insertUser", "updateUser", "deleteUser"} =>
            job[r].now >= 1 /\ job[r].now <= Rounded(clock')
    BY <2>1, <2>3 DEF RequestInv, TimeInv
  <2>5. pc[r] \in {"updateUser", "deleteUser"} /\ job[r].id \in Ids =>
            users'[job[r].id].ctime <= job[r].now
    BY DEF RequestInv, TimeInv, CalledInv, Grows
  <2>6. QED
    BY <2>2, <2>4, <2>5 DEF TimeInv
<1>4. DeletedInv(r)'
  BY DEF RequestInv, DeletedInv, Grows
<1>5. QED
  BY <1>1, <1>2, <1>3, <1>4 DEF RequestInv

\* The variables of the requests after a step of r.
StepOK(r) ==
    /\ pc' \in [Requests -> {"idle"} \cup Statements \cup Outcomes]
    /\ job' \in [Requests -> Jobs]
    /\ \A q \in Requests \ {r} : pc'[q] = pc[q] /\ job'[q] = job[q]

\* The tables and the clock after a step.
TablesOK ==
    /\ Grows /\ ClockInv' /\ UsersInv' /\ ContactsInv'
    /\ users'     \in [Ids -> Rows \cup {None}]
    /\ contacts'  \in [Ids -> ContactRows \cup {None}]
    /\ addresses' \in SUBSET AddressIds

\* A step of r preserves the invariant when it does so for r and the tables.
LEMMA Step ==
    ASSUME IInv, NEW r \in Requests, StepOK(r), TablesOK, RequestInv(r)'
    PROVE  IInv'
<1>1. TypeOK'
  BY DEF StepOK, TablesOK, Grows, TypeOK
<1>2. ASSUME NEW q \in Requests
      PROVE  RequestInv(q)'
  <2>1. CASE q = r
    BY <2>1
  <2>2. CASE q # r
    BY <2>2, Kept DEF IInv, StepOK, TablesOK
  <2>3. QED
    BY <2>1, <2>2
<1>3. QED
  BY <1>1, <1>2 DEF IInv, TablesOK

\* Tables and clock that stay as they are.
LEMMA Untouched ==
    ASSUME IInv, UNCHANGED <<clock, tables>>
    PROVE  TablesOK
<1>1. Grows
  BY DEF Grows, IInv, TypeOK, tables, IsUser
<1>2. ClockInv' /\ UsersInv' /\ ContactsInv'
  BY DEF IInv, ClockInv, UsersInv, ContactsInv, tables, IsUser, HasContact, RowInv, Rounded
<1>3. QED
  BY <1>1, <1>2 DEF TablesOK, IInv, TypeOK, tables

\* What may be written over row i.
Writable(i, v) ==
    /\ v \in Rows /\ RowInv(v)
    /\ v.ctime <= Rounded(clock)
    /\ IsUser(i) => /\ v.ctime = users[i].ctime
                    /\ users[i].dtime # 0 => v.dtime # 0

LEMMA RowWritten ==
    ASSUME IInv, NEW i \in Ids, NEW v, Writable(i, v),
           users' = [users EXCEPT ![i] = v], UNCHANGED <<clock, contacts, addresses>>
    PROVE  TablesOK /\ IsUser(i)' /\ users'[i] = v
<1>1. /\ users' \in [Ids -> Rows \cup {None}]
      /\ \A q \in Ids : users'[q] = IF q = i THEN v ELSE users[q]
      /\ v # None
  BY NoneNoRow DEF IInv, TypeOK, Writable
<1>2. \A q \in Ids : IsUser(q)' <=> q = i \/ IsUser(q)
  BY <1>1 DEF IsUser
<1>3. Grows
  BY <1>1, <1>2 DEF Grows, IInv, TypeOK, Writable
<1>4. ClockInv' /\ ContactsInv'
  BY DEF IInv, ClockInv, ContactsInv, HasContact
<1>5. UsersInv'
  <2>1. ASSUME NEW q \in Ids, IsUser(q)'
        PROVE  (RowInv(users[q]) /\ users[q].ctime <= Rounded(clock))'
    <3>1. CASE q = i
      BY <1>1, <3>1 DEF Writable, RowInv, Rounded
    <3>2. CASE q # i
      BY <1>1, <1>2, <2>1, <3>2 DEF IInv, UsersInv, RowInv, Rounded
    <3>3. QED
      BY <3>1, <3>2
  <2>2. QED
    BY <2>1 DEF UsersInv
<1>6. QED
  BY <1>1, <1>2, <1>3, <1>4, <1>5 DEF TablesOK, IInv, TypeOK
-----------------------------------------------------------------------------
(* Requests: where they go and what they know there.                       *)

LEMMA NoJobType ==
    /\ NoJob \in Jobs
    /\ \A i \in Ids \cup AddressIds \cup {Unknown, None} : [NoJob EXCEPT !.id = i] \in Jobs
  BY DEF NoJob, Jobs, Reaches

\* A request that goes on.
LEMMA Continues ==
    ASSUME TypeOK, NEW r \in Requests, NEW l \in {"idle"} \cup Statements, NEW j \in Jobs,
           Continue(r, l, j)
    PROVE  StepOK(r) /\ pc'[r] = l /\ job'[r] = j
<1>1. l \notin Outcomes
  BY DEF Statements, Outcomes
<1>2. pc' = [pc EXCEPT ![r] = l] /\ job' = [job EXCEPT ![r] = j]
  BY <1>1 DEF Continue, Outcomes
<1>3. QED
  BY <1>2 DEF StepOK, TypeOK

\* One that ends: only the uuid may be kept.
LEMMA Concludes ==
    ASSUME TypeOK, NEW r \in Requests, NEW l \in Outcomes, NEW j \in Jobs, Continue(r, l, j)
    PROVE  /\ StepOK(r) /\ pc'[r] = l
           /\ job'[r] = IF l \in {"missing", "notdeleted"} THEN [NoJob EXCEPT !.id = j.id]
                                                           ELSE NoJob
<1> DEFINE k == IF l \in {"missing", "notdeleted"} THEN [NoJob EXCEPT !.id = j.id] ELSE NoJob
<1>1. k \in Jobs
  BY NoJobType DEF Jobs
<1>2. pc' = [pc EXCEPT ![r] = l] /\ job' = [job EXCEPT ![r] = k]
  BY DEF Continue, Outcomes
<1> HIDE DEF k
<1>3. StepOK(r) /\ pc'[r] = l /\ job'[r] = k
  BY <1>1, <1>2 DEF StepOK, TypeOK
<1>4. QED
  BY <1>3 DEF k

\* An outcome that says nothing of a row.
LEMMA Ends ==
    ASSUME TypeOK, NEW r \in Requests, NEW j \in Jobs,
           NEW l \in Outcomes \ {"missing", "notdeleted"}, Continue(r, l, j)
    PROVE  StepOK(r) /\ RequestInv(r)'
<1>1. StepOK(r) /\ pc'[r] = l /\ job'[r] = NoJob
  BY Concludes
<1>2. job'[r].billto = None /\ job'[r].shipto = None
  BY <1>1 DEF NoJob
<1>3. RequestInv(r)'
  BY <1>1, <1>2
     DEF RequestInv, BodyInv, DrawnInv, CalledInv, FoundInv, TimeInv, AddressInv, MissingInv,
         DeletedInv, Outcomes
<1>4. QED
  BY <1>1, <1>3

LEMMA GoesOut ==
    ASSUME TypeOK, NEW r \in Requests,
           NEW l \in Outcomes \ {"missing", "notdeleted"}, Goto(r, l)
    PROVE  StepOK(r) /\ RequestInv(r)'
  BY Ends DEF Goto, TypeOK

\* What a request has still to read, or has never read.
LEMMA Unread ==
    ASSUME IInv, NEW r \in Requests
    PROVE  /\ job[r] \in Jobs
           /\ job[r].billto \in addresses \cup {None}
           /\ job[r].shipto \in addresses \cup {None}
  BY DEF IInv, TypeOK, RequestInv, AddressInv

\* An outcome that changes nothing, and the answer.
LEMMA Quits ==
    ASSUME IInv, NEW r \in Requests, UNCHANGED <<clock, tables>>,
           NEW l \in Outcomes \ {"missing", "notdeleted"}, Goto(r, l)
    PROVE  IInv'
  BY GoesOut, Untouched, Step DEF IInv

LEMMA ReplyStep ==
    ASSUME IInv, NEW r \in Requests, Reply(r)
    PROVE  IInv'
<1>1. StepOK(r) /\ pc'[r] = "idle" /\ job'[r] = NoJob
  BY Continues, NoJobType DEF Reply, IInv
<1>2. RequestInv(r)'
  BY <1>1 DEF NoJob, RequestInv, BodyInv, DrawnInv, CalledInv, FoundInv, TimeInv, AddressInv,
              MissingInv, DeletedInv
<1>3. QED
  BY <1>1, <1>2, Untouched, Step DEF Reply
-----------------------------------------------------------------------------
(* Arrivals.                                                               *)

\* A call whose job j is right for the statement l.
LEMMA Calls ==
    ASSUME IInv, NEW r \in Requests, NEW l \in Statements, NEW j \in Jobs, Call(r, l, j),
           j.billto = None, j.shipto = None,
           l \in {"drawUuid", "updateUser"} => j.reach # {} /\ j.name \in Names,
           l \in {"updateUser", "deleteUser", "selectUser", "updateContact"} =>
               j.id \in UserIds,
           l \in {"updateUser", "deleteUser"} => j.now = Rounded(clock),
           l = "selectAddress" => j.id \in addresses \cup {Unknown},
           l \in {"drawUuid", "updateUser", "deleteUser", "selectUser", "updateContact",
                  "insertAddress", "updateAddress", "selectAddress"}
    PROVE  IInv'
<1>1. StepOK(r) /\ pc'[r] = l /\ job'[r] = j /\ UNCHANGED <<clock, tables>>
  BY Continues DEF Call, IInv
<1>2. clock \in Nat /\ Rounded(clock) \in Nat /\ Rounded(clock) >= 1
  BY Seconds DEF IInv, TypeOK, ClockInv
<1>3. j.id \in UserIds => (j.id \in Ids => IsUser(j.id)) /\ j.id \in Ids \cup {Unknown}
  BY UnknownElse DEF UserIds
<1>4. BodyInv(r)' /\ DrawnInv(r)' /\ AddressInv(r)' /\ MissingInv(r)' /\ DeletedInv(r)'
  BY <1>1, <1>3 DEF BodyInv, DrawnInv, AddressInv, MissingInv, DeletedInv, tables
<1>5. CalledInv(r)' /\ FoundInv(r)'
  BY <1>1, <1>3 DEF CalledInv, FoundInv, IsUser, tables
<1>6. TimeInv(r)'
  BY <1>1, <1>2, <1>3 DEF TimeInv, IInv, UsersInv, Rounded, tables
<1>7. QED
  BY <1>1, <1>4, <1>5, <1>6, Untouched, Step DEF RequestInv

\* The jobs calls come with.
LEMMA CallJobs ==
    ASSUME IInv, NEW i \in Ids \cup AddressIds \cup {Unknown, None},
           NEW f \in {"user", "contact", "address"}, NEW n \in Names, NEW c \in Reaches
    PROVE  /\ Job(f, i) \in Jobs /\ Job(f, i).id = i
           /\ Job(f, i).billto = None /\ Job(f, i).shipto = None
           /\ Timed(i) \in Jobs /\ Timed(i).id = i /\ Timed(i).now = Rounded(clock)
           /\ Timed(i).billto = None /\ Timed(i).shipto = None
           /\ Body(i, n, c) \in Jobs /\ Body(i, n, c).id = i
           /\ Body(i, n, c).now = Rounded(clock)
           /\ Body(i, n, c).reach = c /\ Body(i, n, c).name = n
           /\ Body(i, n, c).billto = None /\ Body(i, n, c).shipto = None
<1>1. Rounded(clock) \in Nat
  BY Seconds DEF IInv, TypeOK
<1>2. Job(f, i) \in Jobs /\ Job(f, i).id = i
      /\ Job(f, i).billto = None /\ Job(f, i).shipto = None
  BY NoJobType DEF Job, NoJob, Jobs
<1>3. Job("user", i) \in Jobs /\ Job("user", i).id = i
      /\ Job("user", i).billto = None /\ Job("user", i).shipto = None
  BY NoJobType DEF Job, NoJob, Jobs
<1>4. Timed(i) \in Jobs /\ Timed(i).id = i /\ Timed(i).now = Rounded(clock)
      /\ Timed(i).billto = None /\ Timed(i).shipto = None
  BY <1>1, <1>3 DEF Timed, Jobs
<1>5. Body(i, n, c) \in Jobs /\ Body(i, n, c).id = i /\ Body(i, n, c).now = Rounded(clock)
      /\ Body(i, n, c).reach = c /\ Body(i, n, c).name = n
      /\ Body(i, n, c).billto = None /\ Body(i, n, c).shipto = None
  BY <1>4 DEF Body, Jobs
<1>6. QED
  BY <1>2, <1>4, <1>5

LEMMA ArriveStep ==
    ASSUME IInv, NEW r \in Requests, Arrive(r)
    PROVE  IInv'
<1>1. /\ UserIds \subseteq Ids \cup {Unknown}
      /\ NoJob \in Jobs /\ "undeliverable" \in Outcomes \ {"missing", "notdeleted"}
      /\ addresses \subseteq AddressIds
  BY NoJobType DEF UserIds, Outcomes, IInv, TypeOK
<1>2. Call(r, "undeliverable", NoJob) => IInv'
  BY <1>1, Ends, Untouched, Step DEF Call, IInv
<1>3. ASSUME PostUser(r)
      PROVE  IInv'
  <2>1. PICK n \in Names, c \in Reaches :
            IF c = {} THEN Call(r, "undeliverable", NoJob)
            ELSE Call(r, "drawUuid", [Job("user", None) EXCEPT !.name = n, !.reach = c])
    BY <1>3 DEF PostUser
  <2>2. CASE c # {}
    <3> DEFINE j == [Job("user", None) EXCEPT !.name = n, !.reach = c]
    <3>1. Job("user", None) \in Jobs
          /\ Job("user", None).billto = None /\ Job("user", None).shipto = None
      BY CallJobs
    <3>2. j \in Jobs /\ j.name = n /\ j.reach = c /\ j.billto = None /\ j.shipto = None
      BY <3>1 DEF Jobs
    <3>3. Call(r, "drawUuid", j)
      BY <2>1, <2>2
    <3> HIDE DEF j
    <3>4. QED
      BY <2>2, <3>2, <3>3, Calls DEF Statements
  <2>3. QED
    BY <1>2, <2>1, <2>2
<1>4. ASSUME PatchUser(r)
      PROVE  IInv'
  <2>1. PICK i \in UserIds, n \in Names, c \in Reaches :
            IF c = {} THEN Call(r, "undeliverable", NoJob)
            ELSE Call(r, "updateUser", Body(i, n, c))
    BY <1>4 DEF PatchUser
  <2>2. CASE c # {}
    BY <1>1, <2>1, <2>2, CallJobs, Calls DEF Statements
  <2>3. QED
    BY <1>2, <2>1, <2>2
<1>5. ASSUME NEW i \in UserIds, Call(r, "deleteUser", Timed(i))
      PROVE  IInv'
  <2>1. /\ Timed(i) \in Jobs /\ Timed(i).id = i /\ Timed(i).now = Rounded(clock)
        /\ Timed(i).billto = None /\ Timed(i).shipto = None
    <3>1. Rounded(clock) \in Nat /\ i \in Ids \cup AddressIds \cup {Unknown, None}
      BY <1>1, Seconds DEF IInv, TypeOK
    <3>2. Job("user", i) \in Jobs /\ Job("user", i).id = i
          /\ Job("user", i).billto = None /\ Job("user", i).shipto = None
      BY <3>1, NoJobType DEF Job, NoJob, Jobs
    <3>3. QED
      BY <3>1, <3>2 DEF Timed, Jobs
  <2>2. QED
    BY <1>5, <2>1, Calls DEF Statements
<1>6. ASSUME NEW i \in UserIds, NEW f \in {"user", "contact"},
             NEW l \in {"selectUser", "updateContact"}, Call(r, l, Job(f, i))
      PROVE  IInv'
  <2>1. /\ Job(f, i) \in Jobs /\ Job(f, i).id = i
        /\ Job(f, i).billto = None /\ Job(f, i).shipto = None
    BY <1>1, NoJobType DEF Job, NoJob, Jobs
  <2>2. QED
    BY <1>6, <2>1, Calls DEF Statements
<1>7. ASSUME NEW a \in addresses \cup {Unknown, None},
             NEW l \in {"insertAddress", "updateAddress", "selectAddress"},
             a = None => l = "insertAddress", Call(r, l, Job("address", a))
      PROVE  IInv'
  <2>1. /\ Job("address", a) \in Jobs /\ Job("address", a).id = a
        /\ Job("address", a).billto = None /\ Job("address", a).shipto = None
    BY <1>1, NoJobType DEF Job, NoJob, Jobs
  <2>2. a # None => a \in addresses \cup {Unknown}
    OBVIOUS
  <2>3. QED
    BY <1>7, <2>1, <2>2, Calls DEF Statements
<1>8. CASE DeleteUser(r) \/ GetUser(r) \/ CreateContact(r) \/ PatchContact(r)
  BY <1>5, <1>6, <1>8 DEF DeleteUser, GetUser, CreateContact, PatchContact
<1>9. CASE PostAddress(r) \/ PatchAddress(r) \/ GetAddress(r)
  <2>1. UNCHANGED addresses /\ \A a \in addresses \cup {Unknown} : a # None
    BY <1>1, <1>9, NoneElse, UnknownElse DEF PostAddress, PatchAddress, GetAddress, Call, tables
  <2>2. QED
    BY <1>7, <1>9, <2>1 DEF PostAddress, PatchAddress, GetAddress
<1>10. QED
  BY <1>3, <1>4, <1>8, <1>9 DEF Arrive
-----------------------------------------------------------------------------
(* Statements on users.                                                    *)

\* What is known of a request at its statement.
LEMMA AtStatement ==
    ASSUME IInv, NEW r \in Requests
    PROVE  /\ job[r] \in Jobs /\ RequestInv(r) /\ TypeOK
           /\ job[r].now \in Nat /\ job[r].reach \in Reaches
           /\ pc[r] = "insertUser" => job[r].id \in Ids /\ job[r].name \in Names
  BY DEF IInv, TypeOK, RequestInv, DrawnInv, BodyInv, Jobs

LEMMA DrawStep ==
    ASSUME IInv, NEW r \in Requests, NEW i \in Ids, Draw(r, i)
    PROVE  IInv'
<1> DEFINE j == [job[r] EXCEPT !.id = i, !.now = Rounded(clock)]
<1>1. clock \in Nat /\ Rounded(clock) \in Nat /\ Rounded(clock) >= 1
  BY Seconds DEF IInv, TypeOK, ClockInv
<1>2. /\ j \in Jobs /\ j.id = i /\ j.now = Rounded(clock)
      /\ j.reach = job[r].reach /\ j.name = job[r].name
      /\ j.billto = job[r].billto /\ j.shipto = job[r].shipto
  BY <1>1, AtStatement DEF Jobs
<1>3. Continue(r, "insertUser", j) /\ UNCHANGED <<clock, tables>> /\ pc[r] = "drawUuid"
  BY DEF Draw, At
<1> HIDE DEF j
<1>4. StepOK(r) /\ pc'[r] = "insertUser" /\ job'[r] = j
  BY <1>2, <1>3, Continues DEF Statements, IInv
<1>5. BodyInv(r)' /\ DrawnInv(r)' /\ CalledInv(r)' /\ FoundInv(r)' /\ MissingInv(r)'
          /\ DeletedInv(r)'
  BY <1>2, <1>3, <1>4, AtStatement
     DEF RequestInv, BodyInv, DrawnInv, CalledInv, FoundInv, MissingInv, DeletedInv
<1>6. TimeInv(r)'
  BY <1>1, <1>2, <1>3, <1>4 DEF TimeInv, Rounded
<1>7. AddressInv(r)'
  BY <1>2, <1>3, <1>4, Unread DEF AddressInv, tables
<1>8. QED
  BY <1>3, <1>4, <1>5, <1>6, <1>7, Untouched, Step DEF RequestInv

\* The row AddUser inserts.
LEMMA NewUserWritable ==
    ASSUME IInv, NEW r \in Requests, pc[r] = "insertUser", ~IsUser(job[r].id)
    PROVE  Writable(job[r].id, NewUser(job[r]))
<1> DEFINE j == job[r]
<1>1. /\ j.now \in Nat /\ j.reach \in Reaches /\ j.name \in Names /\ j.reach # {}
      /\ j.now <= Rounded(clock)
  BY AtStatement DEF RequestInv, BodyInv, TimeInv
<1> HIDE DEF j
<1>2. NewUser(j) \in Rows /\ RowInv(NewUser(j)) /\ NewUser(j).ctime <= Rounded(clock)
  BY <1>1 DEF NewUser, Rows, RowInv
<1>3. QED
  BY <1>2 DEF Writable, j

LEMMA InsertUserStep ==
    ASSUME IInv, NEW r \in Requests, InsertUser(r)
    PROVE  IInv'
<1> DEFINE j      == job[r]
           k      == [j EXCEPT !.id = None, !.now = 0]
           insert == /\ ~IsUser(j.id)
                     /\ users' = [users EXCEPT ![j.id] = NewUser(j)]
                     /\ UNCHANGED <<contacts, addresses>>
<1>1. pc[r] = "insertUser" /\ j.id \in Ids /\ j \in Jobs
  BY AtStatement DEF InsertUser, At
<1>2. UNCHANGED clock
  BY DEF InsertUser, Fails
<1>3. insert => TablesOK
  BY <1>1, <1>2, NewUserWritable, RowWritten
<1>4. ASSUME Continue(r, "drawUuid", k), UNCHANGED <<clock, tables>>
      PROVE  IInv'
  <2>1. /\ k \in Jobs /\ k.reach = j.reach /\ k.name = j.name
        /\ k.billto = j.billto /\ k.shipto = j.shipto
    BY <1>1 DEF Jobs
  <2>2. j.reach # {} /\ j.name \in Names
    BY <1>1, AtStatement DEF RequestInv, BodyInv
  <2> HIDE DEF k
  <2>3. StepOK(r) /\ pc'[r] = "drawUuid" /\ job'[r] = k
    BY <1>4, <2>1, Continues DEF Statements, IInv
  <2>4. AddressInv(r)'
    BY <1>4, <2>1, <2>3, Unread DEF AddressInv, tables
  <2>5. RequestInv(r)'
    BY <2>1, <2>2, <2>3, <2>4
       DEF RequestInv, BodyInv, DrawnInv, CalledInv, FoundInv, TimeInv, MissingInv, DeletedInv
  <2>6. QED
    BY <1>4, <2>3, <2>5, Untouched, Step
<1>5. ASSUME NEW l \in {"ok", "exists", "error"}, Goto(r, l),
             insert \/ UNCHANGED <<clock, tables>>
      PROVE  IInv'
  <2>1. StepOK(r) /\ RequestInv(r)'
    BY <1>5, GoesOut DEF Outcomes, IInv
  <2>2. TablesOK
    BY <1>3, <1>5, Untouched
  <2>3. QED
    BY <2>1, <2>2, Step
<1>6. \/ insert /\ Goto(r, "ok")
      \/ Continue(r, "drawUuid", k) /\ UNCHANGED <<clock, tables>>
      \/ Goto(r, "exists") /\ UNCHANGED <<clock, tables>>
      \/ (insert \/ UNCHANGED <<clock, tables>>) /\ Goto(r, "error")
  BY <1>2 DEF InsertUser, Fails
<1>7. QED
  BY <1>4, <1>5, <1>6

\* An UPDATE of a user: the row is written, or left alone.
LEMMA UpdateRowTables ==
    ASSUME IInv, NEW r \in Requests, NEW v, NEW none, UpdateRow(r, v, none),
           job[r].id \in Ids /\ IsUser(job[r].id) => Writable(job[r].id, v)
    PROVE  /\ TablesOK
           /\ \/ \E l \in {"ok", "error"} : Goto(r, l)
              \/ /\ Goto(r, none)
                 /\ ~Changes(job[r].id, v)
                 /\ UNCHANGED <<clock, tables>>
<1> DEFINE i == job[r].id
<1>1. CASE /\ IsUser(i)
           /\ users' = [users EXCEPT ![i] = v]
           /\ UNCHANGED <<clock, contacts, addresses>>
           /\ \E l \in {"ok", "error"} : Goto(r, l)
  BY <1>1, RowWritten DEF IsUser
<1>2. CASE /\ UNCHANGED <<clock, tables>>
           /\ \/ Goto(r, "error")
              \/ Goto(r, none) /\ ~Changes(i, v)
  BY <1>2, Untouched
<1>3. QED
  BY <1>1, <1>2 DEF UpdateRow, Changes, Fails

LEMMA UpdateUserStep ==
    ASSUME IInv, NEW r \in Requests, UpdateUser(r)
    PROVE  IInv'
<1> DEFINE j == job[r]
<1>1. CASE Goto(r, "error") /\ UNCHANGED <<clock, tables>>
  BY <1>1, Quits DEF Outcomes
<1>2. CASE UpdateRow(r, IF IsUser(j.id) THEN Updated(j) ELSE None, "notupdated")
  <2>1. ASSUME j.id \in Ids, IsUser(j.id)
        PROVE  Writable(j.id, Updated(j))
    <3>1. /\ j.now \in Nat /\ j.reach \in Reaches /\ j.name \in Names /\ j.reach # {}
          /\ users[j.id].ctime <= j.now
      BY <2>1, AtStatement DEF UpdateUser, At, RequestInv, BodyInv, TimeInv
    <3>2. users[j.id] \in Rows /\ RowInv(users[j.id]) /\ users[j.id].ctime <= Rounded(clock)
      BY <2>1 DEF IInv, TypeOK, UsersInv, IsUser
    <3> DEFINE v == Updated(j)
    <3>3. /\ v \in Rows /\ v.reach = j.reach /\ v.mtime = j.now
          /\ v.ctime = users[j.id].ctime /\ v.dtime = users[j.id].dtime
      BY <3>1, <3>2 DEF Updated, Rows
    <3>4. users[j.id].ctime \in Nat /\ users[j.id].dtime \in Nat
      BY <3>2 DEF Rows
    <3> HIDE DEF v
    <3>5. RowInv(v)
      BY <3>1, <3>2, <3>3, <3>4 DEF RowInv
    <3>6. QED
      BY <3>2, <3>3, <3>5 DEF Writable, v
  <2>2. TablesOK /\ \E l \in {"ok", "error", "notupdated"} : Goto(r, l)
    BY <1>2, <2>1, UpdateRowTables
  <2>3. QED
    BY <2>2, GoesOut, Step DEF Outcomes, IInv
<1>3. QED
  BY <1>1, <1>2 DEF UpdateUser

LEMMA SetDTimeStep ==
    ASSUME IInv, NEW r \in Requests, SetDTime(r)
    PROVE  IInv'
<1> DEFINE j == job[r]
           v == IF IsUser(j.id) THEN [users[j.id] EXCEPT !.dtime = j.now] ELSE None
<1>1. /\ pc[r] = "deleteUser" /\ UpdateRow(r, v, "notdeleted")
      /\ j.now \in Nat /\ j.now >= 1
      /\ j.id \in Ids => IsUser(j.id) /\ users[j.id].ctime <= j.now
  BY AtStatement DEF SetDTime, At, RequestInv, TimeInv, CalledInv
<1>2. ASSUME j.id \in Ids, IsUser(j.id)
      PROVE  Writable(j.id, v) /\ v.dtime = j.now
  <2>1. users[j.id] \in Rows /\ RowInv(users[j.id]) /\ users[j.id].ctime <= Rounded(clock)
    BY <1>2 DEF IInv, TypeOK, UsersInv, IsUser
  <2>2. /\ v \in Rows /\ v.reach = users[j.id].reach /\ v.mtime = users[j.id].mtime
        /\ v.ctime = users[j.id].ctime /\ v.dtime = j.now
    BY <1>1, <1>2, <2>1 DEF Rows
  <2> HIDE DEF v
  <2>3. RowInv(v)
    BY <1>1, <1>2, <2>1, <2>2 DEF RowInv
  <2>4. QED
    BY <1>1, <2>1, <2>2, <2>3 DEF Writable
<1> HIDE DEF v
<1>3. /\ TablesOK
      /\ \/ \E l \in {"ok", "error"} : Goto(r, l)
         \/ Goto(r, "notdeleted") /\ ~Changes(j.id, v) /\ UNCHANGED <<clock, tables>>
  BY <1>1, <1>2, UpdateRowTables
<1>4. CASE \E l \in {"ok", "error"} : Goto(r, l)
  BY <1>3, <1>4, GoesOut, Step DEF Outcomes, IInv
<1>5. CASE Goto(r, "notdeleted") /\ ~Changes(j.id, v) /\ UNCHANGED <<clock, tables>>
  <2>1. StepOK(r) /\ pc'[r] = "notdeleted" /\ job'[r] = [NoJob EXCEPT !.id = j.id]
    BY <1>5, AtStatement, Concludes DEF Goto, Outcomes
  <2>2. /\ job'[r].id = j.id /\ job'[r].billto = None /\ job'[r].shipto = None
    BY <2>1 DEF NoJob
  <2>3. j.id \in Ids => users[j.id].dtime # 0
    BY <1>1, <1>2, <1>5 DEF Changes
  <2>4. RequestInv(r)'
    BY <1>1, <1>5, <2>1, <2>2, <2>3
       DEF RequestInv, BodyInv, DrawnInv, CalledInv, FoundInv, TimeInv, AddressInv, MissingInv,
           DeletedInv, IsUser, tables
  <2>5. QED
    BY <1>3, <2>1, <2>4, Step
<1>6. QED
  BY <1>3, <1>4, <1>5

\* A step of no request that leaves the tables well.
LEMMA TablesStep ==
    ASSUME IInv, TablesOK, UNCHANGED <<pc, job>>
    PROVE  IInv'
<1>1. TypeOK'
  BY DEF TablesOK, Grows, IInv, TypeOK
<1>2. \A r \in Requests : RequestInv(r)'
  BY Kept DEF IInv, TablesOK
<1>3. QED
  BY <1>1, <1>2 DEF IInv, TablesOK

LEMMA BasicAuthWritesStep ==
    ASSUME IInv, NEW i \in Ids, BasicAuthWrites(i)
    PROVE  IInv'
<1> DEFINE v == [users[i] EXCEPT !.mtime = Truncated(clock)]
<1>1. users[i] \in Rows /\ RowInv(users[i]) /\ users[i].ctime <= Rounded(clock)
  BY DEF BasicAuthWrites, IInv, TypeOK, UsersInv, IsUser
<1>2. /\ Truncated(clock) \in Nat /\ Rounded(clock) \in Nat
      /\ Truncated(clock) + 1 >= Rounded(clock)
  BY Seconds DEF IInv, TypeOK
<1>3. /\ v \in Rows /\ v.reach = users[i].reach /\ v.mtime = Truncated(clock)
      /\ v.ctime = users[i].ctime /\ v.dtime = users[i].dtime
  BY <1>1, <1>2 DEF Rows
<1>4. users' = [users EXCEPT ![i] = v] /\ UNCHANGED <<clock, contacts, addresses, pc, job>>
  BY DEF BasicAuthWrites
<1>5. v.ctime \in Nat /\ v.dtime \in Nat
  BY <1>3 DEF Rows
<1> HIDE DEF v
<1>6. Writable(i, v)
  BY <1>1, <1>2, <1>3, <1>5 DEF Writable, RowInv
<1>7. QED
  BY <1>4, <1>6, RowWritten, TablesStep

LEMMA TickStep ==
    ASSUME IInv, Tick
    PROVE  IInv'
<1>1. clock \in Nat /\ clock' = clock + 1 /\ UNCHANGED tables /\ UNCHANGED <<pc, job>>
  BY DEF Tick, IInv, TypeOK
<1>2. /\ Rounded(clock) \in Nat /\ Rounded(clock') \in Nat
      /\ Rounded(clock') >= Rounded(clock) /\ Rounded(clock)' = Rounded(clock')
  BY <1>1, Seconds DEF Rounded
<1>3. Grows /\ ClockInv' /\ ContactsInv'
  BY <1>1 DEF Grows, ClockInv, ContactsInv, IInv, TypeOK, tables, IsUser, HasContact
<1>4. UsersInv'
  <2>1. ASSUME NEW i \in Ids, IsUser(i)
        PROVE  RowInv(users[i]) /\ users[i].ctime <= Rounded(clock')
    <3>1. users[i].ctime \in Nat /\ RowInv(users[i]) /\ users[i].ctime <= Rounded(clock)
      BY <2>1 DEF IInv, UsersInv, TypeOK, Rows, IsUser
    <3>2. QED
      BY <1>2, <3>1
  <2>2. QED
    BY <1>1, <1>2, <2>1 DEF UsersInv, IsUser, tables, RowInv
<1>5. TablesOK
  BY <1>1, <1>3, <1>4 DEF TablesOK, IInv, TypeOK, tables
<1>6. QED
  BY <1>1, <1>5, TablesStep

LEMMA CrashStep ==
    ASSUME IInv, ServerCrashes
    PROVE  IInv'
<1>1. TablesOK
  BY Untouched DEF ServerCrashes
<1>2. TypeOK'
  BY <1>1, NoJobType DEF ServerCrashes, TablesOK, Grows, IInv, TypeOK
<1>3. ASSUME NEW q \in Requests
      PROVE  RequestInv(q)'
  <2>1. pc'[q] = "idle" /\ job'[q].billto = None /\ job'[q].shipto = None
    BY DEF ServerCrashes, NoJob
  <2>2. QED
    BY <2>1 DEF RequestInv, BodyInv, DrawnInv, CalledInv, FoundInv, TimeInv, AddressInv,
                MissingInv, DeletedInv
<1>4. QED
  BY <1>1, <1>2, <1>3 DEF IInv, TablesOK
-----------------------------------------------------------------------------
(* Reads.                                                                  *)

\* A SELECT after which r goes on to l with job j, or is done, or fails.
LEMMA Reads ==
    ASSUME IInv, NEW r \in Requests, NEW j \in Jobs,
           NEW l \in {"selectContact", "selectBillTo", "selectShipTo", "insertContact",
                      "ok", "missing"}, Read(r, l, j),
           l \in {"selectContact", "selectBillTo", "selectShipTo", "insertContact"} =>
               IsUser(j.id),
           l = "missing" => j.id = Unknown,
           j.billto \in addresses \cup {None}, j.shipto \in addresses \cup {None},
           l = "selectBillTo" => j.billto # None, l = "selectShipTo" => j.shipto # None
    PROVE  IInv'
<1>1. UNCHANGED <<clock, tables>>
  BY DEF Read
<1>2. CASE Goto(r, "error")
  BY <1>1, <1>2, Quits DEF Outcomes
<1>3. CASE Continue(r, l, j) /\ l = "ok"
  BY <1>1, <1>3, Ends, Untouched, Step DEF Outcomes, IInv
<1>4. CASE Continue(r, l, j) /\ l = "missing"
  <2>1. StepOK(r) /\ pc'[r] = "missing" /\ job'[r] = [NoJob EXCEPT !.id = j.id]
    BY <1>4, Concludes DEF Outcomes, IInv
  <2>2. /\ job'[r].id = j.id /\ job'[r].billto = None /\ job'[r].shipto = None
    BY <2>1 DEF NoJob
  <2>3. RequestInv(r)'
    BY <1>4, <2>1, <2>2
       DEF RequestInv, BodyInv, DrawnInv, CalledInv, FoundInv, TimeInv, AddressInv, MissingInv,
           DeletedInv
  <2>4. QED
    BY <1>1, <2>1, <2>3, Untouched, Step
<1>5. CASE Continue(r, l, j) /\ l \notin {"ok", "missing"}
  <2>1. StepOK(r) /\ pc'[r] = l /\ job'[r] = j
    BY <1>5, Continues DEF Statements, IInv
  <2>2. AddressInv(r)' /\ FoundInv(r)'
    BY <1>1, <1>5, <2>1 DEF AddressInv, FoundInv, IsUser, tables
  <2>3. RequestInv(r)'
    BY <1>5, <2>1, <2>2
       DEF RequestInv, BodyInv, DrawnInv, CalledInv, TimeInv, MissingInv, DeletedInv
  <2>4. QED
    BY <1>1, <2>1, <2>3, Untouched, Step
<1>6. QED
  BY <1>2, <1>3, <1>4, <1>5 DEF Read

\* Where GetUser goes from what is left to read.
LEMMA NextAddressType ==
    ASSUME NEW r, NEW b, NEW s
    PROVE  /\ Whole(r) \in {"insertContact", "ok"}
           /\ NextAddress(r, b, s) \in {"selectBillTo", "selectShipTo", "insertContact", "ok"}
           /\ NextAddress(r, b, s) = "selectBillTo" => b # None
           /\ NextAddress(r, b, s) = "selectShipTo" => s # None
  BY DEF NextAddress, Whole

LEMMA SelectUserStep ==
    ASSUME IInv, NEW r \in Requests, SelectUser(r)
    PROVE  IInv'
<1>1. job[r].id \in Ids \cup {Unknown} /\ (job[r].id \in Ids => IsUser(job[r].id))
  BY AtStatement DEF SelectUser, At, RequestInv, MissingInv, CalledInv
<1>2. QED
  BY <1>1, Unread, Reads DEF SelectUser

LEMMA SelectContactStep ==
    ASSUME IInv, NEW r \in Requests, SelectContact(r)
    PROVE  IInv'
<1> DEFINE j == job[r]
           c == contacts[j.id]
           k == [j EXCEPT !.billto = c.billto, !.shipto = c.shipto]
<1>1. IsUser(j.id) /\ j.id \in Ids
  BY AtStatement DEF SelectContact, At, RequestInv, FoundInv, IsUser
<1>2. CASE ~HasContact(j.id)
  BY <1>1, <1>2, Unread, Reads, NextAddressType DEF SelectContact
<1>3. CASE HasContact(j.id)
  <2>1. c.billto \in addresses \cup {None} /\ c.shipto \in addresses \cup {None}
    BY <1>1, <1>3 DEF IInv, ContactsInv
  <2>2. /\ k \in Jobs /\ k.id = j.id /\ k.billto = c.billto /\ k.shipto = c.shipto
    BY <2>1, AtStatement DEF IInv, TypeOK, Jobs
  <2>3. Read(r, NextAddress(r, c.billto, c.shipto), k)
    BY <1>3 DEF SelectContact
  <2> HIDE DEF k
  <2> DEFINE l == NextAddress(r, c.billto, c.shipto)
  <2>4. /\ l \in {"selectBillTo", "selectShipTo", "insertContact", "ok"}
        /\ l = "selectBillTo" => k.billto # None
        /\ l = "selectShipTo" => k.shipto # None
    BY <2>2, NextAddressType
  <2> HIDE DEF l
  <2>5. Read(r, l, k)
    BY <2>3 DEF l
  <2>6. QED
    BY <1>1, <2>1, <2>2, <2>4, <2>5, Reads
<1>4. QED
  BY <1>2, <1>3

LEMMA SelectBillToStep ==
    ASSUME IInv, NEW r \in Requests, SelectBillTo(r)
    PROVE  IInv'
<1> DEFINE j == job[r]
           k == [j EXCEPT !.billto = None]
<1>1. IsUser(j.id) /\ j.billto \in addresses /\ j.shipto \in addresses \cup {None}
  BY AtStatement DEF SelectBillTo, At, RequestInv, FoundInv, AddressInv
<1>2. k \in Jobs /\ k.id = j.id /\ k.billto = None /\ k.shipto = j.shipto
  BY AtStatement DEF Jobs
<1>3. Read(r, NextAddress(r, None, j.shipto), k)
  BY <1>1 DEF SelectBillTo
<1> HIDE DEF k
<1>4. QED
  BY <1>1, <1>2, <1>3, NextAddressType, Reads

LEMMA SelectShipToStep ==
    ASSUME IInv, NEW r \in Requests, SelectShipTo(r)
    PROVE  IInv'
<1> DEFINE j == job[r]
           k == [j EXCEPT !.shipto = None]
<1>1. IsUser(j.id) /\ j.shipto \in addresses /\ j.billto \in addresses \cup {None}
  BY AtStatement DEF SelectShipTo, At, RequestInv, FoundInv, AddressInv
<1>2. k \in Jobs /\ k.id = j.id /\ k.billto = j.billto /\ k.shipto = None
  BY AtStatement DEF Jobs
<1>3. Read(r, Whole(r), k)
  BY <1>1 DEF SelectShipTo
<1> HIDE DEF k
<1>4. QED
  BY <1>1, <1>2, <1>3, NextAddressType, Reads

LEMMA SelectAddressStep ==
    ASSUME IInv, NEW r \in Requests, SelectAddress(r)
    PROVE  IInv'
<1>1. job[r].id \in addresses \cup {Unknown}
  BY AtStatement DEF SelectAddress, At, RequestInv, AddressInv
<1>2. QED
  BY <1>1, Unread, Reads DEF SelectAddress
-----------------------------------------------------------------------------
(* Contacts and addresses.                                                 *)

\* A contact that refers to addresses that are there.
LEMMA ContactWritten ==
    ASSUME IInv, NEW i \in Ids, NEW b, NEW s, Refers(b), Refers(s),
           contacts' = [contacts EXCEPT ![i] = [billto |-> b, shipto |-> s]],
           UNCHANGED <<clock, users, addresses>>
    PROVE  TablesOK
<1> DEFINE c == [billto |-> b, shipto |-> s]
<1>1. /\ contacts \in [Ids -> ContactRows \cup {None}] /\ c \in ContactRows
      /\ c.billto \in addresses \cup {None} /\ c.shipto \in addresses \cup {None}
  BY DEF IInv, TypeOK, Refers, ContactRows
<1>2. contacts' = [contacts EXCEPT ![i] = c]
  OBVIOUS
<1> HIDE DEF c
<1>3. /\ contacts' \in [Ids -> ContactRows \cup {None}]
      /\ \A q \in Ids : contacts'[q] = IF q = i THEN c ELSE contacts[q]
  BY <1>1, <1>2
<1>4. ContactsInv'
  BY <1>1, <1>3 DEF ContactsInv, HasContact, IInv
<1>5. Grows /\ ClockInv' /\ UsersInv'
  BY DEF Grows, ClockInv, UsersInv, RowInv, IsUser, Rounded, IInv, TypeOK
<1>6. QED
  BY <1>3, <1>4, <1>5 DEF TablesOK, IInv, TypeOK

LEMMA WriteContactStep ==
    ASSUME IInv, NEW r \in Requests, NEW i, NEW valid \in BOOLEAN, valid => i \in Ids,
           WriteContact(r, i, valid)
    PROVE  IInv'
<1>1. PICK b, s \in AddressIds \cup {Unknown, None} :
          /\ \/ /\ valid /\ Refers(b) /\ Refers(s)
                /\ contacts' = [contacts EXCEPT ![i] = [billto |-> b, shipto |-> s]]
                /\ UNCHANGED <<users, addresses>>
             \/ UNCHANGED tables
          /\ \E l \in {"ok", "error"} : Goto(r, l)
          /\ UNCHANGED clock
  BY DEF WriteContact, Fails
<1>2. TablesOK
  BY <1>1, ContactWritten, Untouched
<1>3. QED
  BY <1>1, <1>2, GoesOut, Step DEF Outcomes, IInv

LEMMA ContactStep ==
    ASSUME IInv, NEW r \in Requests, InsertContact(r) \/ UpdateContact(r)
    PROVE  IInv'
  BY WriteContactStep DEF InsertContact, UpdateContact, IsUser, HasContact

LEMMA InsertAddressStep ==
    ASSUME IInv, NEW r \in Requests, InsertAddress(r)
    PROVE  IInv'
<1>1. /\ \/ \E a \in AddressIds \ addresses : addresses' = addresses \cup {a}
         \/ UNCHANGED tables
      /\ users' = users /\ contacts' = contacts /\ clock' = clock
      /\ \E l \in {"ok", "error"} : Goto(r, l)
  BY DEF InsertAddress, Fails, tables
<1>2. addresses \subseteq addresses' /\ addresses' \in SUBSET AddressIds
  BY <1>1 DEF IInv, TypeOK, tables
<1>3. Grows /\ ClockInv' /\ UsersInv' /\ ContactsInv'
  BY <1>1, <1>2
     DEF Grows, ClockInv, UsersInv, ContactsInv, RowInv, IsUser, HasContact, Rounded, IInv, TypeOK
<1>4. TablesOK
  BY <1>1, <1>2, <1>3 DEF TablesOK, IInv, TypeOK
<1>5. QED
  BY <1>1, <1>4, GoesOut, Step DEF Outcomes, IInv

LEMMA UpdateAddressStep ==
    ASSUME IInv, NEW r \in Requests, UpdateAddress(r)
    PROVE  IInv'
  BY Quits DEF UpdateAddress, Outcomes
-----------------------------------------------------------------------------
LEMMA StatementStep ==
    ASSUME IInv, NEW r \in Requests, Statement(r)
    PROVE  IInv'
<1>1. CASE DrawUuid(r) \/ InsertUser(r) \/ UpdateUser(r) \/ SetDTime(r)
  BY <1>1, DrawStep, InsertUserStep, UpdateUserStep, SetDTimeStep DEF DrawUuid
<1>2. CASE SelectUser(r) \/ SelectContact(r) \/ SelectBillTo(r) \/ SelectShipTo(r)
           \/ SelectAddress(r)
  BY <1>2, SelectUserStep, SelectContactStep, SelectBillToStep, SelectShipToStep,
     SelectAddressStep
<1>3. CASE InsertContact(r) \/ UpdateContact(r) \/ InsertAddress(r) \/ UpdateAddress(r)
  BY <1>3, ContactStep, InsertAddressStep, UpdateAddressStep
<1>4. QED
  BY <1>1, <1>2, <1>3 DEF Statement

LEMMA Initially ==
    ASSUME Init
    PROVE  IInv
<1>1. TypeOK /\ ClockInv
  BY NoJobType DEF Init, TypeOK, ClockInv
<1>2. UsersInv /\ ContactsInv
  BY DEF Init, UsersInv, ContactsInv, IsUser, HasContact
<1>3. \A r \in Requests : /\ pc[r] = "idle" /\ job[r].billto = None /\ job[r].shipto = None
  BY DEF Init, NoJob
<1>4. \A r \in Requests : RequestInv(r)
  BY <1>3 DEF RequestInv, BodyInv, DrawnInv, CalledInv, FoundInv, TimeInv, AddressInv,
              MissingInv, DeletedInv
<1>5. QED
  BY <1>1, <1>2, <1>4 DEF IInv

\* The inductive invariant holds in every state.
LEMMA Inductive == Spec => []IInv
<1>1. ASSUME IInv, [Next]_vars
      PROVE  IInv'
  <2>1. CASE Next
    BY <1>1, <2>1, TickStep, CrashStep, BasicAuthWritesStep, ArriveStep, StatementStep, ReplyStep
       DEF Next
  <2>2. CASE UNCHANGED vars
    BY <1>1, <2>2, Untouched, TablesStep DEF vars
  <2>3. QED
    BY <1>1, <2>1, <2>2
<1>2. QED
  BY <1>1, Initially, PTL DEF Spec

\* The types of Accounts.
THEOREM TypeCorrect == Spec => []TypeOK
  BY Inductive, PTL DEF IInv

\* Every row the handlers leave in users has a way to reach the user.
THEOREM UsersStayDeliverable == Spec => []Deliverable
<1>1. IInv => Deliverable
  BY DEF IInv, UsersInv, RowInv, Deliverable
<1>2. QED
  BY <1>1, Inductive, PTL

\* GetUser answers "no rows" for no user that is there.
THEOREM FoundStaysWhole == Spec => []FoundIsWhole
<1>1. IInv => FoundIsWhole
  BY UnknownElse DEF IInv, TypeOK, RequestInv, MissingInv, FoundIsWhole, At, IsUser
<1>2. QED
  BY <1>1, Inductive, PTL

\* DeleteUser refuses only users that are deleted, or not there.
THEOREM RefusedDeletesAreDone == Spec => []RefusedDeleteIsDone
<1>1. IInv => RefusedDeleteIsDone
  BY DEF IInv, RequestInv, DeletedInv, RefusedDeleteIsDone, At, IsUser
<1>2. QED
  BY <1>1, Inductive, PTL

\* The times of a row agree up to a second.
THEOREM TimesDoAgree == Spec => []TimesAgree
<1>1. IInv => TimesAgree
  BY DEF IInv, UsersInv, RowInv, TimesAgree
<1>2. QED
  BY <1>1, Inductive, PTL
=============================================================================
