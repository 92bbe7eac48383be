------------------------------- MODULE Accounts -------------------------------
(***************************************************************************)
(* Users, their contacts and addresses: the handlers of                    *)
(* src/internal/router/{user,contact,address}.go over the tables users,    *)
(* contacts and addresses (src/internal/relational, src/sql/mysql).        *)
(*                                                                         *)
(* Every SQL statement is a transaction of its own, and a handler is a     *)
(* sequence of them: GET of a user takes up to four SELECTs, the creation  *)
(* of a contact these and an INSERT, the creation of a user as many        *)
(* INSERTs as it takes to find a free uuid.  An UPDATE that leaves the row *)
(* as it was counts no row, and is an error for the caller.                *)
(*                                                                         *)
(* Time goes in ticks of half a second, columns hold whole seconds, as in  *)
(* BasicAuth.  Of the data of a row only what the properties tell apart is *)
(* kept: the name of a user, how it can be reached and its times, the      *)
(* addresses of a contact, that an address is there.  Whether an UPDATE of *)
(* a contact or an address finds the same values in the same second is     *)
(* therefore left open.                                                    *)
(***************************************************************************)
EXTENDS Naturals, FiniteSets

CONSTANTS
    Requests,      \* concurrent requests
    Ids,           \* the uuids users get
    AddressIds,    \* the uuids addresses get
    Unknown,       \* a uuid nobody has
    Names,         \* the names users ask for
    KeyLike,       \* those whose text contains "users.PRIMARY"
    Channels,      \* how a user can be reached: a valid email, a valid cell
    None,          \* no row, no address
    MaxClock       \* bound on the clock, in ticks

ASSUME RequestsFinite == IsFiniteSet(Requests)
ASSUME IdsFinite      == IsFiniteSet(Ids) /\ IsFiniteSet(AddressIds)
ASSUME UnknownElse    == Unknown \notin Ids \cup AddressIds \cup {None}
ASSUME NoneElse       == None \notin Ids \cup AddressIds \cup Names
ASSUME KeyLikeNames   == KeyLike \subseteq Names
ASSUME ClockNat       == MaxClock \in Nat

VARIABLES
    clock,       \* the current tick
    users,       \* users[i]: the row with that uuid, or None
    contacts,    \* contacts[i]: the row of that user, or None
    addresses,   \* the uuids of the rows in addresses
    pc,          \* pc[r]: the next statement of request r, or its outcome
    job          \* job[r]: what r works on

tables == <<users, contacts, addresses>>
vars   == <<clock, tables, pc, job>>

Reaches == SUBSET Channels

\* Column values: dtime is 0 until there is one.
Rows        == [name : Names, reach : Reaches, mtime : Nat, ctime : Nat, dtime : Nat]
ContactRows == [billto : AddressIds \cup {None}, shipto : AddressIds \cup {None}]

ASSUME NoneNoRow == None \notin Rows \cup ContactRows

Statements == {"drawUuid", "insertUser", "updateUser", "deleteUser", "selectUser", "selectContact",
               "selectBillTo", "selectShipTo", "insertContact", "updateContact",
               "insertAddress", "updateAddress", "selectAddress"}
Outcomes   == {"ok", "undeliverable", "exists", "missing", "notupdated", "notdeleted",
               "error"}

\* for: the handler; id: the uuid in the URL (or in the body, of an address);
\* name, reach: the user in the body; now: its last time.Now(), as a column
\* holds it; billto, shipto: the addresses of the contact it read.
Jobs == [for : {"none", "user", "contact", "address"},
         id : Ids \cup AddressIds \cup {Unknown, None},
         name : Names \cup {None}, reach : Reaches, now : Nat,
         billto : AddressIds \cup {None}, shipto : AddressIds \cup {None}]

TypeOK ==
    /\ clock      \in Nat
    /\ users      \in [Ids -> Rows \cup {None}]
    /\ contacts   \in [Ids -> ContactRows \cup {None}]
    /\ addresses  \in SUBSET AddressIds
    /\ pc         \in [Requests -> {"idle"} \cup Statements \cup Outcomes]
    /\ job        \in [Requests -> Jobs]

NoJob == [for |-> "none", id |-> None, name |-> None, reach |-> {}, now |-> 0,
          billto |-> None, shipto |-> None]

\* The clock starts with a whole second, and not with 0.
Init ==
    /\ clock      = 2
    /\ users      = [i \in Ids |-> None]
    /\ contacts   = [i \in Ids |-> None]
    /\ addresses  = {}
    /\ pc         = [r \in Requests |-> "idle"]
    /\ job        = [r \in Requests |-> NoJob]

Rounded(t)   == (t + 1) \div 2
Truncated(t) == t \div 2

IsUser(i)     == i \in Ids /\ users[i] # None
HasContact(i) == i \in Ids /\ contacts[i] # None

At(r, l) == pc[r] = l

\* r goes on with statement l, or ends with outcome l: the uuid it was about is
\* kept with the outcomes that say something of its row.
Continue(r, l, j) ==
    /\ pc'  = [pc EXCEPT ![r] = l]
    /\ job' = [job EXCEPT ![r] =
                  CASE l \notin Outcomes -> j
                    [] l \in {"missing", "notdeleted"} -> [NoJob EXCEPT !.id = j.id]
                    [] OTHER -> NoJob]
Goto(r, l) == Continue(r, l, job[r])

\* The statement fails for the caller, executed or not.
Fails(r, statement) ==
    /\ statement \/ UNCHANGED tables
    /\ Goto(r, "error")
    /\ UNCHANGED <<clock>>

Tick ==
    /\ clock < MaxClock
    /\ clock' = clock + 1
    /\ UNCHANGED <<tables, pc, job>>
-----------------------------------------------------------------------------
(* Requests arrive.  Clients know the uuids of rows, and uuids of nothing. *)

Call(r, l, j) ==
    /\ At(r, "idle")
    /\ Continue(r, l, j)
    /\ UNCHANGED <<clock, tables>>

UserIds == {i \in Ids : IsUser(i)} \cup {Unknown}

Job(f, i)     == [NoJob EXCEPT !.for = f, !.id = i]
Timed(i)      == [Job("user", i) EXCEPT !.now = Rounded(clock)]
Body(i, n, c) == [Timed(i) EXCEPT !.name = n, !.reach = c]

\* There is a uuid left for each user being created: a bound of the model.
Spare == Cardinality({r \in Requests : pc[r] \in {"drawUuid", "insertUser"}})
            < Cardinality({i \in Ids : ~IsUser(i)})

PostUser(r) ==
    \E n \in Names, c \in Reaches :
        IF c = {} THEN Call(r, "undeliverable", NoJob)
        ELSE Spare /\ Call(r, "drawUuid", [Job("user", None) EXCEPT !.name = n, !.reach = c])

\* Faulty variant: the handler forgets that a change can leave no way to reach the user.
PatchUserUnchecked(r) ==
    \E i \in UserIds, n \in Names, c \in Reaches : Call(r, "updateUser", Body(i, n, c))

PatchUser(r) ==
    \E i \in UserIds, n \in Names, c \in Reaches :
        IF c = {} THEN Call(r, "undeliverable", NoJob)
        ELSE Call(r, "updateUser", Body(i, n, c))

DeleteUser(r)    == \E i \in UserIds : Call(r, "deleteUser", Timed(i))
GetUser(r)       == \E i \in UserIds : Call(r, "selectUser", Job("user", i))
CreateContact(r) == \E i \in UserIds : Call(r, "selectUser", Job("contact", i))
PatchContact(r)  == \E i \in UserIds : Call(r, "updateContact", Job("contact", i))
PostAddress(r)   == addresses # AddressIds /\ Call(r, "insertAddress", Job("address", None))
\* The uuid in the body counts, the one in the URL does not.
PatchAddress(r)  ==
    \E a \in addresses \cup {Unknown} : Call(r, "updateAddress", Job("address", a))
GetAddress(r)    ==
    \E a \in addresses \cup {Unknown} : Call(r, "selectAddress", Job("address", a))
-----------------------------------------------------------------------------
(* Statements on users.                                                    *)

NameTaken(n, but) == \E i \in Ids \ {but} : IsUser(i) /\ users[i].name = n

NewUser(j) == [name |-> j.name, reach |-> j.reach, mtime |-> j.now, ctime |-> j.now,
               dtime |-> 0]

\* Faulty variant: every duplicate is taken for one of the uuid.
EveryNameIsKeyLike(n) == n \in Names

\* The message on a taken name reads like one on a taken uuid: it quotes the name.
LooksLikeKey(n) == n \in KeyLike

\* AddUser draws a uuid.
Draw(r, i) ==
    /\ At(r, "drawUuid")
    /\ Continue(r, "insertUser", [job[r] EXCEPT !.id = i, !.now = Rounded(clock)])
    /\ UNCHANGED <<clock, tables>>

DrawUuid(r) == \E i \in Ids : Draw(r, i)
DrawFree(r) == \E i \in Ids : ~IsUser(i) /\ Draw(r, i)

\* MySQL reports a uuid that is taken, and only then a name.
InsertUser(r) ==
    LET j      == job[r]
        again  == Continue(r, "drawUuid", [j EXCEPT !.id = None, !.now = 0])
        insert == /\ ~IsUser(j.id) /\ ~NameTaken(j.name, None)
                  /\ users' = [users EXCEPT ![j.id] = NewUser(j)]
                  /\ UNCHANGED <<contacts, addresses>>
    IN
    /\ At(r, "insertUser")
    /\ \/ insert /\ Goto(r, "ok") /\ UNCHANGED clock
       \/ IsUser(j.id) /\ again /\ UNCHANGED <<clock, tables>>
       \/ /\ ~IsUser(j.id) /\ NameTaken(j.name, None)
          /\ \/ LooksLikeKey(j.name) /\ again
             \/ ~LooksLikeKey(j.name) /\ Goto(r, "exists")
          /\ UNCHANGED <<clock, tables>>
       \/ Fails(r, insert)

\* UPDATE of row i to v: whether that changes a row.
Changes(i, v) == IsUser(i) /\ users[i] # v

\* UPDATE of a user to v, for which no row changed is the error none.
UpdateRow(r, v, none) ==
    LET i == job[r].id IN
    \/ /\ Changes(i, v)
       /\ users' = [users EXCEPT ![i] = v]
       /\ Goto(r, "ok")
       /\ UNCHANGED <<clock, contacts, addresses>>
    \/ /\ ~Changes(i, v)
       /\ Goto(r, none)
       /\ UNCHANGED <<clock, tables>>
    \/ Fails(r, /\ IsUser(i)
                /\ users' = [users EXCEPT ![i] = v]
                /\ UNCHANGED <<contacts, addresses>>)

\* Faulty variant: dtime is updated with the rest of the body, which has none.
UpdatedUndeletes(j) ==
    [users[j.id] EXCEPT !.name = j.name, !.reach = j.reach, !.mtime = j.now, !.dtime = 0]

\* Faulty variant: the mtime is the one in the body, which has none.
UpdatedUntimed(j) ==
    [users[j.id] EXCEPT !.name = j.name, !.reach = j.reach, !.mtime = 0]

Updated(j) ==
    [users[j.id] EXCEPT !.name = j.name, !.reach = j.reach, !.mtime = j.now]

UpdateUser(r) ==
    LET j == job[r] IN
    /\ At(r, "updateUser")
    /\ \/ /\ IsUser(j.id) /\ NameTaken(j.name, j.id)
          /\ Goto(r, "error")
          /\ UNCHANGED <<clock, tables>>
       \/ /\ IsUser(j.id) => ~NameTaken(j.name, j.id)
          /\ UpdateRow(r, IF IsUser(j.id) THEN Updated(j) ELSE None, "notupdated")

SetDTime(r) ==
    LET j == job[r] IN
    /\ At(r, "deleteUser")
    /\ UpdateRow(r, IF IsUser(j.id) THEN [users[j.id] EXCEPT !.dtime = j.now] ELSE None,
                 "notdeleted")

\* A login, or a change of password (BasicAuth), writes other columns, and mtime.
BasicAuthWrites(i) ==
    /\ IsUser(i)
    /\ users' = [users EXCEPT ![i].mtime = Truncated(clock)]
    /\ UNCHANGED <<clock, contacts, addresses, pc, job>>
-----------------------------------------------------------------------------
(* GetUser: the user, then its contact, then the contact's addresses.      *)

\* A SELECT: the request goes on to l, knowing j, or fails.
Read(r, l, j) ==
    /\ Continue(r, l, j) \/ Goto(r, "error")
    /\ UNCHANGED <<clock, tables>>

\* GetUser has all of the user: the end of GET, the INSERT of a new contact.
Whole(r) == IF job[r].for = "contact" THEN "insertContact" ELSE "ok"

SelectUser(r) ==
    /\ At(r, "selectUser")
    /\ Read(r, IF IsUser(job[r].id) THEN "selectContact" ELSE "missing", job[r])

\* The next SELECT for a contact whose addresses b and s have not been read.
NextAddress(r, b, s) ==
    CASE b # None -> "selectBillTo"
      [] b = None /\ s # None -> "selectShipTo"
      [] OTHER -> Whole(r)

SelectContact(r) ==
    LET j == job[r] IN
    /\ At(r, "selectContact")
    /\ IF HasContact(j.id)
       THEN LET c == contacts[j.id] IN
            Read(r, NextAddress(r, c.billto, c.shipto),
                 [j EXCEPT !.billto = c.billto, !.shipto = c.shipto])
       ELSE Read(r, Whole(r), j)

SelectBillTo(r) ==
    LET j == job[r] IN
    /\ At(r, "selectBillTo")
    /\ Read(r, IF j.billto \in addresses THEN NextAddress(r, None, j.shipto) ELSE "missing",
            [j EXCEPT !.billto = None])

SelectShipTo(r) ==
    LET j == job[r] IN
    /\ At(r, "selectShipTo")
    /\ Read(r, IF j.shipto \in addresses THEN Whole(r) ELSE "missing",
            [j EXCEPT !.shipto = None])
-----------------------------------------------------------------------------
(* Statements on contacts and addresses.                                   *)

\* Faulty variant: the schema without foreign keys to addresses.
RefersAnywhere(a) == a \in AddressIds \cup {None}

\* Faulty variant: a row that refers to the uuid of nothing is written all the same.
RefersUnchecked(a) == a \in AddressIds \cup {Unknown, None}

\* The foreign keys of contacts.
Refers(a) == a \in addresses \cup {None}

\* The row of user i in contacts is written with any two addresses, if that is valid.
WriteContact(r, i, valid) ==
    \E b, s \in AddressIds \cup {Unknown, None} :
        LET write == /\ valid /\ Refers(b) /\ Refers(s)
                     /\ contacts' = [contacts EXCEPT ![i] = [billto |-> b, shipto |-> s]]
                     /\ UNCHANGED <<users, addresses>>
        IN \/ write /\ Goto(r, "ok") /\ UNCHANGED <<clock>>
           \/ Fails(r, write)

\* The body of CreateContact is read after GetUser.
InsertContact(r) ==
    LET i == job[r].id IN
    /\ At(r, "insertContact")
    /\ WriteContact(r, i, IsUser(i) /\ ~HasContact(i))

UpdateContact(r) ==
    LET i == job[r].id IN
    /\ At(r, "updateContact")
    /\ WriteContact(r, i, HasContact(i))

\* A uuid that is taken is an error like any other.
InsertAddress(r) ==
    LET insert == /\ \E a \in AddressIds \ addresses : addresses' = addresses \cup {a}
                  /\ UNCHANGED <<users, contacts>>
    IN /\ At(r, "insertAddress")
       /\ \/ insert /\ Goto(r, "ok") /\ UNCHANGED <<clock>>
          \/ Fails(r, insert)

\* The row that is updated may be the same after as before.
UpdateAddress(r) ==
    /\ At(r, "updateAddress")
    /\ \/ job[r].id \in addresses /\ Goto(r, "ok")
       \/ Goto(r, "notupdated")
       \/ Goto(r, "error")
    /\ UNCHANGED <<clock, tables>>

SelectAddress(r) ==
    /\ At(r, "selectAddress")
    /\ Read(r, IF job[r].id \in addresses THEN "ok" ELSE "missing", job[r])
-----------------------------------------------------------------------------
Reply(r) ==
    /\ pc[r] \in Outcomes
    /\ Continue(r, "idle", NoJob)
    /\ UNCHANGED <<clock, tables>>

\* The service dies with its requests.
ServerCrashes ==
    /\ pc'  = [r \in Requests |-> "idle"]
    /\ job' = [r \in Requests |-> NoJob]
    /\ UNCHANGED <<clock, tables>>

Arrive(r) ==
    \/ PostUser(r) \/ PatchUser(r) \/ DeleteUser(r) \/ GetUser(r)
    \/ CreateContact(r) \/ PatchContact(r)
    \/ PostAddress(r) \/ PatchAddress(r) \/ GetAddress(r)

Statement(r) ==
    \/ DrawUuid(r) \/ InsertUser(r) \/ UpdateUser(r) \/ SetDTime(r)
    \/ SelectUser(r) \/ SelectContact(r) \/ SelectBillTo(r) \/ SelectShipTo(r)
    \/ InsertContact(r) \/ UpdateContact(r)
    \/ InsertAddress(r) \/ UpdateAddress(r) \/ SelectAddress(r)

Next ==
    \/ Tick \/ ServerCrashes
    \/ \E i \in Ids : BasicAuthWrites(i)
    \/ \E r \in Requests : Arrive(r) \/ Statement(r) \/ Reply(r)

\* A goroutine that can send a statement does, the driver comes back with a
\* result or an error, and a new uuid is not always taken.
Fairness == \A r \in Requests : WF_vars(Statement(r)) /\ SF_vars(DrawFree(r))

Spec == Init /\ [][Next]_vars /\ Fairness
-----------------------------------------------------------------------------
(* Properties.                                                             *)

\* Every stored user can be sent a reset: the CHECK of the table is disabled
\* ("1 or ..."), so only the handlers see to it, in every change of a row and
\* with statements that fail half-way.
Deliverable == \A i \in Ids : IsUser(i) => users[i].reach # {}

\* "no rows" is answered only for a uuid that nobody has: a user that was found
\* does not get lost in the SELECTs of its contact and addresses, whatever other
\* requests write between them.
FoundIsWhole ==
    \A r \in Requests :
        At(r, "missing") => ~IsUser(job[r].id) /\ job[r].id \notin addresses

\* "user was not deleted" is answered when there is no such user, or when it is
\* deleted already: the UPDATE that changes nothing is a deletion that holds,
\* whatever PATCHes and logins have written since.
RefusedDeleteIsDone ==
    \A r \in Requests :
        At(r, "notdeleted") /\ IsUser(job[r].id) => users[job[r].id].dtime # 0

\* Times of a row agree up to a second, although mtime comes from the service
\* (rounded, and taken before the statement) or from MySQL (truncated): a row is
\* not deleted before it was made, nor modified more than a second before that.
TimesAgree ==
    \A i \in Ids : IsUser(i) =>
        /\ users[i].mtime + 1 >= users[i].ctime
        /\ users[i].dtime # 0 => users[i].dtime >= users[i].ctime

\* Every request is answered, the creation of a user with its retries included
\* ("infinite recursion (unlikely as it is)").
CallsReturn ==
    \A r \in Requests : pc[r] \in Statements ~> pc[r] \notin Statements
=============================================================================
