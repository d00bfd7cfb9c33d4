------------------------------ MODULE Accounts ------------------------------
(***************************************************************************)
(* Accounts, and the pool of connections that every request shares:        *)
(* sign-up, log-in, the profile and its edits, and the administrator's two *)
(* endpoints, which take a second connection (app/routers/users.py,        *)
(* auth.py, admin.py; app/security.py; app/db/postgres.py).                *)
(*                                                                         *)
(* Each request is one coroutine; every await that meets the pool or the   *)
(* database is a step.  The account of a sign-up is named by its request.  *)
(***************************************************************************)
EXTENDS Naturals, FiniteSets

CONSTANTS
    Seed,           \* the accounts there are at first
    Req,            \* the requests
    Conn,           \* the connections of the pool: pool_size + max_overflow
    Email,          \* spellings of e-mail addresses
    Phone,
    Address,        \* the address of a spelling: CITEXT ignores case
    Stored,         \* the accounts of Seed
    Plan,           \* what each request may ask for
    None,           \* nobody, nothing; a null in a request
    Keep            \* a field that the request leaves out

Account == Seed \cup Req

Role == {"customer", "staff", "admin"}

User == [email : Email, phone : {None} \cup Phone, role : Role, is_active : BOOLEAN]

\* A request: who its bearer token names, or None without a valid token; the
\* account that GET /users/{id} asks for; whether the password is the right one.
Call == [op : {"signup", "login", "edit", "get", "state", "put"},
         who : {None} \cup Account, of : {None} \cup Account,
         email : {None, Keep} \cup Email, phone : {None, Keep} \cup Phone, right : BOOLEAN]

Reply == [code : {200, 201, 401, 403, 404, 409, 500}, row : {None} \cup User]

ASSUME NoneAssumption ==
    /\ Seed \cap Req = {}
    /\ None \notin Account \cup User \cup Call \cup Reply \cup Phone \cup Email
    /\ Keep \notin {None} \cup Phone \cup Email
ASSUME PoolAssumption == IsFiniteSet(Conn)
ASSUME StoredAssumption ==
    /\ Stored \in [Seed -> User]
    /\ \A a, b \in Seed : Address[Stored[a].email] = Address[Stored[b].email] => a = b
ASSUME PlanAssumption ==
    \A q \in Req : \A c \in Plan[q] :
        /\ c \in Call
        /\ c.op \in {"signup", "login"} => c.email \in Email
        /\ c.op = "signup" => c.phone # Keep
        /\ c.op = "get" => c.of \in Account

VARIABLES
    users,          \* the committed rows, None where there is none
    owner,          \* the request that has a connection, None in the pool
    pc,             \* the next statement of each request
    call,           \* what each request asks for
    loaded,         \* the row a request has read, as it was then
    acted,          \* the requests that have committed, or set the phase
    reply           \* the status code and the row of the body

vars == <<users, owner, pc, call, loaded, acted, reply>>

-----------------------------------------------------------------------------
(* Connections and answers.                                                *)

Goto(q, s) == pc' = [pc EXCEPT ![q] = s]

\* What comes after a connection: of the session's first statement, of the
\* session after its commit, of the administrator's second and third.
After(q) ==
    CASE pc[q] = "connect" -> (CASE call[q].op = "signup" -> "index"
                                 [] call[q].op = "login" -> "find" [] OTHER -> "load")
      [] pc[q] = "reconnect" -> "refresh"
      [] pc[q] = "second" -> "check"
      [] pc[q] = "third" -> "state"

Waiting == {"connect", "reconnect", "second", "third"}

\* Commit, rollback and close give the connections of a request back.
Returned(q) == [c \in Conn |-> IF owner[c] = q THEN None ELSE owner[c]]

\* get_session closes the session before the answer is sent (FastAPI 0.115).
Send(q, code, row) ==
    /\ Goto(q, "done")
    /\ reply' = [reply EXCEPT ![q] = [code |-> code, row |-> row]]
    /\ owner' = Returned(q)

Refuse(q, code) == Send(q, code, None) /\ UNCHANGED <<users, call, loaded, acted>>

Take(q) ==
    /\ pc[q] \in Waiting
    /\ \E c \in Conn : owner[c] = None /\ owner' = [owner EXCEPT ![c] = q]
    /\ Goto(q, After(q))
    /\ UNCHANGED <<users, call, loaded, acted, reply>>

\* Mutant of Timeout: only the session's connections are given up.
TimeoutOfSession(q) ==
    /\ pc[q] \in {"connect", "reconnect"}
    /\ \A c \in Conn : owner[c] # None
    /\ Refuse(q, 500)

\* pool_timeout: no connection for 30 seconds is an error nobody catches.
Timeout(q) ==
    /\ pc[q] \in Waiting
    /\ \A c \in Conn : owner[c] # None
    /\ Refuse(q, 500)

\* A sign-up hashes first; the others begin with a statement, but not without a
\* valid token.
Arrive(q) ==
    /\ pc[q] = "idle"
    /\ \E c \in Plan[q] :
         /\ call' = [call EXCEPT ![q] = c]
         /\ IF c.op = "signup" THEN Goto(q, "hash") /\ UNCHANGED <<owner, reply>>
            ELSE IF c.op # "login" /\ c.who = None THEN Send(q, 401, None)
            ELSE Goto(q, "connect") /\ UNCHANGED <<owner, reply>>
    /\ UNCHANGED <<users, loaded, acted>>

-----------------------------------------------------------------------------
(* get_current_user, and the reading endpoints.                            *)

\* SELECT of the token's user, and the role the endpoint asks for.
Load(q) ==
    /\ pc[q] = "load"
    /\ LET row == users[call[q].who]
           op == call[q].op
       IN  IF row = None \/ ~row.is_active THEN Refuse(q, 401)
           ELSE IF \/ op \in {"state", "put"} /\ row.role # "admin"
                   \/ op = "get" /\ row.role = "customer" /\ call[q].of # call[q].who
           THEN Refuse(q, 403)
           ELSE /\ loaded' = [loaded EXCEPT ![q] = row]
                /\ Goto(q, CASE op = "edit" -> "row" [] op = "get" -> "read"
                             [] op = "put" -> "second" [] op = "state" -> "third")
                /\ UNCHANGED <<users, owner, call, acted, reply>>

\* GET /users/{id}.  The session already has the caller's own row, and does not
\* read it again.
Read(q) ==
    /\ pc[q] = "read"
    /\ LET row == IF call[q].of = call[q].who THEN loaded[q] ELSE users[call[q].of]
       IN  Send(q, IF row = None THEN 404 ELSE 200, row)
    /\ UNCHANGED <<users, call, loaded, acted>>

\* Mutant of Find: the transaction is not ended before bcrypt.
FindHolds(q) ==
    /\ pc[q] = "find"
    /\ LET found == {a \in Account : users[a] # None
                                     /\ Address[users[a].email] = Address[call[q].email]}
       IN  IF found = {} THEN Refuse(q, 401)
           ELSE /\ \E a \in found : loaded' = [loaded EXCEPT ![q] = users[a]]
                /\ Goto(q, "verify")
                /\ UNCHANGED <<users, owner, call, acted, reply>>

\* login: the SELECT by e-mail, and the rollback that gives the connection back.
Find(q) ==
    /\ pc[q] = "find"
    /\ LET found == {a \in Account : users[a] # None
                                     /\ Address[users[a].email] = Address[call[q].email]}
       IN  IF found = {} THEN Refuse(q, 401)
           ELSE /\ \E a \in found : loaded' = [loaded EXCEPT ![q] = users[a]]
                /\ owner' = Returned(q)
                /\ Goto(q, "verify")
                /\ UNCHANGED <<users, call, acted, reply>>

\* bcrypt in a worker thread, and the token.
Verify(q) ==
    /\ pc[q] = "verify"
    /\ Send(q, IF call[q].right /\ loaded[q].is_active THEN 200 ELSE 401, None)
    /\ UNCHANGED <<users, call, loaded, acted>>

-----------------------------------------------------------------------------
(* create_user and update_own_profile.                                     *)

Hash(q) ==
    /\ pc[q] = "hash"
    /\ Goto(q, "connect")
    /\ UNCHANGED <<users, owner, call, loaded, acted, reply>>

\* The account a request writes.
Target(q) == IF call[q].op = "signup" THEN q ELSE call[q].who

\* The attributes of an edit that are not as they were loaded: SQLAlchemy writes
\* those only.  A null for the e-mail address is ignored.
WritesEmail(q) ==
    \/ call[q].op = "signup"
    \/ call[q].op = "edit" /\ call[q].email \in Email /\ call[q].email # loaded[q].email

WritesPhone(q) ==
    call[q].op = "edit" /\ call[q].phone # Keep /\ call[q].phone # loaded[q].phone

\* Mutant of Written: the loaded row is written back with the edit in it.
WrittenWhole(q) ==
    IF call[q].op = "signup"
    THEN [email |-> call[q].email, phone |-> call[q].phone, role |-> "customer", is_active |-> TRUE]
    ELSE [loaded[q] EXCEPT
            !.email = IF WritesEmail(q) THEN call[q].email ELSE @,
            !.phone = IF WritesPhone(q) THEN call[q].phone ELSE @]

\* The row that INSERT or UPDATE leaves.
Written(q) ==
    IF call[q].op = "signup"
    THEN [email |-> call[q].email, phone |-> call[q].phone, role |-> "customer", is_active |-> TRUE]
    ELSE [users[call[q].who] EXCEPT
            !.email = IF WritesEmail(q) THEN call[q].email ELSE @,
            !.phone = IF WritesPhone(q) THEN call[q].phone ELSE @]

\* Mutant of Writers: the row is not locked.
NoWriters(a) == {}

\* The requests with a new version of a row that is not committed.
Writers(a) == {q \in Req : pc[q] \in {"index", "commit"} /\ Target(q) = a}

\* UPDATE locks the row, and checks the index when the address changes; the
\* commit of an edit that changes nothing has no UPDATE.
Row(q) ==
    /\ pc[q] = "row"
    /\ IF WritesEmail(q) \/ WritesPhone(q)
       THEN /\ Writers(call[q].who) = {}
            /\ Goto(q, IF WritesEmail(q) THEN "index" ELSE "commit")
            /\ UNCHANGED <<owner, acted>>
       ELSE /\ Goto(q, "reconnect")
            /\ owner' = Returned(q)
            /\ acted' = acted \cup {q}
    /\ UNCHANGED <<users, call, loaded, reply>>

\* The other accounts that have the address a request writes.
Rivals(q) ==
    {a \in Account \ {Target(q)} :
        users[a] # None /\ Address[users[a].email] = Address[call[q].email]}

\* Mutant of WaitsFor: only what is committed counts.
WaitsForNobody(q) == {}

\* The transactions whose end decides whether the address is free: those that
\* have written it, and those that have a new version of a row that has it.
WaitsFor(q) ==
    {r \in Req \ {q} :
        \/ pc[r] = "commit" /\ WritesEmail(r) /\ Address[call[r].email] = Address[call[q].email]
        \/ \E a \in Rivals(q) : r \in Writers(a)}

\* Mutant of Index: the row of the account itself counts.
IndexOwn(q) ==
    /\ pc[q] = "index"
    /\ WaitsFor(q) = {}
    /\ IF \E a \in Account : users[a] # None /\ Address[users[a].email] = Address[call[q].email]
       THEN Refuse(q, 409)
       ELSE Goto(q, "commit") /\ UNCHANGED <<users, owner, call, loaded, acted, reply>>

\* The unique index, and the rollback and 409 of an IntegrityError.
Index(q) ==
    /\ pc[q] = "index"
    /\ WaitsFor(q) = {}
    /\ IF Rivals(q) # {} THEN Refuse(q, 409)
       ELSE Goto(q, "commit") /\ UNCHANGED <<users, owner, call, loaded, acted, reply>>

\* Transactions that wait for one another: PostgreSQL ends one of them after
\* deadlock_timeout, with an error that is no IntegrityError.
Deadlocked(q) ==
    \E S \in SUBSET {r \in Req : pc[r] = "index"} :
        q \in S /\ \A r \in S : S \cap WaitsFor(r) # {} /\ \E p \in S : r \in WaitsFor(p)

Victim(q) == Deadlocked(q) /\ Refuse(q, 500)

\* Mutant of Commit: the connection stays with the session.
CommitHolds(q) ==
    /\ pc[q] = "commit"
    /\ users' = [users EXCEPT ![Target(q)] = Written(q)]
    /\ acted' = acted \cup {q}
    /\ Goto(q, "reconnect")
    /\ UNCHANGED <<owner, call, loaded, reply>>

Commit(q) ==
    /\ pc[q] = "commit"
    /\ users' = [users EXCEPT ![Target(q)] = Written(q)]
    /\ acted' = acted \cup {q}
    /\ owner' = Returned(q)
    /\ Goto(q, "reconnect")
    /\ UNCHANGED <<call, loaded, reply>>

\* session.refresh, and the answer.
Refresh(q) ==
    /\ pc[q] = "refresh"
    /\ Send(q, IF call[q].op = "signup" THEN 201 ELSE 200, users[Target(q)])
    /\ UNCHANGED <<users, call, loaded, acted>>

-----------------------------------------------------------------------------
(* get_migration and put_migration: the phase is NameMigration's, here is  *)
(* what they do to the pool.                                               *)

\* Mutant of Check: the phase is set before it is checked.
CheckLate(q) ==
    /\ pc[q] = "check"
    /\ acted' = acted \cup {q}
    /\ \/ Send(q, 409, None)
       \/ /\ \E c \in Conn : owner[c] = q /\ owner' = [owner EXCEPT ![c] = None]
          /\ Goto(q, "third") /\ UNCHANGED reply
    /\ UNCHANGED <<users, call, loaded>>

\* The state of the schema refuses the phase, or the phase is set.  The session
\* still has its connection, the one of engine.connect() goes back.
Check(q) ==
    /\ pc[q] = "check"
    /\ \/ Refuse(q, 409)
       \/ /\ \E c \in Conn : owner[c] = q /\ owner' = [owner EXCEPT ![c] = None]
          /\ acted' = acted \cup {q}
          /\ Goto(q, "third")
          /\ UNCHANGED <<users, call, loaded, reply>>

\* _state()
State(q) ==
    /\ pc[q] = "state"
    /\ Send(q, 200, None)
    /\ UNCHANGED <<users, call, loaded, acted>>

-----------------------------------------------------------------------------

\* A request goes on as far as its coroutine can.
Step(q) ==
    \/ Take(q) \/ Timeout(q) \/ Load(q) \/ Read(q) \/ Find(q) \/ Verify(q) \/ Hash(q)
    \/ Row(q) \/ Index(q) \/ Victim(q) \/ Commit(q) \/ Refresh(q) \/ Check(q) \/ State(q)

Init ==
    /\ users = [a \in Account |-> IF a \in Seed THEN Stored[a] ELSE None]
    /\ owner = [c \in Conn |-> None]
    /\ pc = [q \in Req |-> "idle"]
    /\ call = [q \in Req |-> None]
    /\ loaded = [q \in Req |-> None]
    /\ acted = {}
    /\ reply = [q \in Req |-> None]

Next == \E q \in Req : Arrive(q) \/ Step(q)

Spec == Init /\ [][Next]_vars

\* The event loop resumes every coroutine; PostgreSQL ends a deadlock, and the
\* pool gives up a wait.  A client need not send a request.
FairSpec == Spec /\ \A q \in Req : WF_vars(Step(q))

-----------------------------------------------------------------------------
(* Properties.                                                             *)

\* Every variable has its type, and what a request knows fits where it is.
TypeOK ==
    /\ users \in [Account -> {None} \cup User]
    /\ owner \in [Conn -> {None} \cup Req]
    /\ pc \in [Req -> {"idle", "hash", "load", "read", "find", "verify", "row", "index", "commit",
                       "refresh", "check", "state", "done"} \cup Waiting]
    /\ call \in [Req -> {None} \cup Call]
    /\ \A q \in Req : pc[q] # "idle" => call[q] \in Plan[q]
    /\ loaded \in [Req -> {None} \cup User]
    /\ acted \subseteq Req
    /\ reply \in [Req -> {None} \cup Reply]

\* models/user.py: "The unique index gives the 409 on a duplicate signup, even
\* when two signups arrive together"; nor does an edit take another's address.
OneAccountPerAddress ==
    \A a, b \in Account :
        users[a] # None /\ users[b] # None /\ Address[users[a].email] = Address[users[b].email]
        => a = b

\* auth.py: "the database connection goes back to the pool while we wait"; nor is
\* one kept over the hashing of a sign-up, over a commit, or after the answer.
NoneKeptWhileHashing ==
    \A c \in Conn : owner[c] # None =>
        pc[owner[c]] \notin {"idle", "hash", "verify", "connect", "reconnect", "done"}

\* What a client is told agrees with what is stored: 200 or 201 exactly when the
\* account is written, or the phase set, and a 500 tells nothing: the commit may
\* be there and only the connection for the refresh was not.
AnswersMatchAccounts ==
    \A q \in Req :
        /\ users[q] # None <=> q \in acted /\ call[q].op = "signup"
        /\ pc[q] = "done" /\ reply[q].code # 500 /\ call[q].op \in {"signup", "edit", "put"}
             => (q \in acted <=> reply[q].code \in {200, 201})

\* The other requests that have written an account.
Others(q) == {r \in acted \ {q} : call[r].op \in {"signup", "edit"}}

\* Nobody is told that an address is taken unless it was somebody else's: another
\* account had it at first, or was given it by a request that is committed.
TakenBySomebodyElse ==
    \A q \in Req : pc[q] = "done" /\ call[q].op \in {"signup", "edit"} /\ reply[q].code = 409 =>
        LET same(e) == Address[e] = Address[call[q].email]
        IN  \/ \E a \in Seed \ {Target(q)} : same(Stored[a].email)
            \/ \E r \in Others(q) :
                  Target(r) # Target(q) /\ call[r].email \in Email /\ same(call[r].email)

\* The committed edits of an account, what they wrote, and what it began as.
Edits(a) == {q \in acted : call[q].op = "edit" /\ call[q].who = a}
PhonesGiven(a) == {call[q].phone : q \in {e \in Edits(a) : WritesPhone(e)}}
EmailsGiven(a) == {call[q].email : q \in {e \in Edits(a) : WritesEmail(e)}}
First(a) == IF a \in Seed THEN Stored[a] ELSE call[a]

\* users.py: "Only the fields in the request are changed": a field of an account
\* is as it began until an edit that asked for it is committed, and then it is
\* what one of those edits asked for, whatever row the others had loaded.
FieldsHaveWriters ==
    \A a \in Account : users[a] # None =>
        /\ users[a].phone \in IF PhonesGiven(a) = {} THEN {First(a).phone} ELSE PhonesGiven(a)
        /\ users[a].email \in IF EmailsGiven(a) = {} THEN {First(a).email} ELSE EmailsGiven(a)

\* A 200 shows each field as it was asked for, or as another edit of the account
\* has written it since this one loaded the row: setting a field back to the
\* value that was loaded writes nothing.
ShowsTheEdit ==
    \A q \in Req : pc[q] = "done" /\ call[q].op = "edit" /\ reply[q].code = 200 =>
        LET rest == Edits(call[q].who) \ {q}
        IN  /\ call[q].phone # Keep =>
                 \/ reply[q].row.phone = call[q].phone
                 \/ \E r \in rest : WritesPhone(r) /\ reply[q].row.phone = call[r].phone
            /\ call[q].email \in Email =>
                 \/ reply[q].row.email = call[q].email
                 \/ \E r \in rest : WritesEmail(r) /\ reply[q].row.email = call[r].email

\* Requests that cannot go on: no connection is left, the row is locked, or the
\* address is another transaction's.
Blocked(q) ==
    \/ pc[q] \in Waiting /\ \A c \in Conn : owner[c] # None
    \/ pc[q] = "row" /\ (WritesEmail(q) \/ WritesPhone(q)) /\ Writers(call[q].who) # {}
    \/ pc[q] = "index" /\ WaitsFor(q) # {}

\* Nothing but the administrator's endpoints holds a connection and waits for
\* another: when all connections are taken and none of those that have them can
\* go on, they are all waiting for their second, or some deadlock of PostgreSQL's
\* is to be ended.
OnlyAdminsHoldAndWait ==
    (\A c \in Conn : owner[c] # None /\ Blocked(owner[c])) =>
        \/ \A c \in Conn : pc[owner[c]] \in {"second", "third"}
        \/ \E q \in Req : Deadlocked(q)

\* Every request ends, for the time-out of the pool ends the wait of
\* administrators for one another.
EveryCallEnds == \A q \in Req : pc[q] # "idle" ~> pc[q] = "done"

-----------------------------------------------------------------------------
(* The inductive invariant.                                                *)

\* Where a request may be, given what it asks for, and what it knows there.
Stage(q) ==
    /\ pc[q] = "idle" <=> call[q] = None
    /\ pc[q] = "done" <=> reply[q] # None
    /\ pc[q] = "hash" => call[q].op = "signup"
    /\ pc[q] \in {"find", "verify"} => call[q].op = "login"
    /\ pc[q] = "verify" => loaded[q] \in User
    /\ pc[q] = "load" => call[q].op \notin {"signup", "login"}
    /\ pc[q] = "read" => call[q].op = "get" /\ loaded[q] \in User
    /\ pc[q] = "row" => call[q].op = "edit"
    /\ pc[q] \in {"index", "commit", "reconnect", "refresh"} => call[q].op \in {"signup", "edit"}
    /\ pc[q] \in {"row", "index", "commit", "reconnect", "refresh"} /\ call[q].op = "edit" =>
          loaded[q] \in User /\ users[call[q].who] # None
    /\ pc[q] = "index" => WritesEmail(q)
    /\ pc[q] \in {"second", "check"} => call[q].op = "put"
    /\ pc[q] \in {"third", "state"} => call[q].op \in {"state", "put"}
    /\ pc[q] \notin {"idle", "done"} /\ call[q].op \notin {"signup", "login"} =>
          call[q].who \in Account
    /\ q \in acted => pc[q] \in {"reconnect", "refresh", "third", "state", "done"}
    /\ pc[q] \in {"reconnect", "refresh"} => q \in acted
    /\ pc[q] \in {"third", "state"} /\ call[q].op = "put" => q \in acted

Stages == \A q \in Req : Stage(q)

\* A row is locked by one request at most.
RowLocks ==
    \A q, r \in Req :
        pc[q] \in {"index", "commit"} /\ pc[r] \in {"index", "commit"} /\ Target(q) = Target(r) => q = r

\* An address that is about to be committed is nobody else's.
Claims ==
    \A q \in Req : pc[q] = "commit" /\ WritesEmail(q) =>
        /\ Rivals(q) = {}
        /\ \A r \in Req \ {q} : pc[r] = "commit" /\ WritesEmail(r) =>
              Address[call[r].email] # Address[call[q].email]

Inv ==
    /\ TypeOK /\ Stages /\ NoneKeptWhileHashing /\ AnswersMatchAccounts
    /\ RowLocks /\ Claims /\ OneAccountPerAddress

\* A committed edit has its account, and what an edit loaded are fields that the
\* account began with or was given.
EditsHaveAccounts ==
    \A q \in acted :
        call[q].op = "edit" => call[q].who \in Account /\ users[call[q].who] # None
LoadsAreTraced ==
    \A q \in Req : \A a \in Account :
        /\ pc[q] \in {"row", "index", "commit", "reconnect", "refresh"}
        /\ call[q].op = "edit" /\ call[q].who = a
        => /\ loaded[q].phone \in {First(a).phone} \cup PhonesGiven(a)
           /\ loaded[q].email \in {First(a).email} \cup EmailsGiven(a)

\* A request that talks to the database has a connection for it, and the one
\* that put_migration opens is beside that of its session.
Talking == {"load", "read", "find", "row", "index", "commit", "refresh", "second", "check",
            "third", "state"}
Connected ==
    \A q \in Req :
        /\ pc[q] \in Talking => \E c \in Conn : owner[c] = q
        /\ pc[q] = "check" => \E c, d \in Conn : c # d /\ owner[c] = q /\ owner[d] = q

History ==
    /\ EditsHaveAccounts /\ FieldsHaveWriters /\ LoadsAreTraced /\ ShowsTheEdit
    /\ TakenBySomebodyElse

\* All of it, as one invariant of the runs.
Inductive == Inv /\ History /\ Connected
=============================================================================
