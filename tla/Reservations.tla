---------------------------- MODULE Reservations ----------------------------
(***************************************************************************)
(* POST, PATCH and DELETE /reservations as they run against PostgreSQL:    *)
(* each request is one transaction at READ COMMITTED, and its statements   *)
(* interleave with those of the others (app/routers/reservations.py,       *)
(* app/services/reservations.py, app/models/reservation.py).               *)
(*                                                                         *)
(* PostgreSQL itself is outside the repository.  It is modelled as the     *)
(* code relies on it: row locks are held until commit or rollback, an      *)
(* UPDATE that waited for a lock evaluates its WHERE clause on the newest  *)
(* row, the check of an exclusion constraint waits for a transaction whose *)
(* uncommitted row version would conflict, and a cycle of waits ends with  *)
(* one of the waiting transactions aborted.                                *)
(***************************************************************************)
EXTENDS ReservationData

CONSTANTS
    Staff,          \* the accounts whose role is not customer
    TableId,        \* the ids a client may send, Table among them
    Restaurant,
    Info,           \* restaurant, is_active and capacity of every table
    Stored,         \* the reservations there are before the first request
    Plan,           \* what each request may ask for
    MaxTags,        \* bound: the tags of an If-Match header
    Star,            \* the tag *
    Killable        \* the requests whose worker may die

Booking == [op : {"POST"}, user : User, table : TableId, restaurant : Restaurant,
            window : Window, party : Party]
Patch == [op : {"PATCH"}, user : User, row : Row,
          status : Status \cup {None}, party : Party \cup {None}]
Cancel == [op : {"DELETE"}, user : User, row : Row]
Call == Booking \cup Patch \cup Cancel

ASSUME TableAssumption ==
    /\ Table \subseteq TableId
    /\ Info \in [Table -> [restaurant : Restaurant, active : BOOLEAN, capacity : Nat]]
ASSUME StoredAssumption ==
    /\ \A s \in Seed : Stored[s] \in Tuple /\ Stored[s].version = s
    /\ \A s1, s2 \in Seed : s1 # s2 => ~Clash(Stored[s1], Stored[s2])
ASSUME PlanAssumption ==
    /\ \A q \in Req : Plan[q] \subseteq Call
    /\ None \notin Call
    /\ Staff \subseteq User
    /\ Killable \subseteq Req
    /\ MaxTags \in Nat
ASSUME TagAssumption == Star \notin Version

VARIABLES
    rows,           \* the committed rows of reservations, None where there is none
    pc,             \* the next statement of each request
    call,           \* what each request asks for
    named,          \* the tags of its If-Match header, None without the header
    read,           \* the row its session loaded, None before
    tuple,          \* the row version its transaction wrote, None before
    waits,          \* the transaction its constraint check waits for
    reply           \* the status code it got, and the row in the body

vars == <<rows, pc, call, named, read, tuple, waits, reply>>

States == {"idle", "lock", "insert", "load", "update", "check", "wait",
           "commit", "reload", "done", "lost", "unheard"}

Codes == {200, 201, 400, 403, 404, 409, 412, 428, 500}

Response == [code : Codes, row : Tuple \cup {None}]

ASSUME NoneIsNothingElse ==
    /\ None \notin Response
    /\ \A S \in SUBSET (Version \cup {Star}) : None # S
    /\ None \notin Status

TypeOK ==
    /\ rows \in [Row -> Tuple \cup {None}]
    /\ pc \in [Req -> States]
    /\ call \in [Req -> Call \cup {None}]
    /\ named \in [Req -> {None} \cup SUBSET (Version \cup {Star})]
    /\ read \in [Req -> Tuple \cup {None}]
    /\ tuple \in [Req -> Tuple \cup {None}]
    /\ waits \in [Req -> Req \cup {None}]
    /\ reply \in [Req -> Response \cup {None}]

Init ==
    /\ rows = [r \in Row |-> IF r \in Seed THEN Stored[r] ELSE None]
    /\ pc = [q \in Req |-> "idle"]
    /\ call = [q \in Req |-> None]
    /\ named = [q \in Req |-> None]
    /\ read = [q \in Req |-> None]
    /\ tuple = [q \in Req |-> None]
    /\ waits = [q \in Req |-> None]
    /\ reply = [q \in Req |-> None]

-----------------------------------------------------------------------------
(* What the requests hold and wait for.                                    *)

IsPost(q) == call[q].op = "POST"

\* The row a request inserts or edits.
Target(q) == IF IsPost(q) THEN q ELSE call[q].row

\* The transaction wrote a row version that is not committed yet.
Writing(q) == tuple[q] # None /\ pc[q] \in {"check", "wait", "commit"}

\* The transaction wrote a row version and is committed.
Wrote(q) == tuple[q] # None /\ pc[q] \in {"reload", "done", "unheard"}

\* Mutants of TableHolders: no lock at all, and one that a booking answered
\* 409 keeps because its transaction is never rolled back.
NoTableLock(q) == {}
LeakedTableLock(q) ==
    {p \in Req \ {q} : /\ \/ pc[p] \in {"insert", "check", "wait", "commit"}
                          \/ pc[p] = "done" /\ reply[p].code = 409
                       /\ IsPost(p)
                       /\ call[p].table = call[q].table}

\* The requests that keep q from the FOR NO KEY UPDATE lock of its table.
TableHolders(q) ==
    {p \in Req \ {q} : /\ pc[p] \in {"insert", "check", "wait", "commit"}
                       /\ IsPost(p)
                       /\ call[p].table = call[q].table}

\* Mutant of RowHolders: an UPDATE that waits for no one.
NoRowLock(q) == {}

\* The requests that keep q from the lock of the row it edits.
RowHolders(q) == {p \in Req \ {q} : Writing(p) /\ Target(p) = Target(q)}

\* Mutant of Undecided: a row that is being changed counts as gone.
OnlyNewVersions(q) ==
    {p \in Req \ {q} : Writing(p) /\ Target(p) # Target(q) /\ Clash(tuple[p], tuple[q])}

\* Transactions that are writing a row whose old or new version conflicts
\* with what q wrote.
Undecided(q) ==
    {p \in Req \ {q} : /\ Writing(p)
                       /\ Target(p) # Target(q)
                       /\ \/ Clash(tuple[p], tuple[q])
                          \/ Clash(rows[Target(p)], tuple[q])}

\* Committed rows that conflict with what q wrote and that nobody is changing.
Standing(q) ==
    {r \in Row \ {Target(q)} :
        /\ Clash(rows[r], tuple[q])
        /\ ~\E p \in Req \ {q} : Writing(p) /\ Target(p) = r}

Blockers(q) ==
    CASE pc[q] = "lock" -> TableHolders(q)
      [] pc[q] = "update" -> RowHolders(q)
      [] pc[q] = "wait" -> {waits[q]}
      [] OTHER -> {}

\* q is on a cycle of waits.
Deadlocked(q) ==
    \E S \in SUBSET Req :
        /\ q \in S
        /\ \A p \in S : Blockers(p) \cap S # {}
        /\ \A p \in S : \E s \in S : p \in Blockers(s)

\* Versions that a response about row r has carried, or can have.
Carried(r) ==
    {v \in Version : v = r /\ rows[r] # None} \cup
    {q \in Req : Wrote(q) /\ Target(q) = r}

-----------------------------------------------------------------------------
(* How a handler ends.                                                     *)

Goto(q, s) == pc' = [pc EXCEPT ![q] = s]

Send(q, code, row) ==
    /\ Goto(q, "done")
    /\ reply' = [reply EXCEPT ![q] = [code |-> code, row |-> row]]

\* An exception: the session is rolled back and the client gets the code.
Fail(q, code) ==
    /\ Send(q, code, None)
    /\ tuple' = [tuple EXCEPT ![q] = None]
    /\ UNCHANGED <<rows, call, named, read, waits>>

-----------------------------------------------------------------------------
(* Arrival: the request is parsed and the user is known.                   *)

\* If-Match headers a client may send about row r: none, * or tags it was
\* given.  The empty set stands for a tag that was never a version of r.
Headers(r) ==
    {None} \cup {S \in SUBSET (Carried(r) \cup {Star}) : Cardinality(S) <= MaxTags}

Arrive(q) ==
    /\ pc[q] = "idle"
    /\ \E c \in Plan[q] :
         /\ call' = [call EXCEPT ![q] = c]
         /\ IF c.op = "POST"
            THEN Goto(q, "lock") /\ UNCHANGED named
            ELSE /\ Goto(q, "load")
                 /\ \E h \in Headers(c.row) : named' = [named EXCEPT ![q] = h]
    /\ UNCHANGED <<rows, read, tuple, waits, reply>>

-----------------------------------------------------------------------------
(* POST: create_reservation.                                               *)

BookingRefusal(c) ==
    CASE c.table \notin Table -> 404
      [] c.table \in Table /\ (\/ c.restaurant # Info[c.table].restaurant
                               \/ ~Info[c.table].active
                               \/ c.party > Info[c.table].capacity) -> 400
      [] OTHER -> 0

\* SELECT ... FOR NO KEY UPDATE on the table's row, and the checks after it.
LockTable(q) ==
    /\ pc[q] = "lock"
    /\ TableHolders(q) = {}
    /\ IF BookingRefusal(call[q]) # 0
       THEN Fail(q, BookingRefusal(call[q]))
       ELSE /\ Goto(q, "insert")
            /\ UNCHANGED <<rows, call, named, read, tuple, waits, reply>>

\* INSERT: the new row is visible to no one until the commit.
Insert(q) ==
    /\ pc[q] = "insert"
    /\ tuple' = [tuple EXCEPT ![q] =
                   [table |-> call[q].table, window |-> call[q].window,
                    user |-> call[q].user, party |-> call[q].party,
                    status |-> "confirmed", version |-> q]]
    /\ Goto(q, "check")
    /\ UNCHANGED <<rows, call, named, read, waits, reply>>

-----------------------------------------------------------------------------
(* PATCH and DELETE: _load_owned, check_if_match, update_reservation,      *)
(* cancel_reservation.                                                     *)

MayTouch(q, r) == call[q].user \in Staff \/ r.user = call[q].user

\* check_if_match
HeaderRefusal(q, r) ==
    CASE named[q] = None -> IF call[q].op = "PATCH" THEN 428 ELSE 0
      [] OTHER -> IF Star \in named[q] \/ r.version \in named[q] THEN 0 ELSE 412

EditRefusal(q, r) ==
    CASE r = None -> 404
      [] r # None /\ ~MayTouch(q, r) -> 403
      [] OTHER -> HeaderRefusal(q, r)

\* The row after the attributes of the payload are set on it.
Edited(q, r) ==
    IF call[q].op = "DELETE"
    THEN [r EXCEPT !.status = "cancelled"]
    ELSE [r EXCEPT !.status = IF call[q].status = None THEN @ ELSE call[q].status,
                   !.party = IF call[q].party = None THEN @ ELSE call[q].party]

\* SELECT the reservation, check the caller and If-Match.  When no attribute
\* changes, the commit that follows sends no UPDATE.
Load(q) ==
    LET r == rows[Target(q)]
    IN  /\ pc[q] = "load"
        /\ IF EditRefusal(q, r) # 0
           THEN Fail(q, EditRefusal(q, r))
           ELSE /\ read' = [read EXCEPT ![q] = r]
                /\ Goto(q, IF Edited(q, r) = r THEN "commit" ELSE "update")
                /\ UNCHANGED <<rows, call, named, tuple, waits, reply>>

\* Mutant of VersionMatches: the UPDATE without "AND xmin = :version".
AnyVersion(q) == TRUE

VersionMatches(q) == rows[Target(q)].version = read[q].version

\* The new row version need not enter an index when no indexed column changed
\* and the page has room (heap-only tuple): then there is nothing to check.
\* The status is in the predicate of the constraint's index.
Indexed(q, new) ==
    IF ~Active(new) THEN {FALSE}
    ELSE IF new.status # rows[Target(q)].status THEN {TRUE} ELSE BOOLEAN

\* Mutant of Update: nobody looks at how many rows matched.
IgnoreStale(q) ==
    /\ pc[q] = "update"
    /\ RowHolders(q) = {}
    /\ LET new == [Edited(q, rows[Target(q)]) EXCEPT !.version = q]
       IN  IF VersionMatches(q)
           THEN /\ tuple' = [tuple EXCEPT ![q] = new]
                /\ \E i \in Indexed(q, new) : Goto(q, IF i THEN "check" ELSE "commit")
                /\ UNCHANGED <<rows, call, named, read, waits, reply>>
           ELSE /\ Goto(q, "commit")
                /\ UNCHANGED <<rows, call, named, read, tuple, waits, reply>>

\* UPDATE ... WHERE id = :id AND xmin = :version, once the row is unlocked.
\* No row matched: StaleDataError, answered 409.
Update(q) ==
    /\ pc[q] = "update"
    /\ RowHolders(q) = {}
    /\ LET new == [Edited(q, rows[Target(q)]) EXCEPT !.version = q]
       IN  IF VersionMatches(q)
           THEN /\ tuple' = [tuple EXCEPT ![q] = new]
                /\ \E i \in Indexed(q, new) : Goto(q, IF i THEN "check" ELSE "commit")
                /\ UNCHANGED <<rows, call, named, read, waits, reply>>
           ELSE Fail(q, 409)

-----------------------------------------------------------------------------
(* The check of no_double_booking that follows an INSERT or an UPDATE.     *)

CheckPasses(q) ==
    /\ pc[q] = "check"
    /\ Standing(q) = {} /\ Undecided(q) = {}
    /\ Goto(q, "commit")
    /\ UNCHANGED <<rows, call, named, read, tuple, waits, reply>>

CheckWaits(q) ==
    /\ pc[q] = "check"
    /\ \E p \in Undecided(q) : waits' = [waits EXCEPT ![q] = p]
    /\ Goto(q, "wait")
    /\ UNCHANGED <<rows, call, named, read, tuple, reply>>

\* The transaction it waited for is over: the check starts again.
Resume(q) ==
    /\ pc[q] = "wait"
    /\ ~Writing(waits[q])
    /\ Goto(q, "check")
    /\ waits' = [waits EXCEPT ![q] = None]
    /\ UNCHANGED <<rows, call, named, read, tuple, reply>>

\* The constraint is violated.  create_reservation answers the IntegrityError
\* with 409; _commit_versioned does not catch it.
CheckFails(q) ==
    /\ pc[q] = "check"
    /\ Standing(q) # {}
    /\ Fail(q, IF IsPost(q) THEN 409 ELSE 500)

-----------------------------------------------------------------------------
(* The end of the transaction, and the answer.                             *)

\* PostgreSQL aborts a transaction of a cycle; no handler expects the error.
AbortDeadlock(q) ==
    /\ Deadlocked(q)
    /\ Fail(q, 500)

\* COMMIT: what was written becomes visible and every lock is released.
Commit(q) ==
    /\ pc[q] = "commit"
    /\ rows' = IF tuple[q] = None THEN rows ELSE [rows EXCEPT ![Target(q)] = tuple[q]]
    /\ Goto(q, "reload")
    /\ UNCHANGED <<call, named, read, tuple, waits, reply>>

\* Mutant of Reload: the session answers from its own copy of the row.
ServeLoaded(q) ==
    /\ pc[q] = "reload"
    /\ Send(q, IF IsPost(q) THEN 201 ELSE 200, IF IsPost(q) THEN tuple[q] ELSE read[q])
    /\ UNCHANGED <<rows, call, named, read, tuple, waits>>

\* reload() and the response: the row is read again in a new transaction.
Reload(q) ==
    /\ pc[q] = "reload"
    /\ Send(q, IF IsPost(q) THEN 201 ELSE 200, rows[Target(q)])
    /\ UNCHANGED <<rows, call, named, read, tuple, waits>>

\* The worker dies: no answer, and PostgreSQL rolls back what is uncommitted.
Die(q) ==
    /\ q \in Killable
    /\ pc[q] \in States \ {"idle", "done", "lost", "unheard"}
    /\ IF pc[q] = "reload"
       THEN Goto(q, "unheard") /\ UNCHANGED tuple
       ELSE Goto(q, "lost") /\ tuple' = [tuple EXCEPT ![q] = None]
    /\ UNCHANGED <<rows, call, named, read, waits, reply>>

-----------------------------------------------------------------------------

\* What the server and the database do for a request that has arrived.
Step(q) ==
    \/ LockTable(q) \/ Insert(q)
    \/ Load(q) \/ Update(q)
    \/ CheckPasses(q) \/ CheckWaits(q) \/ Resume(q) \/ CheckFails(q)
    \/ AbortDeadlock(q)
    \/ Commit(q) \/ Reload(q)

Over(q) == pc[q] \in {"done", "lost", "unheard"}

\* Every request is over: the system rests.
Rest == (\A q \in Req : Over(q)) /\ UNCHANGED vars

Next == (\E q \in Req : Arrive(q) \/ Step(q) \/ Die(q)) \/ Rest

Spec == Init /\ [][Next]_vars

\* The server goes on with every request it has accepted, and PostgreSQL looks
\* for deadlocks after deadlock_timeout.  Clients may stay away, workers live.
FairSpec == Spec /\ \A q \in Req : WF_vars(Step(q))

-----------------------------------------------------------------------------
(* Safety.                                                                 *)

\* Whatever requests overlap, whichever workers die: no two committed
\* reservations that are not cancelled hold one table at one instant.
NoDoubleBooking == Exclusive(rows)

\* A booking is refused as taken (409) only when some other reservation for
\* that table and time was really committed, not because of one that was
\* rolled back after all, nor because of one that only touches the window or
\* had been cancelled all along.
LosersLoseToABooking ==
    \A q \in Req :
        (reply[q] # None /\ reply[q].code = 409 /\ IsPost(q)) =>
            \E r \in Row \ {q} :
                /\ rows[r] # None
                /\ rows[r].table = call[q].table
                /\ Instants(rows[r].window) \cap Instants(call[q].window) # {}
                /\ rows[r].status = "cancelled" => rows[r].version # r

\* What the client is told is what happened: a refused or lost request left
\* no row version behind, a booking answered 201 is stored as asked, and an
\* edit answered 200 either wrote or had nothing to change.
AnswersMatchEffects ==
    \A q \in Req : Over(q) =>
        IF reply[q] = None \/ reply[q].code >= 400
        THEN pc[q] # "unheard" =>
               \A r \in Row : rows[r] # None => rows[r].version # q
        ELSE IF IsPost(q)
        THEN /\ rows[q] # None
             /\ rows[q].table = call[q].table /\ rows[q].window = call[q].window
        ELSE Wrote(q) \/ Edited(q, read[q]) = read[q]

\* Of all the edits that read one version of a reservation, at most one is
\* ever written, however their statements interleave (no lost update).
OneEditPerRead ==
    \A q1, q2 \in Req :
        (/\ q1 # q2 /\ Wrote(q1) /\ Wrote(q2)
         /\ ~IsPost(q1) /\ ~IsPost(q2) /\ Target(q1) = Target(q2))
        => read[q1].version # read[q2].version

\* The row in the answer to a request that wrote is never the one it replaced:
\* reload() reads the database again, past the session's own copy.
ServesPastItsWrite ==
    \A q \in Req :
        (reply[q] # None /\ tuple[q] # None) =>
            /\ reply[q].row # None
            /\ ~IsPost(q) => reply[q].row.version # read[q].version

\* A committed reservation is only ever replaced by a request that had read it
\* in exactly that state, and whose If-Match header, unless absent or *, named
\* exactly that version; a PATCH has such a header.
ReplacesWhatItRead ==
    [][\A r \in Row :
          (rows[r] # None /\ rows'[r] # rows[r]) =>
             LET q == rows'[r].version
             IN  /\ rows[r] = read[q]
                 /\ call[q].op = "PATCH" => named[q] # None
                 /\ (named[q] # None /\ Star \notin named[q]) =>
                        rows[r].version \in named[q]]_vars

\* Bookings and cancellations alone never end in a 500: the lock of the table's
\* row keeps them from waiting for each other in a circle.  It takes a PATCH that
\* leaves its reservation active.
ServerErrorsNeedAPatch ==
    (\E q \in Req : reply[q] # None /\ reply[q].code = 500) =>
        \E r \in Req : call[r] # None /\ call[r].op = "PATCH" /\ call[r].status # "cancelled"

-----------------------------------------------------------------------------
(* Why it is safe: the inductive invariant behind the theorems.            *)

\* Each statement belongs to one kind of request, and a row version exists
\* exactly from the statement that writes it.
Shape ==
    \A q \in Req :
        /\ (call[q] = None) = (pc[q] = "idle")
        /\ pc[q] \in {"lock", "insert"} => IsPost(q)
        /\ pc[q] \in {"load", "update"} => ~IsPost(q)
        /\ pc[q] = "insert" => call[q].table \in Table
        /\ pc[q] \in {"idle", "lock", "insert", "load", "update", "lost"} => tuple[q] = None
        /\ pc[q] \in {"check", "wait"} => tuple[q] # None
        /\ (pc[q] \in {"commit", "reload"} /\ IsPost(q)) => tuple[q] # None
        /\ pc[q] \in {"idle", "load"} => read[q] = None
        /\ (reply[q] # None) = (pc[q] = "done")
        /\ pc[q] = "wait" => waits[q] \in Req

\* A request writes under its own version, and a booking writes what it asked.
OwnVersion ==
    \A q \in Req : tuple[q] # None =>
        /\ tuple[q].version = q
        /\ IsPost(q) => /\ tuple[q].status = "confirmed"
                        /\ tuple[q].table = call[q].table
                        /\ tuple[q].window = call[q].window

\* The row of a booking is there once it is committed, and not before.
Entered == \A q \in Req : rows[q] # None <=> (call[q] # None /\ IsPost(q) /\ Wrote(q))

\* An edit has read a row that is still there, at the same table and time.
Anchored ==
    \A q \in Req : (call[q] # None /\ ~IsPost(q)) =>
        /\ pc[q] \in {"update", "check", "wait", "commit", "reload"} => read[q] # None
        /\ (pc[q] \in {"commit", "reload"} /\ tuple[q] = None) => Edited(q, read[q]) = read[q]
        /\ read[q] # None => rows[Target(q)] # None
        /\ Writing(q) => /\ rows[Target(q)] = read[q]
                         /\ tuple[q] = [Edited(q, read[q]) EXCEPT !.version = q]

\* Every version in sight was committed; one version is one state of a row.
Committed == Seed \cup {q \in Req : Wrote(q)}
VersionsTell ==
    /\ \A r \in Row : rows[r] # None => rows[r].version \in Committed
    /\ \A q \in Req : read[q] # None =>
          /\ read[q].version \in Committed
          /\ (rows[Target(q)] # None /\ rows[Target(q)].version = read[q].version)
                => rows[Target(q)] = read[q]

\* One transaction at a time writes a row.
RowLocked ==
    \A p, q \in Req : (p # q /\ Writing(p) /\ Writing(q)) => Target(p) # Target(q)

\* What is committed, and what is about to be, never clashes: the check of
\* the second of two writers sees what the first wrote.
NoClash ==
    /\ \A r1, r2 \in Row : r1 # r2 => ~Clash(rows[r1], rows[r2])
    /\ \A q \in Req : (pc[q] = "commit" /\ tuple[q] # None) =>
          /\ \A r \in Row \ {Target(q)} : ~Clash(rows[r], tuple[q])
          /\ \A p \in Req \ {q} :
                (pc[p] = "commit" /\ tuple[p] # None) => ~Clash(tuple[p], tuple[q])

Inv ==
    /\ TypeOK /\ Shape /\ OwnVersion /\ Entered /\ Anchored
    /\ VersionsTell /\ RowLocked /\ NoClash

\* What the requests leave behind: a load honoured If-Match, a replaced version
\* is gone for good, a row stays where it was booked, an answer is the truth.
Honoured ==
    \A q \in Req : read[q] # None =>
        /\ call[q].op = "PATCH" => named[q] # None
        /\ (named[q] # None /\ Star \notin named[q]) => read[q].version \in named[q]
Retired ==
    \A q \in Req : (Wrote(q) /\ ~IsPost(q)) =>
        read[q] # None /\ rows[Target(q)].version # read[q].version
Placed ==
    \A q \in Req : rows[q] # None =>
        rows[q].table = call[q].table /\ rows[q].window = call[q].window
Truthful ==
    \A q \in Req : reply[q] # None =>
        IF reply[q].code >= 400 THEN tuple[q] = None
        ELSE /\ IsPost(q) => tuple[q] # None
             /\ (~IsPost(q) /\ tuple[q] = None) => Edited(q, read[q]) = read[q]

History == Honoured /\ Retired /\ OneEditPerRead /\ Placed /\ Truthful

\* Who can wait for whom: one booking at a time is past the lock of a table,
\* only an edit that leaves its reservation active has the constraint checked,
\* and so a booking that waits there waits for an edit.
TableLocked ==
    \A p, q \in Req :
        (/\ p # q
         /\ pc[p] \in {"insert", "check", "wait", "commit"} /\ IsPost(p)
         /\ pc[q] \in {"insert", "check", "wait", "commit"} /\ IsPost(q))
        => call[p].table # call[q].table
EditsChecked ==
    \A q \in Req :
        (pc[q] \in {"check", "wait"} /\ ~IsPost(q)) =>
            call[q].op = "PATCH" /\ call[q].status # "cancelled"
BookingsWaitForEdits ==
    \A q \in Req :
        (pc[q] = "wait" /\ IsPost(q)) => call[waits[q]] # None /\ ~IsPost(waits[q])

Circles == TableLocked /\ EditsChecked /\ BookingsWaitForEdits

\* All of it, as one invariant of the runs.
Inductive == Inv /\ History /\ Circles

-----------------------------------------------------------------------------
(* Liveness.                                                               *)

\* Every request the server accepted ends: no wait for a row lock, a table
\* lock or another transaction lasts for ever, deadlocks included.
EveryRequestEnds == \A q \in Req : pc[q] # "idle" ~> Over(q)

-----------------------------------------------------------------------------
(* The endpoints implement the ledger.                                     *)

\* A request takes effect when its transaction commits.
Verdict(q) ==
    CASE pc[q] \in {"reload", "unheard"} -> "applied"
      [] pc[q] = "done" -> IF reply[q].code < 400 THEN "applied" ELSE "refused"
      [] pc[q] = "lost" -> "refused"
      [] OTHER -> "open"

Ledger == INSTANCE BookingLedger
            WITH book <- rows, shown <- read, verdict <- [q \in Req |-> Verdict(q)]

\* Every behaviour of the endpoints is, seen from the committed table, one of
\* single steps on a book that never holds overlapping reservations.
ImplementsLedger == Ledger!Spec

-----------------------------------------------------------------------------
(* What the documentation says and the code does not keep.                 *)

\* docs/API_CONTRACT.md, PATCH /reservations/{id}: the codes it lists.
PatchCodesDocumented ==
    \A q \in Req :
        (reply[q] # None /\ call[q].op = "PATCH") =>
            reply[q].code \in {200, 403, 404, 409, 412, 428}

=============================================================================
