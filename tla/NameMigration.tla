--------------------------- MODULE NameMigration ---------------------------
(***************************************************************************)
(* The migration of reservations.guest_name to first_name and last_name    *)
(* while the API serves requests: the phase in the memory of the one       *)
(* worker (app/migration.py), the admin endpoint that changes it           *)
(* (app/routers/admin.py), the schema revisions 0002 to 0004, the backfill *)
(* script, the operator who runs them one after the other, and the name    *)
(* columns that requests write and read (app/services/reservations.py).    *)
(*                                                                         *)
(* first_name and last_name are written and read together: they are one    *)
(* column "parts", and a name here is one that survives the split.         *)
(* Statements of PostgreSQL and segments of a coroutine between two awaits *)
(* are the atomic steps.                                                   *)
(***************************************************************************)
EXTENDS Integers, Sequences, FiniteSets, FiniteSetsExt

CONSTANTS
    Seed,           \* ids of the reservations there are at first
    Req,            \* ids of requests, and of the reservations they create
    Name,
    Blank,          \* the empty name
    None,           \* NULL, no row, no answer
    Stored,         \* the name of each reservation of Seed
    Plan,           \* what each request may ask for
    Script,         \* the steps of the operator
    Patient,        \* the operator lets the requests under way end first, and
                    \* does not restart the server while a revision runs
    Env, Unchecked, \* per step of the script, what NAME_MIGRATION_PHASE in .env may
                    \* be at a start whose check of the schema gets an answer from
                    \* PostgreSQL, and at one whose check raises
    BatchSize,
    MaxPasses,
    MaxRestarts,    \* bound: how often the server restarts
    MaxTimeouts     \* bound: how often a statement of 0004 gets no lock in 5 s

Row == Seed \cup Req

Phase == {"legacy", "dual_write", "read_new", "new_only"}

Column == {"guest", "parts"}

Call == [op : {"create"}, name : Name] \cup [op : {"rename"}, row : Row, name : Name]
        \cup [op : {"touch", "get"}, row : Row]

Operation == [do : {"upgrade", "downgrade"}, to : 1 .. 4] \cup
             [do : {"phase", "attempt"}, to : Phase] \cup [do : {"backfill"}]

\* What is stored, what a statement writes, and what is answered.
Record == [guest : Name \cup {Blank, None}, parts : Name \cup {Blank, None}, version : Nat]
Values == UNION {[C -> Name] : C \in SUBSET Column}
Reply == [code : {200, 201, 400, 409, 500}, name : Name \cup {Blank, None}]

ASSUME RowAssumption ==
    /\ Seed \subseteq Nat /\ Req \subseteq Nat /\ Seed \cap Req = {}
    /\ IsFiniteSet(Row)
ASSUME NameAssumption ==
    /\ Blank \notin Name
    /\ None \notin Name \cup {Blank} \cup Call \cup Phase \cup Record \cup Values \cup Reply
    /\ \A S \in SUBSET Row : S # None
    /\ Stored \in [Seed -> Name]
ASSUME ScriptAssumption == Script \in Seq(Operation)
ASSUME PlanAssumption == \A q \in Req : Plan[q] \subseteq Call
ASSUME BoundAssumption ==
    /\ Patient \in BOOLEAN
    /\ Env \in [1 .. Len(Script) + 1 -> SUBSET Phase]
    /\ Unchecked \in [1 .. Len(Script) + 1 -> SUBSET Phase]
    /\ BatchSize \in Nat \ {0} /\ MaxPasses \in Nat \ {0}
    /\ MaxRestarts \in Nat /\ MaxTimeouts \in Nat

VARIABLES
    revision,       \* the Alembic revision of the schema, 1 for 0001
    table,          \* the committed rows: columns and version (xmin)
    contract,       \* revision 0004: its next statement, 0 when it does not run,
                    \* and what its statements have left in the schema
    phase,          \* _current of app/migration.py
    asked,          \* the phase a PUT has checked and is about to set
    step,           \* the operator's place in the script
    older,          \* the requests under way when the last step took effect
    job,            \* the backfill process
    rebuilt,        \* the downgrade of 0003: the rows whose guest_name it has
                    \* rewritten and not committed, None when it does not run
    restarts,       \* how often the server has restarted
    timeouts,       \* how often 0004 has given up
    pc, call,       \* per request: its next segment or statement, and payload
    cols,           \* the columns its last SELECT was composed with
    got,            \* the row as its session holds it
    vals,           \* the columns it writes, with the row version it expects
    reply           \* the answer

schema == <<revision, table, contract, phase>>
operator == <<asked, step, older, job, rebuilt, restarts, timeouts>>
requests == <<pc, call, cols, got, vals, reply>>
vars == <<revision, table, contract, phase, asked, step, older, job, rebuilt, restarts,
          timeouts, pc, call, cols, got, vals, reply>>

-----------------------------------------------------------------------------
(* Phases and columns.                                                     *)

\* Mutant of Writes: new_only goes on writing guest_name.
WritesOn == [p \in Phase |-> IF p = "legacy" THEN {"guest"} ELSE {"guest", "parts"}]

\* WRITE_COLUMNS and READ_COLUMNS
Writes == [p \in Phase |-> CASE p = "legacy" -> {"guest"}
                             [] p = "new_only" -> {"parts"}
                             [] OTHER -> {"guest", "parts"}]
Reads == [p \in Phase |-> IF p \in {"legacy", "dual_write"} THEN {"guest"} ELSE {"parts"}]

\* The name columns of a revision, and those of them that are NOT NULL.
Present(rev) == {c \in Column : (c = "guest" /\ rev <= 3) \/ (c = "parts" /\ rev >= 2)}
NotNull(rev) == {c \in Column : \/ c = "guest" /\ rev <= 2
                                \/ c = "parts" /\ (contract.check \/ contract.notNull)}

\* The schema of a revision serves a phase.
Serves(rev, p) == Writes[p] \cup Reads[p] \subseteq Present(rev) /\ NotNull(rev) \subseteq Writes[p]

Rows == {r \in Row : table[r] # None}
Awaiting == {r \in Rows : table[r].parts = None}
MissingLegacy == {r \in Rows : table[r].guest = None}
Mismatched ==
    {r \in Rows : table[r].parts # None /\ table[r].guest # None
                  /\ table[r].parts # table[r].guest}

\* The name that the columns C of a row give: a NULL first_name and last_name
\* are joined to the empty string.
Shown(row, C) ==
    IF "guest" \in C THEN row.guest ELSE IF row.parts = None THEN Blank ELSE row.parts

\* Mutant of Refused: stale new names are not looked for.
RefusedUnmatched(p) ==
    \/ ~(Writes[p] \cup Reads[p] \subseteq Present(revision))
    \/ "guest" \in Reads[p] /\ MissingLegacy # {}
    \/ "parts" \in Reads[p] /\ Awaiting # {}
    \/ "guest" \notin Writes[p] /\ "guest" \in NotNull(revision)

\* Mutant of Refused: rows without guest_name are not looked for.
RefusedFilled(p) ==
    \/ ~(Writes[p] \cup Reads[p] \subseteq Present(revision))
    \/ "parts" \in Reads[p] /\ Awaiting # {}
    \/ "parts" \in Reads[p] /\ Mismatched # {}
    \/ "guest" \notin Writes[p] /\ "guest" \in NotNull(revision)

\* refusal(): why a phase cannot be entered now.
Refused(p) ==
    \/ ~(Writes[p] \cup Reads[p] \subseteq Present(revision))
    \/ "guest" \in Reads[p] /\ MissingLegacy # {}
    \/ "parts" \in Reads[p] /\ Awaiting # {}
    \/ "parts" \in Reads[p] /\ Mismatched # {}
    \/ "guest" \notin Writes[p] /\ "guest" \in NotNull(revision)

-----------------------------------------------------------------------------
(* Who is under way, and which locks are held.                             *)

Over(q) == pc[q] \in {"done", "lost"}
Running == {q \in Req : pc[q] # "idle" /\ ~Over(q)}

Target(q) == IF call[q].op = "create" THEN q ELSE call[q].row

\* The transactions that hold the lock of row r: an edit that has updated it, the
\* backfill from its SELECT ... FOR UPDATE on, and the downgrade of 0003.
EditHolds(r) == \E q \in Running : pc[q] = "commit" /\ vals[q] # None /\ Target(q) = r
BatchHolds(r) == r \in job.batch
RebuildHolds(r) == rebuilt # None /\ r \in rebuilt

\* A transaction that has touched the table keeps DDL from it until it ends;
\* a booking has not before its INSERT.
Touching(q) == pc[q] \in {"edit", "update", "commit", "answer"}
Quiet == job.batch = {} /\ \A q \in Req : ~Touching(q)

-----------------------------------------------------------------------------
(* Requests.                                                               *)

Goto(q, s) == pc' = [pc EXCEPT ![q] = s]

Send(q, code, n) ==
    /\ Goto(q, "done")
    /\ reply' = [reply EXCEPT ![q] = [code |-> code, name |-> n]]

\* An exception: the session is rolled back, and with it a write that has not
\* been committed.
Fail(q, code) ==
    /\ Send(q, code, None)
    /\ vals' = [vals EXCEPT ![q] = IF pc[q] \in {"insert", "update"} THEN None ELSE @]
    /\ UNCHANGED <<call, cols, got>>

\* write_name: the columns that the current phase writes.
NamesOf(n) == [c \in Writes[phase] |-> n]

\* The handler composes its first statement on reservations.
Arrive(q) ==
    /\ pc[q] = "idle"
    /\ \E c \in Plan[q] :
         /\ call' = [call EXCEPT ![q] = c]
         /\ IF c.op = "create"
            THEN /\ vals' = [vals EXCEPT ![q] = NamesOf(c.name)]
                 /\ Goto(q, "insert")
                 /\ UNCHANGED cols
            ELSE /\ table[c.row] # None
                 /\ cols' = [cols EXCEPT ![q] = Reads[phase]]
                 /\ Goto(q, "load")
                 /\ UNCHANGED vals
    /\ UNCHANGED <<schema, operator, got, reply>>

\* SELECT with the columns it was composed with: _load_owned, or reload()
\* after the commit.
Select(q) ==
    /\ pc[q] \in {"load", "fetch"}
    /\ IF cols[q] \subseteq Present(revision)
       THEN /\ got' = [got EXCEPT ![q] = table[Target(q)]]
            /\ Goto(q, IF pc[q] = "load" /\ call[q].op \in {"rename", "touch"} THEN "edit" ELSE "answer")
            /\ UNCHANGED <<call, cols, vals, reply>>
       ELSE Fail(q, 500)
    /\ UNCHANGED <<schema, operator>>

\* The name columns that an edit writes: a loaded attribute that does not change
\* is not written, and a PATCH of the party size calls no write_name.
Changed(q) ==
    IF call[q].op = "touch" THEN {}
    ELSE {c \in Writes[phase] : ~(c \in cols[q] /\ got[q][c] = call[q].name)}

\* update_reservation: nothing to write is a commit without an UPDATE.
Edit(q) ==
    /\ pc[q] = "edit"
    /\ IF call[q].op = "rename" /\ Changed(q) = {}
       THEN Goto(q, "commit") /\ UNCHANGED vals
       ELSE /\ vals' = [vals EXCEPT ![q] = [c \in Changed(q) |-> call[q].name]]
            /\ Goto(q, "update")
    /\ UNCHANGED <<schema, operator, call, cols, got, reply>>

\* INSERT: an unknown column is an error nobody expects, a NULL where none may
\* be an IntegrityError that is answered 400.
Insert(q) ==
    /\ pc[q] = "insert"
    /\ IF ~(DOMAIN vals[q] \subseteq Present(revision)) THEN Fail(q, 500)
       ELSE IF ~(NotNull(revision) \subseteq DOMAIN vals[q]) THEN Fail(q, 400)
       ELSE Goto(q, "commit") /\ UNCHANGED <<call, cols, got, vals, reply>>
    /\ UNCHANGED <<schema, operator>>

\* UPDATE ... WHERE id = :id AND xmin = :version
Update(q) ==
    /\ pc[q] = "update"
    /\ ~EditHolds(Target(q)) /\ ~BatchHolds(Target(q)) /\ ~RebuildHolds(Target(q))
    /\ IF ~(DOMAIN vals[q] \subseteq Present(revision)) THEN Fail(q, 500)
       ELSE IF table[Target(q)].version # got[q].version THEN Fail(q, 409)
       ELSE Goto(q, "commit") /\ UNCHANGED <<call, cols, got, vals, reply>>
    /\ UNCHANGED <<schema, operator>>

\* The downgrade waits for the table, which this request has read, and the request
\* for a row of the downgrade: PostgreSQL ends one of them.  The error is no
\* StaleDataError, and nobody catches it.
Victim(q) ==
    /\ pc[q] = "update" /\ RebuildHolds(Target(q))
    /\ Fail(q, 500)
    /\ UNCHANGED <<schema, operator>>

NewRow == [guest |-> None, parts |-> None, version |-> 0]

\* The row with the columns of v set, under the next version.
Overlay(row, v) ==
    [guest |-> IF "guest" \in DOMAIN v THEN v["guest"] ELSE row.guest,
     parts |-> IF "parts" \in DOMAIN v THEN v["parts"] ELSE row.parts,
     version |-> row.version + 1]

\* COMMIT
Commit(q) ==
    LET old == IF call[q].op = "create" THEN NewRow ELSE table[Target(q)]
    IN  /\ pc[q] = "commit"
        /\ table' = IF vals[q] = None THEN table
                    ELSE [table EXCEPT ![Target(q)] = Overlay(old, vals[q])]
        /\ Goto(q, "reload")
        /\ UNCHANGED <<revision, contract, phase, operator, call, cols, got, vals, reply>>

\* reload() composes its SELECT under the phase of this moment.
Reload(q) ==
    /\ pc[q] = "reload"
    /\ cols' = [cols EXCEPT ![q] = Reads[phase]]
    /\ Goto(q, "fetch")
    /\ UNCHANGED <<schema, operator, call, got, vals, reply>>

\* _fields() asks for the phase again.  A column that was not loaded raises,
\* and the response model does not take a NULL name.
Answer(q) ==
    /\ pc[q] = "answer"
    /\ IF Reads[phase] \subseteq cols[q] /\ Shown(got[q], Reads[phase]) # None
       THEN /\ Send(q, IF call[q].op = "create" THEN 201 ELSE 200, Shown(got[q], Reads[phase]))
            /\ UNCHANGED <<call, cols, got, vals>>
       ELSE Fail(q, 500)
    /\ UNCHANGED <<schema, operator>>

Step(q) ==
    \/ Select(q) \/ Edit(q) \/ Insert(q) \/ Update(q) \/ Victim(q)
    \/ Commit(q) \/ Reload(q) \/ Answer(q)

-----------------------------------------------------------------------------
(* The operator: one step of the script after the other.                   *)

Now(op) == step <= Len(Script) /\ Script[step].do = op

Ready == ~job.on /\ contract.at = 0 /\ rebuilt = None /\ (Patient => older \cap Running = {})

NextStep == step' = step + 1 /\ older' = Running

\* alembic upgrade: 0002 adds the columns, 0003 drops NOT NULL, each in one
\* transaction: a lock timeout leaves nothing behind.  0004 refuses rows without
\* a first_name and goes on to its statements.  A revision that is there already
\* is left alone.
Upgrade ==
    /\ Now("upgrade") /\ Ready
    /\ IF Script[step].to <= revision THEN NextStep /\ UNCHANGED <<revision, contract>>
       ELSE IF revision = 3
       THEN /\ Awaiting = {}
            /\ contract' = [contract EXCEPT !.at = 1]
            /\ UNCHANGED <<revision, step, older>>
       ELSE /\ Quiet /\ NextStep
            /\ revision' = revision + 1
            /\ UNCHANGED contract
    /\ UNCHANGED <<table, phase, asked, job, rebuilt, restarts, timeouts, requests>>

\* Every statement but VALIDATE needs the table for itself.
Statement(n) == contract.at = n /\ (n # 2 => Quiet)

Stops == contract' = [contract EXCEPT !.at = 0]

\* ADD CONSTRAINT ... CHECK ... NOT VALID: an error when it is there already.
AddCheck ==
    /\ Statement(1)
    /\ IF contract.check THEN Stops
       ELSE contract' = [contract EXCEPT !.at = 2, !.check = TRUE]
    /\ UNCHANGED <<revision, table, step, older>>

Validate ==
    /\ Statement(2)
    /\ IF Awaiting # {} THEN Stops ELSE contract' = [contract EXCEPT !.at = 3]
    /\ UNCHANGED <<revision, table, step, older>>

SetNotNull ==
    /\ Statement(3)
    /\ contract' = [contract EXCEPT !.at = 4, !.notNull = TRUE]
    /\ UNCHANGED <<revision, table, step, older>>

DropCheck ==
    /\ Statement(4)
    /\ contract' = [contract EXCEPT !.at = 5, !.check = FALSE]
    /\ UNCHANGED <<revision, table, step, older>>

\* The transaction that drops guest_name and stores the revision.
DropName ==
    /\ Statement(5)
    /\ Stops
    /\ revision' = 4
    /\ table' = [r \in Row |-> IF r \in Rows THEN [table[r] EXCEPT !.guest = None] ELSE None]
    /\ IF Now("upgrade") THEN NextStep ELSE UNCHANGED <<step, older>>

Contract ==
    /\ AddCheck \/ Validate \/ SetNotNull \/ DropCheck \/ DropName
    /\ UNCHANGED <<phase, asked, job, rebuilt, restarts, timeouts, requests>>

\* lock_timeout: alembic ends, the statements before stay, and the operator
\* runs the same command again.
LockTimeout ==
    /\ contract.at \in {1, 3, 4, 5} /\ ~Quiet
    /\ timeouts < MaxTimeouts
    /\ timeouts' = timeouts + 1
    /\ Stops
    /\ UNCHANGED <<revision, table, phase, asked, step, older, job, rebuilt, restarts, requests>>

Rewritten(row, guest) == [row EXCEPT !.guest = guest, !.version = @ + 1]

\* A row after the downgrade: to 0003 guest_name comes back, to 0001 the new
\* columns go.
Downgraded(row) ==
    IF revision = 4 THEN Rewritten(row, Shown(row, {"parts"})) ELSE [row EXCEPT !.parts = None]

\* alembic downgrade.  That of 0004 and that of 0002 begin with a statement that
\* takes the table for the whole transaction.  That of 0003 begins with an UPDATE
\* of the rows without guest_name, which waits for edits of them.
Downgrade ==
    /\ Now("downgrade") /\ Ready
    /\ IF Script[step].to >= revision THEN NextStep /\ UNCHANGED <<revision, table, contract, rebuilt>>
       ELSE IF revision = 3
       THEN /\ \A r \in MissingLegacy : ~EditHolds(r)
            /\ rebuilt' = MissingLegacy
            /\ UNCHANGED <<revision, table, contract, step, older>>
       ELSE /\ Quiet /\ NextStep
            /\ revision' = revision - 1
            /\ contract' = [at |-> 0, check |-> contract.check /\ revision # 2,
                            notNull |-> FALSE]
            /\ table' = [r \in Row |-> IF r \in Rows THEN Downgraded(table[r]) ELSE None]
            /\ UNCHANGED rebuilt
    /\ UNCHANGED <<phase, asked, job, restarts, timeouts, requests>>

\* Mutant of Restore: guest_name is filled with the empty string.
RestoreBlank ==
    /\ rebuilt # None /\ Quiet
    /\ rebuilt' = None
    /\ IF MissingLegacy \subseteq rebuilt
       THEN /\ revision' = 2
            /\ table' = [r \in Row |-> IF r \in rebuilt
                                       THEN Rewritten(table[r], Blank)
                                       ELSE table[r]]
            /\ IF Now("downgrade") THEN NextStep ELSE UNCHANGED <<step, older>>
       ELSE UNCHANGED <<revision, table, step, older>>
    /\ UNCHANGED <<contract, phase, asked, job, restarts, timeouts, requests>>

\* ALTER COLUMN guest_name SET NOT NULL, and the COMMIT of both statements; a row
\* that was booked without guest_name in between ends them in an error.
Restore ==
    /\ rebuilt # None /\ Quiet
    /\ rebuilt' = None
    /\ IF MissingLegacy \subseteq rebuilt
       THEN /\ revision' = 2
            /\ table' = [r \in Row |-> IF r \in rebuilt
                                       THEN Rewritten(table[r], Shown(table[r], {"parts"}))
                                       ELSE table[r]]
            /\ IF Now("downgrade") THEN NextStep ELSE UNCHANGED <<step, older>>
       ELSE UNCHANGED <<revision, table, step, older>>
    /\ UNCHANGED <<contract, phase, asked, job, restarts, timeouts, requests>>

\* lock_timeout, or the downgrade is what PostgreSQL ends: it is rolled back, and
\* run again like any step, after the requests under way.
GiveUp ==
    /\ rebuilt # None /\ ~Quiet
    /\ rebuilt' = None
    /\ older' = Running
    /\ UNCHANGED <<schema, asked, step, job, restarts, timeouts, requests>>

\* PUT /admin/migration: first the check, on a connection of its own ...
Ask ==
    /\ Now("phase") \/ Now("attempt")
    /\ Ready /\ asked = None
    /\ ~Refused(Script[step].to)
    /\ asked' = Script[step].to
    /\ UNCHANGED <<schema, step, older, job, rebuilt, restarts, timeouts, requests>>

\* 409: an operator who only wanted to see it goes on.
TurnedDown ==
    /\ Now("attempt") /\ Ready /\ asked = None
    /\ Refused(Script[step].to)
    /\ NextStep
    /\ UNCHANGED <<schema, asked, job, rebuilt, restarts, timeouts, requests>>

\* ... then set_phase().
Switch ==
    /\ asked # None
    /\ phase' = asked
    /\ asked' = None
    /\ NextStep
    /\ UNCHANGED <<revision, table, contract, job, rebuilt, restarts, timeouts, requests>>

Idle == [on |-> FALSE, after |-> 0, batch |-> {}, filled |-> FALSE, pass |-> 0]

StartBackfill ==
    /\ Now("backfill") /\ Ready
    /\ Present(revision) = Column
    /\ job' = [Idle EXCEPT !.on = TRUE, !.pass = 1]
    /\ UNCHANGED <<schema, asked, step, older, rebuilt, restarts, timeouts, requests>>

\* Rows after the cursor that await their names and are not locked.
Candidates == {r \in Awaiting : r > job.after /\ ~EditHolds(r)}

\* SELECT id, guest_name ... ORDER BY id LIMIT n FOR UPDATE SKIP LOCKED
TakeBatch ==
    /\ job.on /\ job.batch = {} /\ Candidates # {}
    /\ job' = [job EXCEPT !.batch =
                 {r \in Candidates : Cardinality({s \in Candidates : s < r}) < BatchSize}]
    /\ UNCHANGED <<schema, asked, step, older, rebuilt, restarts, timeouts, requests>>

\* FILL and COMMIT
Fill ==
    /\ job.batch # {}
    /\ table' = [r \in Row |->
         IF r \in job.batch
         THEN [table[r] EXCEPT !.parts = IF table[r].guest = None THEN Blank ELSE table[r].guest,
                               !.version = @ + 1]
         ELSE table[r]]
    /\ job' = [job EXCEPT !.batch = {}, !.after = Max(job.batch), !.filled = TRUE]
    /\ UNCHANGED <<revision, contract, phase, asked, step, older, rebuilt, restarts, timeouts, requests>>

\* Mutant of EndPass: one pass more than MAX_PASSES.
OnePassMore ==
    /\ job.on /\ job.batch = {} /\ Candidates = {}
    /\ IF Awaiting = {} \/ ~job.filled \/ job.pass > MaxPasses
       THEN /\ job' = Idle
            /\ IF Awaiting = {} /\ Mismatched = {} /\ Now("backfill")
               THEN NextStep ELSE UNCHANGED <<step, older>>
       ELSE /\ job' = [Idle EXCEPT !.on = TRUE, !.pass = job.pass + 1]
            /\ UNCHANGED <<step, older>>
    /\ UNCHANGED <<schema, asked, rebuilt, restarts, timeouts, requests>>

\* Mutant of EndPass: without --verify.
EndPassUnverified ==
    /\ job.on /\ job.batch = {} /\ Candidates = {}
    /\ IF Awaiting = {} \/ ~job.filled \/ job.pass = MaxPasses
       THEN /\ job' = Idle
            /\ IF Now("backfill") THEN NextStep ELSE UNCHANGED <<step, older>>
       ELSE /\ job' = [Idle EXCEPT !.on = TRUE, !.pass = job.pass + 1]
            /\ UNCHANGED <<step, older>>
    /\ UNCHANGED <<schema, asked, rebuilt, restarts, timeouts, requests>>

\* The pass is over: another one, or --verify and, when it fails, the operator
\* runs the script again.
EndPass ==
    /\ job.on /\ job.batch = {} /\ Candidates = {}
    /\ IF Awaiting = {} \/ ~job.filled \/ job.pass = MaxPasses
       THEN /\ job' = Idle
            /\ IF Awaiting = {} /\ Mismatched = {} /\ Now("backfill")
               THEN NextStep ELSE UNCHANGED <<step, older>>
       ELSE /\ job' = [Idle EXCEPT !.on = TRUE, !.pass = job.pass + 1]
            /\ UNCHANGED <<step, older>>
    /\ UNCHANGED <<schema, asked, rebuilt, restarts, timeouts, requests>>

Operate ==
    \/ Upgrade \/ Contract \/ Downgrade \/ Restore \/ Ask \/ TurnedDown \/ Switch
    \/ StartBackfill \/ TakeBatch \/ Fill \/ EndPass

-----------------------------------------------------------------------------
(* The server restarts: what was in flight is lost, and start-up falls     *)
(* back from the phase of .env to the first one that fits.                 *)

Candidate == <<"new_only", "read_new", "dual_write", "legacy">>

\* reconcile_with_schema
Reconciled(p) ==
    LET fits == {i \in 1 .. 4 : ~Refused(Candidate[i])}
    IN  IF ~Refused(p) \/ fits = {} THEN p ELSE Candidate[Min(fits)]

\* The phase changes that are done: the operator repeats the last of them.
Phases == {i \in 1 .. step - 1 : Script[i].do = "phase"}

\* lifespan: an exception of the check is swallowed, and the phase stays that of
\* .env.
Restart ==
    /\ restarts < MaxRestarts
    /\ Patient => contract.at = 0 /\ rebuilt = None
    /\ restarts' = restarts + 1
    /\ \/ \E p \in Env[step] : phase' = Reconciled(p)
       \/ \E p \in Unchecked[step] : phase' = p
    /\ asked' = None
    /\ step' = IF Phases = {} THEN step ELSE Max(Phases)
    /\ pc' = [q \in Req |-> IF q \in Running THEN "lost" ELSE pc[q]]
    /\ vals' = [q \in Req |-> IF pc[q] \in {"insert", "update", "commit"} THEN None ELSE vals[q]]
    /\ UNCHANGED <<revision, table, contract, older, job, rebuilt, timeouts, call, cols, got, reply>>

-----------------------------------------------------------------------------

Init ==
    /\ revision = 1
    /\ table = [r \in Row |-> IF r \in Seed
                              THEN [guest |-> Stored[r], parts |-> None, version |-> 0]
                              ELSE None]
    /\ contract = [at |-> 0, check |-> FALSE, notNull |-> FALSE]
    /\ phase = "legacy"
    /\ asked = None
    /\ step = 1
    /\ older = {}
    /\ job = Idle /\ rebuilt = None
    /\ restarts = 0 /\ timeouts = 0
    /\ pc = [q \in Req |-> "idle"]
    /\ call = [q \in Req |-> None]
    /\ cols = [q \in Req |-> {}]
    /\ got = [q \in Req |-> None]
    /\ vals = [q \in Req |-> None]
    /\ reply = [q \in Req |-> None]

Next == (\E q \in Req : Arrive(q) \/ Step(q)) \/ Operate
        \/ LockTimeout \/ GiveUp \/ Restart

Spec == Init /\ [][Next]_vars

\* The event loop resumes every request, and the operator carries on.
FairSpec == Spec /\ WF_vars(Operate) /\ \A q \in Req : WF_vars(Step(q))

-----------------------------------------------------------------------------
(* Properties.                                                             *)

\* Every variable has its type; the backfill's passes and the give-ups of 0004
\* stay within their bounds.
SchemaTypes ==
    /\ revision \in 1 .. 4
    /\ table \in [Row -> {None} \cup Record]
    /\ contract \in [at : 0 .. 5, check : BOOLEAN, notNull : BOOLEAN]
    /\ phase \in Phase
OperatorTypes ==
    /\ asked \in Phase \cup {None}
    /\ step \in 1 .. Len(Script) + 1 /\ older \subseteq Req
    /\ job \in [on : BOOLEAN, after : Row \cup {0}, batch : SUBSET Row, filled : BOOLEAN,
                pass : 0 .. MaxPasses]
    /\ rebuilt \in {None} \cup SUBSET Row
    /\ restarts \in 0 .. MaxRestarts /\ timeouts \in 0 .. MaxTimeouts
RequestTypes ==
    /\ pc \in [Req -> {"idle", "load", "edit", "update", "insert", "commit", "reload",
                       "fetch", "answer", "done", "lost"}]
    /\ call \in [Req -> Call \cup {None}]
    /\ cols \in [Req -> SUBSET Column]
    /\ got \in [Req -> {None} \cup Record]
    /\ vals \in [Req -> {None} \cup Values]
    /\ reply \in [Req -> {None} \cup Reply]
TypeOK == SchemaTypes /\ OperatorTypes /\ RequestTypes

\* The name of a reservation as the current phase reads it.
Visible(r) == IF table[r] = None THEN None ELSE Shown(table[r], Reads[phase])

\* What a request has read for its answer.
Seen(q) ==
    IF pc[q] = "answer" THEN Shown(got[q], cols[q])
    ELSE IF reply[q] = None THEN None ELSE reply[q].name

\* The requests that have committed a name.
Written ==
    {q \in Req : /\ vals[q] # None /\ call[q].op # "touch"
                 /\ pc[q] \in {"reload", "fetch", "answer", "done", "lost"}}

\* The phases, the revisions and the backfill implement a register of names:
\* a name only changes when a request sets it, to what the request asked, and
\* answers carry names that the reservation had while the request ran.
Register == INSTANCE NameRegister
              WITH name <- [r \in Row |-> Visible(r)], applied <- Written,
                   seen <- [q \in Req |-> Seen(q)]
ClientsCannotTell == Register!Spec

\* A name only changes when a request commits one, and then to that name.
OnlyClientsChangeNames ==
    [][\A r \in Row : Visible(r)' # Visible(r) =>
          \E q \in Written' \ Written : Target(q)' = r /\ Visible(r)' = call[q].name]_vars

\* A request is answered 400 or 500 in two cases only: the columns of its SELECT
\* are no longer those the phase reads, or it is an edit that waits for a row of
\* 0003's downgrade, which waits for the edit.  Otherwise no statement meets a
\* column that is not there or a NULL that is not allowed, and no name is NULL.
FailsOnlyAcrossTheSwitch ==
    [][\A q \in Req : reply'[q] # reply[q] /\ reply'[q].code \in {400, 500} =>
          \/ pc[q] = "answer" /\ cols[q] # Reads[phase]
          \/ pc[q] = "update" /\ RebuildHolds(Target(q))]_vars

\* No request fails at all (docs/MIGRATION.md: 0 5xx).
NoRequestFails == \A q \in Req : reply[q] # None => reply[q].code \notin {400, 500}

\* Requests, restarts and lock timeouts or not, the operator gets to the end of
\* the script (docs/MIGRATION.md: "rerun the same command").
MigrationCompletes == <>(step > Len(Script))

-----------------------------------------------------------------------------
(* The inductive invariant, whatever the operator does.                    *)

\* Where a request may be, given what it asks for, and what it knows there.
Stage(q) ==
    /\ pc[q] = "idle" <=> call[q] = None
    /\ pc[q] = "idle" => vals[q] = None /\ cols[q] = {} /\ table[q] = None /\ q \notin older
    /\ pc[q] = "done" <=> reply[q] # None
    /\ pc[q] \in {"load", "edit", "update"} => call[q].op # "create"
    /\ pc[q] \in {"edit", "update"} => call[q].op \in {"rename", "touch"}
    /\ pc[q] = "insert" => call[q].op = "create"
    /\ pc[q] = "commit" => call[q].op # "get"
    /\ pc[q] \in {"insert", "commit"} /\ call[q].op = "create" => table[q] = None /\ cols[q] = {}
    /\ pc[q] \in {"load", "edit", "update", "fetch", "answer"} => cols[q] \in {{"guest"}, {"parts"}}
    /\ pc[q] \in {"reload", "fetch", "answer"} => table[Target(q)] # None
    /\ pc[q] # "idle" /\ call[q].op # "create" => table[Target(q)] # None
    /\ pc[q] \in {"edit", "update", "answer"} => got[q] # None
    /\ pc[q] = "commit" /\ call[q].op # "create" => got[q] # None

\* What it writes.
Payload(q) ==
    /\ pc[q] \in {"load", "edit"} => vals[q] = None
    /\ pc[q] \in {"insert", "update"} => vals[q] # None
    /\ pc[q] \in {"commit", "reload", "fetch", "answer"} /\ call[q].op = "create" => vals[q] # None
    /\ vals[q] # None =>
         /\ call[q].op \in {"create", "rename", "touch"}
         /\ call[q].op = "touch" => DOMAIN vals[q] = {}
         /\ call[q].op # "touch" => \A c \in DOMAIN vals[q] : vals[q][c] = call[q].name

Stages == \A q \in Req : Stage(q) /\ Payload(q)

\* An UPDATE that waits for its commit, and one that looks for its version: the
\* version tells whether the row is as it was read.
Version(q) ==
    /\ pc[q] \in {"edit", "update"} =>
         /\ got[q].version <= table[Target(q)].version
         /\ got[q].version = table[Target(q)].version => got[q] = table[Target(q)]
    /\ pc[q] = "commit" /\ call[q].op # "create" /\ vals[q] # None => got[q] = table[Target(q)]
Versions == \A q \in Req : Version(q)

\* A row is locked once, and the backfill's rows await their names.
RowLocks ==
    /\ \A q, p \in {r \in Req : pc[r] = "commit" /\ vals[r] # None} :
         Target(q) = Target(p) => q = p
    /\ job.batch \subseteq Awaiting /\ \A r \in job.batch : ~EditHolds(r)
    /\ rebuilt # None =>
         rebuilt \subseteq MissingLegacy /\ \A r \in rebuilt : ~EditHolds(r)

\* The operator does one thing at a time.
OneAtATime ==
    /\ asked # None =>
         /\ (Now("phase") \/ Now("attempt")) /\ Script[step].to = asked
         /\ contract.at = 0 /\ ~job.on
    /\ contract.at # 0 => revision = 3 /\ ~job.on /\ (Patient => Now("upgrade"))
    /\ rebuilt # None =>
         /\ revision = 3 /\ contract.at = 0 /\ asked = None /\ ~job.on
         /\ Patient => Now("downgrade")
    /\ job.batch # {} => job.on
    /\ job.on => job.pass > 0

Inv == TypeOK /\ Stages /\ Versions /\ RowLocks /\ OneAtATime

-----------------------------------------------------------------------------
(* The runbook's rules for the operator (docs/MIGRATION.md), as what the   *)
(* steps of a careful one keep to.                                         *)

\* One phase after the other, forwards or back.
Rank == [p \in Phase |-> CASE p = "legacy" -> 1 [] p = "dual_write" -> 2
                           [] p = "read_new" -> 3 [] p = "new_only" -> 4]
Adjacent(p, s) == Rank[p] - Rank[s] \in -1 .. 1

\* "Check the proof before the next step": when the reads are switched back, the
\* operator looks that the names agree.  Nothing in the code does, and nothing
\* looks whether the new columns may still be left out.
Harmless(p) ==
    /\ "parts" \in Reads[phase] /\ "guest" \in Reads[p] => Mismatched = {}
    /\ "parts" \in NotNull(revision) => "parts" \in Writes[p]
EntersInOrder ==
    asked' # asked /\ asked' # None => Adjacent(phase, asked') /\ Harmless(asked')

\* "Change the phase first, then downgrade"; and 0004 comes after new_only.
PhaseFirst ==
    /\ rebuilt' # None => Serves(2, phase)
    /\ revision' < revision => Serves(revision', phase)
    /\ contract'.at # 0 => phase = "new_only"

\* The operator keeps .env up to date: when the server restarts, it names a phase
\* that the endpoint would accept and that is as harmless.  Then it does not
\* matter whether the check at start-up succeeds.
KeepsEnv ==
    restarts' # restarts => \A p \in Env[step] \cup Unchecked[step] : ~Refused(p) /\ Harmless(p)

Rules == EntersInOrder /\ PhaseFirst /\ KeepsEnv

\* The migration by an operator who is patient and keeps the rules.
CarefulSpec == Init /\ Patient /\ [][Next /\ Rules]_vars

-----------------------------------------------------------------------------
(* Its inductive invariant.                                                *)

\* The requests that have seen one phase, and one schema, only.
Fresh == Running \ older

\* A request that is to commit a name writes it to a column, or found it there.
Pending(q) == /\ pc[q] \in {"insert", "update", "commit"} /\ vals[q] # None
              /\ call[q].op # "touch"
Gives(q, c) == c \in DOMAIN vals[q] \/ (call[q].op = "rename" /\ got[q][c] = call[q].name)

\* The schema serves the phase, the one that is about to be entered, and what the
\* requests under way have composed.
SchemaServes ==
    /\ Serves(revision, phase)
    /\ asked # None => Serves(revision, asked) /\ Adjacent(phase, asked)
    /\ contract.at # 0 => phase = "new_only"
    /\ rebuilt # None => Serves(2, phase)
    /\ \A q \in Running :
         /\ cols[q] \subseteq Present(revision)
         /\ vals[q] # None => DOMAIN vals[q] \subseteq Present(revision)
         /\ pc[q] = "insert" => NotNull(revision) \subseteq DOMAIN vals[q]

\* While a phase is about to be entered, or 0004 or a downgrade runs, nobody is under way who
\* has seen another phase.
NobodyOlder == asked # None \/ contract.at # 0 \/ rebuilt # None => older \cap Running = {}

\* What the requests read and write by the phases they have seen.
Composed ==
    /\ \A q \in Fresh :
         /\ cols[q] \in {{}, Reads[phase]}
         /\ vals[q] # None => DOMAIN vals[q] \subseteq Writes[phase]
         /\ Pending(q) => \A c \in Writes[phase] : Gives(q, c)
    /\ \A q \in Running : Pending(q) => \A c \in Reads[phase] : Gives(q, c)

\* The columns that the phase reads have all names.
NamesThere == \A r \in Rows : \A c \in Reads[phase] : table[r][c] # None

\* While the reads are switched, until the last request that has the other
\* column is over, the two names of every row are one.
Crossing ==
    \/ asked # None /\ Reads[asked] # Reads[phase]
    \/ \E q \in Running : cols[q] \notin {{}, Reads[phase]}
NamesAgree ==
    Crossing =>
        /\ phase \in {"dual_write", "read_new"}
        /\ \A r \in Rows : table[r].guest # None /\ table[r].parts = table[r].guest
        /\ \A q \in Running : Pending(q) => \A c \in Column : Gives(q, c)

\* What is about to be answered is a name.
NoneNull == \A q \in Req : pc[q] = "answer" => Shown(got[q], cols[q]) # None

Careful ==
    /\ SchemaServes /\ NobodyOlder /\ Composed /\ NamesThere /\ NamesAgree /\ NoneNull

Inductive == Inv /\ Careful
=============================================================================
