# TableFlow: TLA+ models, model checking and proofs

TableFlow is a restaurant booking and ordering platform: a FastAPI application
(`app/`), PostgreSQL for users, tables, reservations and orders, MongoDB for the
catalogue and telemetry, Alembic revisions and a backfill script for a column
migration under traffic, and a Vue front end. This directory holds TLA+ models
of its core logic, TLC configurations that check them on small instances, and
proofs that TLAPS checks for every value of the constants.

Paths below are relative to the repository's root.

## 1. Inventory

| Part | State it keeps | Operations | Talks to | What is hard |
|---|---|---|---|---|
| Reservations: `app/services/reservations.py`, `app/routers/reservations.py`, `app/models/reservation.py` | rows of `reservations`, each with a version (`xmin`) | `POST`, `PATCH`, `DELETE`, `GET`, list | PostgreSQL: exclusion constraint, row locks, versioned `UPDATE`; the phase of the name migration | overlapping bookings, lost updates, stale answers, deadlocks between constraint checks, workers that die around a commit |
| Name migration: `app/migration.py`, `app/routers/admin.py` | the phase, in process memory; name columns of every row | `PUT`/`GET /admin/migration`, the start-up check | the schema, every reservation request | a phase change while requests are in flight, check-then-set, restarts, a start-up check that may fail |
| Schema revisions: `alembic/versions/` | columns, constraints and indexes | upgrade and downgrade of `0002` to `0004` | all transactions on `reservations` | DDL locks under traffic, a revision that commits in pieces, a downgrade that holds rows while it waits for the table |
| Backfill: `scripts/backfill_names.py` | none but its position | batches with `FOR UPDATE SKIP LOCKED`, passes, `--verify` | rows under edit | skipped rows, races with dual writes, versions that change under clients |
| Orders: `app/services/orders.py` | `orders`, `order_items`; events in MongoDB | place, advance status, read, list | both databases | two members of staff at once; a read in one database and a write in the other; best-effort telemetry |
| Accounts: `app/routers/users.py`, `app/routers/auth.py`, `app/security.py` | `users`, unique e-mail | sign up, edit, read, log in | every request (the caller is read from the database) | two sign-ups with one e-mail |
| Connection pool: `app/db/postgres.py` | 15 connections | check out, return | every request; admin endpoints take two | holding one connection while waiting for another |
| Restaurants: `app/routers/restaurants.py` | `restaurants`, `restaurant_tables` | search, read, availability, create | `reservations` | availability is a hint that ages |
| Products: `app/routers/products.py`, `app/db/mongo.py` | MongoDB `products` | list, read, create | orders | read by orders without a lock |
| Booking page, account page: `frontend/src/pages/` | the form, the tables shown, the list with versions | load tables, submit, cancel, reload | the API | answers out of order, versions that age |
| Seed: `scripts/seed.py` | all rows of PostgreSQL, three collections of MongoDB | seed, `--reset`, `--verify` | both databases | dying between the two databases; sequences that a rollback does not put back; a second run |
| Traffic, load test, phase script, Docker, configuration, health, tests, vendored Vue | none that the system relies on | | | not modelled |

What makes each part correct:

* **Reservations.** No table is held by two reservations at one instant. A
  refused booking really lost to one that was committed. An edit only replaces
  the state its client has seen. What a client is told is what happened. Every
  accepted request ends.
* **Name migration.** No committed name is lost or answered wrongly in any phase,
  and no request fails because of a phase or a revision when the runbook's
  order is kept.
* **Orders.** The status only moves along `TRANSITIONS`; an order is stored with
  the prices and products of one restaurant, or not at all; its event never
  appears without it.
* **Accounts.** One account per e-mail, whoever comes first.
* **Pool.** A request that holds a connection does not wait for others for ever,
  and none is kept while a password is hashed.
* **Pages.** A table that is offered can be booked; the tables listed belong to
  the form unless answers overtook one another; a cancellation hits the state
  that was shown, whoever else changes the reservation; both pages come back from every wait.
* **Seed.** PostgreSQL is empty or full, wherever the script dies; no document
  is there twice; `--reset` mends whatever earlier runs left.

## 2. Plan

In this order; the most important behaviour comes first.

| # | Modules | Question | State |
|---|---|---|---|
| 1 | `ReservationData`, `BookingLedger`, `Reservations`, `MCReservations`, `ReservationsProofs` | booking and editing under concurrency; the endpoints implement a ledger of single steps | done, proved |
| 2 | `NameRegister`, `NameMigration`, `MCNameMigration`, `NameMigrationProofs` | phases, revisions, `0004` in the pieces it commits, backfill and requests in flight: wrong or lost names, failing requests, restarts, lock timeouts | done, proved for a careful operator |
| 3 | `Orders`, `MCOrders`, `OrdersProofs` | the status machine under its lock; a write across two databases | done, proved |
| 4 | `Accounts`, `MCAccounts`, `AccountsProofs` | accounts over the connection pool: one account per e-mail; an edit compares with the row it loaded; log-in gives its connection back before it hashes; administrators hold one connection while they wait for a second, until `pool_timeout` | done, proved |
| 5 | `Pages`, `MCPages`, `PagesProofs` | booking page and account page over the availability query and the book: answers out of order or lost, versions that age | done, proved |
| 6 | `Seeding`, `MCSeeding`, `SeedingProofs` | the seed script dies anywhere and runs again, over two databases | done, proved |

The book of `BookingLedger` is what the pages need of the reservations: an
endpoint is one step in `Pages`, and `Reservations` implements such steps, so
the two compose there and not at the level of statements.

Worth doing later: bookings and orders as users of the pool of `Accounts`.

## 3. The modules

| Module | Models |
|---|---|
| `ReservationData` | a row of `reservations`, what `no_double_booking` excludes, and the reference: two reservations that hold one table at one instant |
| `BookingLedger` | the abstract specification: a book without overlaps, changed in single steps |
| `Reservations` | `POST`, `PATCH` and `DELETE /reservations` statement by statement, its properties and its refinement of the ledger |
| `MCReservations` | the small instances TLC checks |
| `ReservationsProofs` | the theorems and their proofs |
| `NameRegister` | the abstract specification: every reservation has one name, which only clients change |
| `NameMigration` | phases, guards, revisions, backfill, operator, restarts and the name columns of requests in flight, and the refinement of the register |
| `MCNameMigration` | the scripts of the runbook and the small instances TLC checks |
| `NameMigrationProofs` | the theorems about the migration and their proofs |
| `Orders` | `POST /orders` and `PATCH /orders/{id}/status` statement by statement |
| `MCOrders` | the small instance TLC checks |
| `OrdersProofs` | the theorems about orders and their proofs |
| `Accounts` | sign-up, log-in, profile edits, `GET /users/{id}` and the administrator's endpoints, statement by statement, over one pool of connections |
| `MCAccounts` | the small instance TLC checks |
| `AccountsProofs` | the theorems about accounts and connections and their proofs |
| `Pages` | the booking page, the account page, the endpoints they call, and other clients |
| `MCPages` | the small instance TLC checks |
| `PagesProofs` | the theorems about the pages and their proofs |
| `Seeding` | `seed.py` statement by statement, over both databases |
| `MCSeeding` | the small instance TLC checks |
| `SeedingProofs` | the theorems about seeding and their proofs |

### Reservations

A request is one transaction at READ COMMITTED, and each of its statements is an
action; between two statements any other request may run. `pc[q]` is the
statement a request executes next:

```
POST            idle -> lock -> insert -> check -> commit -> reload -> done
PATCH, DELETE   idle -> load -> update -> check -> commit -> reload -> done
                                          check <-> wait
```

| State | In the code |
|---|---|
| `rows` | the committed rows of `reservations` |
| `call`, `named` | the request's payload, and the tags of its `If-Match` header |
| `read` | the `Reservation` object as `_load_owned` loaded it |
| `tuple` | the row version the open transaction has written, and what a committed one wrote |
| `waits` | the transaction a constraint check waits for |
| `reply` | the status code and the row in the body |

| Action | In the code |
|---|---|
| `Arrive` | the router: the payload is parsed and the user known |
| `LockTable` | `SELECT ... FOR NO KEY UPDATE` of `create_reservation`, and its 404 and 400 |
| `Insert` | the `INSERT` that `session.commit()` flushes |
| `Load` | `_load_owned`, `check_if_match` and the assignments of `update_reservation` and `cancel_reservation` |
| `Update` | `UPDATE ... WHERE id = :id AND xmin = :version`; no row means `StaleDataError` and 409 |
| `CheckPasses`, `CheckWaits`, `Resume`, `CheckFails` | the check of `no_double_booking` after an `INSERT` or an `UPDATE` that enters its index |
| `AbortDeadlock` | PostgreSQL's deadlock detector, and the exception nobody catches |
| `Commit`, `Reload` | `session.commit()`; `reload()` and the answer |
| `Die` | the worker is killed; PostgreSQL rolls back what is not committed |

Abstractions. The bigserial id of a row is the request that inserted it (or the
row itself when it was there before). `xmin` is the id of the transaction that
wrote the row last, and a request writes in one transaction, so the version is
the request that wrote it. Times are integers; what the schema refuses (422)
never arrives. The body of an answer is the row. Users are known and active
(401 is left out). Guest names are left to the name migration; a `PATCH` of a
name behaves here like one of the party.

PostgreSQL is outside the repository and is modelled as the code relies on it:
row locks last until commit or rollback; an `UPDATE` that waited evaluates its
`WHERE` on the newest row; the check of an exclusion constraint waits for an
open transaction whose row version, old or new, would conflict; a cycle of
waits ends when one of its transactions is aborted. An `UPDATE` that changes no
indexed column may be heap-only, and then nothing is checked: the model allows
both, because it depends on the free space in the page.

### Name migration

`phase` is `_current` of `app/migration.py`, `revision` the Alembic revision and
`table` the name columns and the version of the committed rows. first_name and
last_name are always written and read together and are one column, `parts`.

```
POST    idle -> insert -> commit -> reload -> fetch -> answer -> done
PATCH   idle -> load -> edit -> update -> commit -> reload -> fetch -> answer -> done
GET     idle -> load -> answer -> done
```

A coroutine asks for the phase at four places, and each is a step of its own:
when it composes the `SELECT` or the `INSERT` (`Arrive`), when it assigns the
columns of an edit (`Edit`), when `reload` composes its `SELECT` (`Reload`), and
when `_fields` builds the answer (`Answer`). The statements between them
(`Select`, `Insert`, `Update`, `Commit`) meet the schema of their own moment. A
change of phase, a revision or a batch of the backfill may come between any two.

| Action | In the code |
|---|---|
| `Upgrade`, `Downgrade` | `alembic upgrade`, `alembic downgrade`: they wait for transactions that have touched the table; a lock timeout of a revision that begins with such a wait is a step that did not happen |
| `Downgrade` at `0003`, `Restore`, `GiveUp` | the downgrade of `0003`: its `UPDATE` of the rows without `guest_name`, which holds them (`rebuilt`); `SET NOT NULL`, for which it needs the table, with its `COMMIT`; and its end by `lock_timeout` or by the deadlock detector |
| `Victim` | an edit that has read a row of that downgrade and waits for it: PostgreSQL ends the edit, and nobody catches the error |
| `AddCheck`, `Validate`, `SetNotNull`, `DropCheck`, `DropName` | the statements of `0004`, each committed by itself, and its last transaction |
| `LockTimeout` | one of them gets no lock in `lock_timeout`: alembic ends, the ones before stay, and the operator runs the command again |
| `Ask`, `TurnedDown`, `Switch` | `PUT /admin/migration`: the check, its 409, and `set_phase` |
| `StartBackfill`, `TakeBatch`, `Fill`, `EndPass` | `backfill_names.py`: its batches, its passes and its verification |
| `Restart` | a new process: the phase of `.env`, then `reconcile_with_schema`, whose exceptions `lifespan` swallows: then the phase of `.env` stays (from the phases of `Unchecked`) |

The operator runs `Script` step by step. `Patient` says that requests under way
when a step took effect are over before the next one; the runbook asks for a
proof between two steps, which takes longer than any request. `Env` and
`Unchecked` say what `.env` may be at each step of the script, at a start whose
check gets an answer and at one whose check raises. After a restart the operator
repeats the last phase change.

The deadlock of `0003`'s downgrade needs an edit that has read a row (it shares
the table until it ends) and waits for the row, while the downgrade has the row
and waits for the table. PostgreSQL ends whichever of the two looks first, so
both outcomes are in the model: `Victim` and `GiveUp`. The other downgrades, and
the upgrades, take the table with their first statement, hold nothing while they
wait, and are one step.

`Rules` are what the runbook asks of the operator beyond that, as predicates on
a step, and `CarefulSpec` is `Spec` with a patient operator whose steps keep
them:

| Rule | From |
|---|---|
| `EntersInOrder` | the order of the five steps and of the rollbacks, one phase at a time; "Check the proof before the next step" (`docs/MIGRATION.md:35`): before the reads go back to `guest_name` the names agree, and no phase is entered that leaves out columns which are `NOT NULL` already |
| `PhaseFirst` | "Change the phase first, then downgrade" (`docs/MIGRATION.md:75`); `0004` comes after `new_only` |
| `KeepsEnv` | when the server restarts, `.env` names a phase that the endpoint would accept at this moment and that is as harmless as one the operator may enter |

The second half of `EntersInOrder` is not among the guards of the code (findings
`back` and the observation on an interrupted `0004`). `KeepsEnv` is about the
file that the operator edits, not about what start-up makes of it: under it the
check and a check that fails come to the same phase, and without it a name or a
request is lost (the observations on restarts in section 7). Nothing in the
runbook says it.

Abstractions. A name here survives the split and the rebuild; which ones do is
a question about text (section 6). The counts that `schema_state` takes in
separate statements are one step, and so is each of the revisions `0002` and
`0003` and the downgrades but that of `0003`. A `PATCH` changes the name or ("touch") something else,
which calls no `write_name` but holds the row and moves its version. The
backfill starts from 0 (no `--start-after`). The token, If-Match and the
booking's window are left to `Reservations`.

### Orders

```
POST            idle -> verify -> find -> save -> refresh -> note -> done
PATCH status    idle -> lock -> decide -> commit -> reload -> done
```

| State | In the code |
|---|---|
| `orders` | the committed rows of `orders` with their `order_items` |
| `events` | the orders that `user_telemetry` has an `order_placed` document of |
| `call`, `lines`, `seen` | the payload and the caller; the `OrderItem`s built so far; the status read last |
| `reply` | the status code, and the status in the body |

| Action | In the code |
|---|---|
| `Arrive` | the router, with `require_role` for `PATCH` |
| `Verify` | step 1 of `create_order`: restaurant and reservation |
| `Find` | step 2: the products, their refusals, and the lines with the prices of that moment |
| `Save`, `Refresh` | step 3: `INSERT` and `COMMIT`, then `session.refresh` |
| `Note` | step 4: the telemetry, written or not |
| `Lock`, `Decide`, `Commit`, `Reload` | `advance_status`: `SELECT ... FOR UPDATE`, the check of `TRANSITIONS`, `UPDATE` with `COMMIT`, and the row for the answer |
| `Raise` | any statement but the telemetry's raises: a database does not answer, or the pool has no connection for the `refresh` after the commit; 500, and the rollback of what is not committed |
| `Die` | the worker is killed; PostgreSQL rolls back what is not committed |

A 500 therefore tells nothing: after `Refresh` has raised, the order is stored.
`Fragile` bounds the requests that may raise or die.

Abstractions. No endpoint changes a product that is in MongoDB, other tools may,
so each `find()` meets any of `Menus`. The id of a new order is its request. The
restaurants and reservations do not change (nothing deletes them), so the two
reads of step 1 are one step. Prices are natural numbers in the smallest
unit; names, currencies and options are left out. An item says whether its
product id is spelled in upper case, which the schema allows; the lookup of the
documents is by the id as it is spelled. The row lock is `Holders`: a moving
request holds it from its `SELECT` to its `COMMIT`, `ROLLBACK` or death.

### Accounts

```
sign-up      idle -> hash -> connect -> index -> commit -> reconnect -> refresh -> done
log-in       idle -> connect -> find -> verify -> done
edit         idle -> connect -> load -> row [-> index] -> commit -> reconnect -> refresh -> done
GET user     idle -> connect -> load -> read -> done
PUT phase    idle -> connect -> load -> second -> check -> third -> state -> done
GET phase    idle -> connect -> load -> third -> state -> done
```

| State | In the code |
|---|---|
| `users` | the committed rows of `users` |
| `owner` | which request has a connection of the engine's pool |
| `call`, `loaded` | the payload and the bearer; the `User` as `get_current_user` or `login` has read it |
| `acted` | the requests that have committed, or set the phase |
| `reply` | the status code and the row in the body |

| Action | In the code |
|---|---|
| `Arrive` | the router: a payload that the schema accepts, and 401 without a valid token |
| `Take`, `Timeout` | the pool hands out a connection, or raises after `pool_timeout` |
| `Load`, `Read` | `get_current_user` and the roles of `require_role`; `read_user` |
| `Find`, `Verify` | `login`: the `SELECT` with the rollback after it; bcrypt and the token |
| `Hash`, `Row`, `Index`, `Commit`, `Refresh` | `create_user` and `update_own_profile`: bcrypt, the row lock of the `UPDATE`, the unique index and its 409, `COMMIT`, `session.refresh` |
| `Victim` | PostgreSQL's deadlock detector, and the exception nobody catches |
| `Check`, `State` | `put_migration` and `get_migration`, which use `engine.connect()` beside the session |

The session keeps its connection until commit, rollback or close: this is what
the module is about, so `Returned` is part of every step that ends a
transaction. Addresses are spellings with a map to what `CITEXT` compares.
A password is right or not; a token names a user or nobody.

### Pages

| State | In the code |
|---|---|
| `book` | the committed reservations, as in `BookingLedger` |
| `flight` | the requests of `api()`: operation, payload, whether the server has served it, its answer |
| `form`, `tables`, `submitting`, `place` | `BookTable.js`: time, party size and table; the list of tables, with the request it came from; the disabled button; which page the router shows |
| `bookings`, `state`, `cancelling` | `AccountPage.js`: the list with its versions, the page's state, the disabled button |

| Action | In the code |
|---|---|
| `Serve` | the server executes a request: `check_availability`, the list, `create_reservation`, `cancel_reservation` |
| `Fail` | `fetch` throws; the server may have served the request, or may still do so |
| `OpenForm`, `Change`, `Choose`, `Submit` | `BookTable.js` up to its requests: `onMounted`, the watcher, the list, `submit()` |
| `TablesArrive`, `Booked` | `loadTables()` and `submit()` after their `await` |
| `OpenAccount`, `ListArrives`, `Cancel`, `CancelArrives` | `AccountPage.js`: `load()` and `cancel()`, before and after their `await` |
| `Others` | other clients, staff and the customer's own other devices: they book, and `PATCH` the party and the status of any reservation, unless the constraint refuses |

An endpoint is one step, because `Reservations` implements `BookingLedger`: its
effect happens at its commit. Requests are numbered as they are sent, and a
version is the number of the request that wrote the row last. A party size that
is not a valid number is 0.

### Seeding

| State | In the code |
|---|---|
| `pg`, `rows` | what is committed in PostgreSQL, and what the open session sees |
| `sequence` | the sequence of `restaurants.id`, which no rollback puts back |
| `mongo` | the documents of `products`, `reviews` and `user_telemetry` |
| `pc`, `reset`, `runs`, `exit` | the next statement, `--reset`, how often the script has run and how the last run ended |

| Action | In the code |
|---|---|
| `Run`, `Verify` | `main()` with and without `--reset`, and with `--verify` |
| `Truncate`, `Delete` | `reset_postgres`, `reset_mongo` |
| `Count` ... `Orders` | `seed_postgres`: the check for users, the inserts with their flushes, one `COMMIT` |
| `SeedMongo`, `Check` | `seed_mongo`: one `bulk_write` of upserts per collection; the verification, which counts users, restaurants, tables, reservations, orders and their items |
| `Die` | the process ends between two statements, or a statement raises; PostgreSQL rolls back, and a write of MongoDB leaves any part of what it was doing (`Halfway`) |

Names, prices and texts are left out; an order's items are the products drawn.
What the script draws is any draw. Nobody
else writes while it runs.

## 4. The runs

| Run | Instance | Shows |
|---|---|---|
| `edits` | 1 booking (also the refused kinds), 2 editors of an active and a cancelled reservation and of the booking, headers of up to 2 tags, all workers may die | no double booking, also through reactivation; no lost update, no edit of a state the client has not seen, true answers |
| `tangled` | 3 requests: bookings and reactivations that overlap in every way, all waits and cycles of waits, 2 of the workers may die | every accepted request ends; a refused booking lost to a committed one; without a `PATCH` nothing ends in a 500, thanks to the table lock; the endpoints implement `BookingLedger`; the inductive invariant of the proofs holds |
| `patch_codes` | 2 requests | a finding of section 7 |
| `forward` | the five steps and the two refused attempts of the runbook, with a detour back to `legacy` after the backfill; one lock timeout of `0004`; 2 older rows, batches of 1, a single pass; a booking or a read, a rename, and a third request that reads, renames the same row to another name, or renames the booking to the name it has | names change only when a client changes them, answers carry names the reservation had, requests fail only across the switch of the reads (no downgrade is in this script); the inductive invariant of the proofs holds |
| `restarts` | the runbook and all its rollbacks, downgrades included, with a restart at any moment outside `0004` and `0003`'s downgrade: `.env` says `dual_write`, or the phase entered last when the check at start-up raises; bookings, reads and edits of other fields | neither the fallback at start-up nor a start without the check answers another name or fails requests, a downgrade loses no name and fails only edits that it has locked out, and the operator gets to the end |
| `switch_read`, `back`, `rerun` | 1 request | findings of section 7 |
| `orders` | 1 placing request with every kind of refusal, 3 staff requests on its order and on an older one, 5 menus; the statements of 2 requests may raise and their workers die | accepted changes form a path along `TRANSITIONS`, a stored order keeps its lines, 201 means stored and a refusal means not stored, an order whose telemetry is tried is answered 201, no event without an order, every request ends |
| `accounts` | 3 requests of every kind (sign-ups with one address in two spellings, edits that swap addresses, log-ins, administrators), 2 connections | one account per address, no connection kept over bcrypt, edits that write their own fields only, true answers; only administrators hold one connection and wait for another; the inductive invariant of the proofs holds; every request ends |
| `pages` | 2 tables, 2 windows, 4 requests, one of which may fail on the network; other clients book, edit, cancel and revive | the availability agrees with the booking endpoint, the selected table is one of those listed, the last request for tables asked for what is in the form, a cancellation hits what the page showed, both pages come back from every wait |
| `seed` | 2 restaurants with a table each, 2 reservations in 6 slots on 2 days, an order of up to 2 items, up to 3 runs, dying anywhere, within the write of a collection too | PostgreSQL is empty or full, no document twice, no seeded double booking, and a `--reset` that ends well leaves references that hold |

The type invariant of each module is a conjunct of its inductive invariant, which
one of its runs checks: `Inductive` in `Reservations`, `NameMigration` and
`Accounts`, `Inv` in the others.

Why the bounds are enough. A double booking takes two writers and a row; a
deadlock takes a cycle, of which the instances contain those of two and of
three transactions; a lost update takes two editors and the version they read;
a stale answer takes a writer between commit and reload. The four windows
contain a pair that overlaps partly, a pair that touches, a pair where one lies
in the other, and equal ones. One table is enough: nothing relates rows of two
tables but the identity of a row, and an edit cannot move a row. `MaxTags`
bounds the tags of a header: a list of two already holds a current and a stale
one. `Killable` bounds which workers die. Each request number is used once, so
a retry is another request.

For the names, every hazard needs one row and one or two requests around one
phase change; the third request of `forward` lets a rename meet a booking's row
while a read is under way. Batches of one row make the backfill take its locks
one after the other and skip rows; `MaxPasses` is 1 in `forward`, where the
operator must run the script again, and 5 elsewhere, as in the code. A restart
in `restarts` may come at any step; `MaxRestarts` is 1 since a restart keeps no
memory of the one before. Renames are left out of `restarts`: after one in
`new_only`, a restart or a rollback to a phase that reads `guest_name` answers
the old name, which is the finding `back`. `FailsOnlyAcrossTheSwitch` excepts the
requests of the finding `switch_read`, the edits that deadlock with `0003`'s
downgrade, and no others. The rows that this downgrade locks are those booked in
`new_only`, which a request of `restarts` books and another then edits. A start
without the check takes the phase entered last in `restarts`: with an `.env` that
is older it serves a phase without its columns (section 7).

An order's status has paths of three changes, so three requests on one order
are enough for a lost change between two others; the placed order adds that
changes start as soon as it is committed, before its customer has an answer.
`MaxTotal`, 6 here and 9999999999 cents in the code, lies between the totals of
the cheaper and of the dearer menu. In `orders`, as in the other runs whose
configuration switches the deadlock check off, the system stops once every
request has been answered.

`ServerErrorsNeedAPatch` says that bookings and cancellations alone never end in
a 500. With a `PATCH` among the requests they can: see the findings.

`MaxTimeouts` is 1 in `forward` and `rerun`: one timeout is enough for what an
interrupted `0004` leaves behind to meet the next run. `forward` checks safety,
which the run that fails over the left-over constraint does not disturb; that it
never gets through is the finding `rerun`. `forward` runs under `Spec`; in this
script the rules of `CarefulSpec` exclude nothing that the guards of the code
allow: there are no restarts and no downgrades, both attempts are refused, since the second of the
older rows awaits its names, and the detour goes back over phases that read
`guest_name`. `Patient` keeps restarts out of `0004` and of
`0003`'s downgrade.

In `accounts`, two connections and three requests are the smallest instance in
which two administrators hold one connection each and wait for the second while
a third request waits for its first; the code's pool has 15. Two edits and a
sign-up give cycles of waits in the unique index. In `pages`, four requests let
two answers about tables overtake one another with a booking between them, and a
list, a cancellation and its reload run beside another client; `Budget` keeps
enough of them for the reloads that a refusal causes, so the bound never stops a
page in the middle of a protocol, and `MaxErrors` is 1 since a lost request
leaves nothing but its place in the page's code. In `seed`, `MaxRuns` is 3: a
run that dies, a run over what it has left, and a run with `--reset`. The
slots are those of the script; two consecutive days contain every pair of
windows that could touch.

### Fairness

`FairSpec` is weak fairness of each request's next statement, and the detector's
abort is one of these steps. The server is an event loop that resumes every
coroutine whose statement has been answered, PostgreSQL grants a lock once its
holder is gone, and it looks for deadlocks after `deadlock_timeout`. A client
need not send a request, no worker need die and, in `Orders`, no statement need
raise, so `Arrive`, `Die` and `Raise` have no fairness. A request may only be overtaken by the finitely many others, so
strong fairness is not needed.

`MigrationCompletes` assumes that the event loop resumes every request, and that
the operator and the scripts carry on (weak fairness of `Operate`, whose steps
follow one another). Requests are finitely many, so the moments in which no
transaction touches the table come, and a downgrade of `0003` that gave up, or
whose deadlock ended an edit, finds one. Restarts, lock timeouts and `GiveUp`
have no fairness: they need not happen.

`EveryOrderRequestEnds` and `EveryCallEnds` assume weak fairness of each
request's statements, for the same reasons as above. In `Accounts` a step of a
request may also be the pool's time-out or the deadlock detector's error. Both
are real steps that come after a while; without the first, administrators that
hold one connection each would wait for their second for ever.

`PagesComeBack` assumes that the server answers every request and that the
browser resumes what awaits an answer. What users do, and what fails on the
network, has no fairness.

`Seeding` needs none: the script may die anywhere, and all its properties are
about safety.

## 5. The proofs

`ReservationsProofs` proves for all sets of requests, tables, windows and users,
all plans and any number of dying workers:

| Theorem | Statement |
|---|---|
| `InvHolds`, `TypeCorrect` | `Spec => []Inv`, the inductive invariant, and `Spec => []TypeOK` |
| `NeverDoubleBooked` | `Spec => []NoDoubleBooking` |
| `HistoryHolds` | `Spec => []History` |
| `NoLostUpdate` | `Spec => []OneEditPerRead` |
| `AnswersTrue` | `Spec => []AnswersMatchEffects` |
| `EditsReplaceWhatTheyRead` | `Spec => ReplacesWhatItRead`, an action property |
| `LosersLost` | `Spec => []LosersLoseToABooking` |
| `ServesWhatItWrote` | `Spec => []ServesPastItsWrite` |
| `CirclesHold`, `ErrorsTakeAPatch` | `Spec => []Circles`, `Spec => []ServerErrorsNeedAPatch` |
| `InductiveHolds` | `Spec => []Inductive`: `Inv`, `History` and `Circles` |
| `ReservationsImplementLedger` | `Spec => ImplementsLedger`, by refinement |

The assumptions are the named ones of `ReservationData` and `Reservations`:
windows are pairs of integers with a positive length, parties are natural
numbers, the initial reservations do not clash, `None` and `*` are not
versions, and `None` is no status. TLC evaluates them in every run.

Why `NoDoubleBooking` is not inductive by itself. A commit makes a row version
visible that was checked earlier, against other rows. `Inv` says what the check
leaves behind. `NoClash`: row versions that have passed the check clash neither
with committed rows nor with each other. That survives a check because the
second of two writers sees the first: `Undecided` holds every open transaction
whose old *or* new version conflicts. It survives a commit because the version
a commit replaces belongs to the same row, and `RowLocked` says that one row has
one writer. `Anchored` says that an open edit's row is still exactly what the
edit read, so its new version differs from the committed one only in what the
edit changes. `Entered`, `OwnVersion` and `VersionsTell` tie versions to
requests, which is what makes `xmin = :version` mean "the state I read". The
overlap of half-open ranges is related to instants by one lemma.

`History` is a second invariant, about what requests leave behind (a header was
honoured, a replaced version never comes back, a booking stays at its table and
time), and the properties about answers and lost updates follow from it. For
the refinement, a request takes effect when its transaction commits: `book` is
`rows`, `shown` is `read`, and the verdict is a function of `pc` and `reply`.
`Load` maps to `Show`, `Commit` to `Enter`, `Replace` or `FindNothing`, a
failure to `TurnAway`, and every other action to a stutter.

A 500 is either an edit's, whose row version met a committed reservation, or the
victim's of a deadlock. `Circles` says who can wait for whom: one booking of a
table at a time is past the lock of the table's row (`TableLocked`), only a
`PATCH` that leaves its reservation active is checked (`EditsChecked`), and so a
booking that waits in the check waits for an edit (`BookingsWaitForEdits`). If
there is no such `PATCH`, then in a circle of waits a booking that waits for the
table waits for one past the lock, that one for an edit, the edit for the writer
of its row, which could only be a booking that has not committed the row yet; but
nothing edits a row that is not committed. So there is no circle. A booking that
is refused, in turn, met a row in `Standing`, which is committed and active;
whoever changes that row later is an edit, which leaves it at its table and time
and under a version that is not its insertion's.

`OrdersProofs` does the same for orders, for all sets of orders, requests, menus
and plans:

| Theorem | Statement |
|---|---|
| `InvHolds` | `Spec => []Inv`, the inductive invariant of `Orders` |
| `ChangesFormAPathHolds` | `Spec => []ChangesFormAPath` |
| `PlacingIsAnswered` | `Spec => [](AnswersMatchOrders /\ EventsHaveOrders)`: 201 only for a stored order, a refusal only for one that is not stored, and no 500 once the telemetry is tried |
| `OnlyTransitionsHolds` | `Spec => OnlyTransitions`, an action property |

That the accepted changes form a path needs two facts about the present.
`Locked`: whoever is between its `SELECT ... FOR UPDATE` and its `COMMIT` is the
only one there for its order, and the order's committed status is still the one
it has seen. `Allowed`: what was committed was allowed from what was seen. A
commit then continues the path at its end, and the lemma `Forward` says that
`TRANSITIONS` never leads back. For the answers, `Placed` ties the place of a
placing request to whether its order is stored: from `Refresh` on it is, and an
error there leaves it. The proofs use nothing of
`Total` but that equal lines have equal totals, so they hold for whatever the
amounts are.

`AccountsProofs`, for all sets of accounts, requests, addresses and connections
(and any number of them):

| Theorem | Statement |
|---|---|
| `InvHolds` | `Spec => []Inv`, the inductive invariant of `Accounts` |
| `OneAccountHolds` | `Spec => []OneAccountPerAddress` |
| `NoneKeptHolds` | `Spec => []NoneKeptWhileHashing` |
| `AccountsAreAnswered` | `Spec => []AnswersMatchAccounts` |
| `FieldsHaveWritersHolds` | `Spec => []FieldsHaveWriters` |
| `ShowsTheEditHolds` | `Spec => []ShowsTheEdit` (in the run as a part of `Inductive`) |
| `TakenHolds` | `Spec => []TakenBySomebodyElse` |
| `AdminsOnlyHolds` | `Spec => []OnlyAdminsHoldAndWait` |
| `InductiveHolds` | `Spec => []Inductive`: `Inv`, `History` and `Connected` |

An address is unique because of the transactions that are about to commit one.
`Claims` says that such an address is on no other committed row and that no
other open transaction has passed the index with it; `RowLocks`, that a row with
an uncommitted version has one writer, without which an edit could give a row an
address after another edit of the same row was checked. `Stages` ties the place
of a request to what it asked for and what it has read.

`History` is about where values come from. An edit writes a field only if it
differs from the row it loaded, so a field it leaves out keeps what another edit
has committed: `LoadsAreTraced` says that what an edit has loaded is the
account's first value or some committed edit's, and `EditsHaveAccounts` that a
committed edit has its account. From these follow that fields have writers, that
an answer shows what was asked for or what another edit wrote, and that an
address which is taken is, or was, somebody else's.

`Connected` says that a request which talks to the database has a connection, and
`put_migration` a second one while it checks the phase. If all connections are
taken and none of their owners can go on, then nobody among them is about to
commit, and an owner that is no administrator waits for a row or in the unique
index; a row's writer is itself waiting in the index. The owners in the index
then wait for one another, and the lemma `IndexCircle` finds a deadlock among
them: of all non-empty sets of connections whose owners wait within the set it
takes a smallest one (there is one because the pool is finite,
`PoolAssumption`), and in a smallest one everybody is waited for too.

`NameMigrationProofs`, for all rows, requests, names, plans, scripts and batch
sizes, and any number of restarts and lock timeouts:

| Theorem | Statement |
|---|---|
| `InvHolds`, `TypesHold` | `Spec => []Inv` and `Spec => []TypeOK`, whatever the operator does |
| `CarefulHolds` | `CarefulSpec => []Inductive`: `Inv` and `Careful` |
| `FailuresAreSwitches` | `CarefulSpec => FailsOnlyAcrossTheSwitch`, an action property: a 400 or 500 is an answer whose columns the phase no longer reads, or an edit's that waits for a row of `0003`'s downgrade |
| `ClientsCannotTellHolds` | `CarefulSpec => ClientsCannotTell`, the refinement of `NameRegister` |
| `OnlyClientsHold` | `CarefulSpec => OnlyClientsChangeNames`, an action property |

`Inv` holds under any operator: what a request has read and is to write fits its
place (`Stages`), a version tells whether a row is as it was read (`Versions`),
a row has one lock, a transaction's, the batch's or the downgrade's (`RowLocks`),
and the operator does one thing at a time (`OneAtATime`).

The other theorems are about the runbook, so they take an operator who keeps to
it and keeps `.env` up to date. The rules are assumptions on what the operator
does and on nothing else: a request, a statement of a revision, a batch, a lock
timeout, a deadlock and the check at start-up, which may fail, happen as the
code has it, in any order. Without the rules the statements are false; the
finding `back` and the observations on restarts are counterexamples. `Script` may be any sequence of commands:
the theorems hold up to the step that a script would take against the rules.

`Careful` is the invariant. Its parts: the schema serves the phase, the phase
that is about to be entered and every statement that is composed
(`SchemaServes`); while a phase is about to be entered, or `0004` or `0003`'s
downgrade runs, no request is under way that has seen an earlier phase
(`NobodyOlder`); what a request has composed is of the phase it has seen, and a name it is to commit
goes to every column that is read (`Composed`); those columns hold no NULL
(`NamesThere`); and from the check of a switch of the reads until the last
request that has the other column is over, both columns of every row are equal
and every write goes to both (`NamesAgree`, under `Crossing`). The last one is
why the two reads of the phase in one request show one name. A request's part of
it (`Fits`) only changes with the request, or with a step of the operator that
finds it `Fresh`; the rest (`Ground`) only with the operator, or at a commit.

For the refinement, a name is what the current phase reads of a row, a request
sets it at its `COMMIT`, and sees it at the last `SELECT`: `Arrive` maps to
`Begin`, `Commit` to `Set`, `Select` to `See`, an answer that fails after all to
`Forget`, `Restart` to `Restart`, and all other steps of requests, and all of the
operator's, to stutters. That a switch is a stutter is `NamesAgree`, that a
downgrade is one is `Serves` for both revisions (for `0003`: a row whose
`guest_name` it fills is one whose `guest_name` is not read), and that the last piece of
`0004` is one is that `new_only` reads the new columns.

`PagesProofs`, for all tables, windows, users, forms and any number of requests:

| Theorem | Statement |
|---|---|
| `InvHolds` | `Spec => []Inv`, the inductive invariant of `Pages` |
| `OffersAreBookableHolds` | `Spec => []OffersAreBookable` |
| `SelectedIsOfferedHolds` | `Spec => []SelectedIsOffered`: while tables are listed the selected one is a free one of the list |
| `CancelsWhatWasSeenHolds` | `Spec => CancelsWhatWasSeen`, an action property |

That a cancellation hits what was shown rests on versions telling states apart,
and a page may know a state from a list or from an answer still under way.
`WasSeen` says of each such state that it is the present one whenever the
versions agree, and that its version is no request's that is still to be served,
so that no later write can bring that version back for another state; that holds
for writes of any client to the customer's reservations too. For the
list of tables, `LastLoad` says that requests are numbered as they are sent and
that the last one asked for what is in the form; a list of another form then
comes from an earlier request, that is, one that was overtaken.

`SeedingProofs`, for all sizes, days and any number of runs:

| Theorem | Statement |
|---|---|
| `InvHolds` | `Spec => []Inv`, the inductive invariant of `Seeding` |
| `AllOrNothingHolds` | `Spec => []AllOrNothing` |
| `NoDocumentTwiceHolds` | `Spec => []NoDocumentTwice` |
| `ResetMends` | `Spec => []ResetMendsEverything` |
| `SeedsNoDoubleBookingHolds` | `Spec => []SeedsNoDoubleBooking` |

`Inserted` says what each statement of the transaction may rely on, `Documents`
that an `_id` determines its document, and `Mended` what `--reset` has put right
so far: the sequence is back at 1 before restaurants are inserted, so their ids
are those in the documents. That seeded windows never overlap is arithmetic on
the six slots: they lie end to end within a day, and two keys that differ differ
in the table, the day or the slot.

The assumptions of these modules are named as well (`NoneAssumption`,
`SizeAssumption` and so on) and say that the constants have their types, that
the accounts there are at first have different addresses. Nothing is assumed of
the floors of `--verify`: a run with `--reset` leaves databases that agree when
it comes to its check, whatever that check then says.

Of the migration the assumptions say that ids are natural numbers and finitely
many (the backfill walks them in order), that the empty name and NULL are no
names, and that `None` is no row, no set of values and no answer.

Only model-checked: liveness (`EveryRequestEnds`, `EveryOrderRequestEnds`,
`EveryCallEnds`, `MigrationCompletes`, `PagesComeBack`), which is out of the
prover's reach. `restarts` checks `FailsOnlyAcrossTheSwitch` and
`ClientsCannotTell` without the rules, for a script, contents of `.env` and
requests (no renames) with which a restart does no harm. Every other property of a passing run is a
theorem.

## 6. Not modelled

* The text of names: what `split_name` cuts at 60 characters, which names survive
  the split and the rebuild. The names of the model are values that the split
  keeps; a faithful model would be about strings, character by character.
* The product catalogue, and the search and creation of restaurants: single
  statements with filters, paging and text that nothing else depends on. What
  orders and pages read of them is in `Orders` and `Pages`.
* `GET` of a reservation, an order or their lists reads committed rows and
  changes nothing; the list of the account page and the `GET` of names are in
  `Pages` and `NameMigration`.
* The pool as bookings and orders use it (they take one connection at a time,
  like the edits of `Accounts`), and `pool_pre_ping`.
* A restart while `0004` runs in its pieces, or `0003`'s downgrade waits for the
  table; the runbook rules restarts out.
* Traffic generator, load test, phase script, configuration, health endpoint,
  containers, the other pages of the front end and vendored code keep no state
  the system relies on.
* The queue of a table's lock. A statement that waits for the table makes later
  ones wait too; here later statements may pass it, which only allows more.
* Password hashing, token signing and MongoDB's own behaviour are library code.

## 7. Findings

* `patch_codes`: a cancelled reservation whose slot was taken meanwhile is
  confirmed again. The constraint refuses it, `_commit_versioned` catches
  `StaleDataError` only, and the client gets a 500 where the API contract lists
  409 and friends.
* `switch_read`: the phase is read twice in one request. A `GET`, `PATCH` or
  `POST` composed in `dual_write` and answered in `read_new` raises on a column
  that was not loaded and ends in a 500, at the very step the runbook wants
  without a single 5xx.
* `back`: names edited in `new_only` leave `guest_name` stale, and only phases
  that read the *new* columns are refused over it. `dual_write` is entered and
  answers the old name. (`read_new`, which the runbook's rollback enters, is
  refused after such an edit.)
* `rerun`: the statements of `0004` commit one by one. When one after the first
  gets no lock in time, the check constraint of the first stays, and the same
  command, run again as the runbook says, starts with `ADD CONSTRAINT` of that
  name and fails every time.

More observations, which no run is kept for.

* Such a `PATCH` as in `patch_codes` and an overlapping `POST` can wait for each
  other, because only `POST` locks the table's row; PostgreSQL aborts one, and
  either may end in a 500. The same holds for a `PATCH` of an active
  reservation's party when its `UPDATE` is not heap-only.
* A `DELETE` may be answered 200 with a reservation that is confirmed, when
  another request confirms it before the answer is read.
* `PUT /admin/migration` sets the phase after its check, so that from `legacy`
  (which the guard accepts as a starting point of `read_new` once all rows are
  filled) a booking under way may commit without first and last name. In the runs
  the operator never enters `read_new` from `legacy`.
* A restart in `new_only` after a rename shows the old name, too: `guest_name` is
  stale, the check at start-up refuses `new_only` itself, the phase of `.env` in
  which the server ran before, and falls back to `dual_write` (unless a booking made in
  `new_only` has no `guest_name` at all).
* The check at start-up may raise (PostgreSQL is not there yet). `lifespan`
  swallows the exception and the phase of `.env` stays, over a schema that it may
  not fit, where `docs/DESIGN.md:190` says that a restart after `0004` with
  `legacy` in `.env` starts in `new_only`. In the model this is `Unchecked`; the
  run and the theorems take an operator who keeps `.env` up to date.
* The downgrade of `0003`, the runbook's rollback "5 after 0003", updates rows and
  then waits for the table. An edit that has read such a row and waits for it
  makes a deadlock, which PostgreSQL looks for after `deadlock_timeout`, before
  `lock_timeout`. If it ends the edit (`Victim`), the client gets a 500, where
  `alembic/env.py:46` says that the migration gives up.
* An interrupted `0004` leaves its constraint, or the `NOT NULL`, at revision
  `0003`: bookings of a phase that does not write the new columns are then
  answered 400.
* `POST /orders` answers 404 for a product id in upper-case hexadecimal, which
  the schema accepts and which finds its document, because the documents are
  looked up by `str(_id)`; and an order whose total exceeds `NUMERIC(10, 2)`
  (possible, since a price alone may fill the column) ends in a 500.
* Two users who take each other's e-mail address deadlock in the unique index,
  and one of them gets a 500. A sign-up, an edit, an order or a `PUT
  /admin/migration` that finds no connection for its last read within
  `pool_timeout` gets a 500 although it has taken effect.
* A profile field that is set back to the value it was loaded with writes nothing,
  so the answer may show another edit's value for a field the request has set.
* On the booking page an older answer about tables may overtake a newer one; the
  list is then that of an earlier form, and a table that is not in it is
  deselected. When a party size is cleared while tables are loading, the answer
  shows them all the same. A failed load leaves the selected table selected
  beside an empty list. A booking whose answer is lost and that is sent again is
  refused because of the customer's own booking.
* On the account page an answer that comes late may bring an older list back, and
  with it a cancel button for a reservation that is cancelled; the version makes
  that cancellation end in a 412 and another reload.
* A seed run that died after PostgreSQL's commit leaves MongoDB empty or in part
  filled, and the next run without `--reset` finds users, seeds nothing and exits
  0. A first run that was rolled back leaves the sequence advanced, so the run
  after it writes documents whose `restaurant_id` does not exist, until `--reset`.
