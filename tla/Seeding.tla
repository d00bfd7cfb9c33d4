------------------------------ MODULE Seeding ------------------------------
(***************************************************************************)
(* The seed script (scripts/seed.py) and the two databases it fills: all   *)
(* rows of PostgreSQL in one transaction, then the collections of MongoDB  *)
(* one after the other, whose documents refer to restaurants by the ids    *)
(* that a fresh sequence gives.  The script may die between any two        *)
(* statements, and within the write of a collection, and is run again,     *)
(* with --reset or without.                                                *)
(*                                                                         *)
(* A row stands for what other rows and documents refer to; names, prices  *)
(* and texts are left out.                                                 *)
(***************************************************************************)
EXTENDS Integers, FiniteSets, FiniteSetsExt, Functions

CONSTANTS
    NUsers, NRestaurants, TablesPer, NReservations, NOrders,
    ItemsPer,                               \* the most items an order has
    NProducts, NReviews, NTelemetry,        \* the sizes of seed.py
    Days, Slots,                            \* the days and slots drawn from
    MinPg, MinMongo,                        \* the floors of --verify
    MaxRuns,                                \* bound: how often the script runs
    None

Size == Nat \ {0}

ASSUME SizeAssumption ==
    /\ NUsers \in Size /\ NRestaurants \in Size /\ TablesPer \in Size /\ NReservations \in Size
    /\ NOrders \in Size /\ ItemsPer \in Size
    /\ NProducts \in Size /\ NReviews \in Size /\ NTelemetry \in Size
    /\ MinPg \in Size /\ MinMongo \in Size /\ MaxRuns \in Size
ASSUME SlotAssumption == Days \subseteq Int /\ Slots \subseteq 0 .. 5

VARIABLES
    pg,             \* what is committed in PostgreSQL
    rows,           \* what the open transaction sees
    sequence,       \* the id of the next restaurant: not rolled back
    mongo,          \* per collection, its documents
    pc,             \* the script's next statement
    reset,          \* --reset
    runs,
    exit            \* how the last run ended: a code and whether it was --reset

vars == <<pg, rows, sequence, mongo, pc, reset, runs, exit>>

-----------------------------------------------------------------------------
(* What is drawn.                                                          *)

Empty == [users |-> 0, restaurants |-> {}, tables |-> {}, reservations |-> <<>>, orders |-> <<>>]

Collection == <<"products", "reviews", "telemetry">>
Collections == Range(Collection)
Bare == [c \in Collections |-> {}]

\* The hours of the slots, in minutes of the day.
StartsAt == [s \in 0 .. 5 |-> CASE s = 0 -> 1020 [] s = 1 -> 1110 [] s = 2 -> 1200
                                [] s = 3 -> 1290 [] s = 4 -> 720 [] s = 5 -> 810]

\* starts_at and ends_at
Window(key) == LET m == key.day * 1440 + StartsAt[key.slot] IN <<m, m + 90>>

Keys(tables) == [table : tables, day : Days, slot : Slots]

\* Mutant of Draws: the keys that were drawn are not remembered.
DrawsAgain(tables) == UNION {[1 .. k -> Keys(tables)] : k \in 0 .. NReservations}

\* The reservations drawn: "taken" keeps their keys apart, and the bound on the
\* attempts may leave fewer than asked for.
Draws(tables) == UNION {Injection(1 .. k, Keys(tables)) : k \in 0 .. NReservations}

\* Mutant of OidOf: a new ObjectId in every run.
OidEachRun(n) == <<n, runs>>

\* stable_oid
OidOf(n) == <<n, 0>>

\* The documents of a collection, with the restaurant each refers to: the ids
\* are counted from 1.  A click in the telemetry refers to none.
Docs(c) ==
    LET size == CASE c = "products" -> NProducts [] c = "reviews" -> NReviews
                  [] OTHER -> NTelemetry
        doc(n, r) == [id |-> OidOf(n), n |-> n, restaurant |-> r]
    IN  IF c = "telemetry"
        THEN {{doc(n, f[n]) : n \in 0 .. size - 1} :
                f \in [0 .. size - 1 -> (1 .. NRestaurants) \cup {None}]}
        ELSE {{doc(n, (n % NRestaurants) + 1) : n \in 0 .. size - 1}}

\* bulk_write of upserts: a document with the same _id is replaced.
Upserted(old, new) == {d \in old : \A e \in new : e.id # d.id} \cup new

\* The rows of order_items: an order and the number of an item of it.
OrderItems == UNION {{i} \X DOMAIN pg.orders[i].items : i \in DOMAIN pg.orders}

PgTotal == pg.users + Cardinality(pg.restaurants) + Cardinality(pg.tables)
           + Cardinality(DOMAIN pg.reservations) + Cardinality(DOMAIN pg.orders)
           + Cardinality(OrderItems)
MongoTotal == Cardinality(mongo["products"]) + Cardinality(mongo["reviews"])
              + Cardinality(mongo["telemetry"])

\* verify()
Verified == PgTotal >= MinPg /\ MongoTotal >= MinMongo

-----------------------------------------------------------------------------
(* The script.                                                             *)

At(s) == pc = s
Then(s) == pc' = s /\ UNCHANGED <<reset, runs, exit>>
Exit(code) == /\ pc' = "idle" /\ exit' = [code |-> code, reset |-> reset]
              /\ UNCHANGED <<reset, runs>>

\* main(): seed.py, with --reset or without
Run ==
    /\ At("idle") /\ runs < MaxRuns
    /\ runs' = runs + 1
    /\ \E b \in BOOLEAN : reset' = b /\ pc' = IF b THEN "truncate" ELSE "count"
    /\ exit' = None
    /\ UNCHANGED <<pg, rows, sequence, mongo>>

\* seed.py --verify
Verify ==
    /\ At("idle") /\ runs < MaxRuns
    /\ runs' = runs + 1
    /\ exit' = [code |-> IF Verified THEN 0 ELSE 1, reset |-> FALSE]
    /\ UNCHANGED <<pg, rows, sequence, mongo, pc, reset>>

\* Mutant of Truncate: without RESTART IDENTITY.
TruncateOnly ==
    /\ At("truncate")
    /\ pg' = Empty /\ rows' = Empty
    /\ Then("delete")
    /\ UNCHANGED <<sequence, mongo>>

\* reset_postgres: TRUNCATE ... RESTART IDENTITY, and its commit
Truncate ==
    /\ At("truncate")
    /\ pg' = Empty /\ rows' = Empty
    /\ sequence' = 1
    /\ Then("delete")
    /\ UNCHANGED mongo

\* reset_mongo: one delete_many per collection, that comes to its end
Delete ==
    /\ At("delete")
    /\ LET full == {i \in 1 .. 3 : mongo[Collection[i]] # {}}
       IN  IF full = {} THEN Then("count") /\ UNCHANGED mongo
           ELSE Then("delete") /\ mongo' = [mongo EXCEPT ![Collection[Min(full)]] = {}]
    /\ UNCHANGED <<pg, rows, sequence>>

\* Users there are and no --reset: counted, but the code is 0 all the same.
Count ==
    /\ At("count")
    /\ IF pg.users > 0 /\ ~reset THEN Exit(0) ELSE Then("users")
    /\ rows' = pg
    /\ UNCHANGED <<pg, sequence, mongo>>

Users ==
    /\ At("users")
    /\ rows' = [rows EXCEPT !.users = NUsers]
    /\ Then("restaurants")
    /\ UNCHANGED <<pg, sequence, mongo>>

Restaurants ==
    /\ At("restaurants")
    /\ rows' = [rows EXCEPT !.restaurants = sequence .. sequence + NRestaurants - 1]
    /\ sequence' = sequence + NRestaurants
    /\ Then("tables")
    /\ UNCHANGED <<pg, mongo>>

\* Mutant of Tables: the ids of the restaurants are taken to be 1, 2, ...
TablesCounted ==
    /\ At("tables")
    /\ rows' = [rows EXCEPT !.tables = [restaurant : 1 .. NRestaurants, number : 1 .. TablesPer]]
    /\ Then("reservations")
    /\ UNCHANGED <<pg, sequence, mongo>>

Tables ==
    /\ At("tables")
    /\ rows' = [rows EXCEPT !.tables = [restaurant : rows.restaurants, number : 1 .. TablesPer]]
    /\ Then("reservations")
    /\ UNCHANGED <<pg, sequence, mongo>>

\* Mutant of Reservations: a commit where the code flushes.
ReservationsCommitted ==
    /\ At("reservations")
    /\ \E f \in Draws(rows.tables) : rows' = [rows EXCEPT !.reservations = f]
    /\ pg' = rows'
    /\ Then("orders")
    /\ UNCHANGED <<sequence, mongo>>

Reservations ==
    /\ At("reservations")
    /\ \E f \in Draws(rows.tables) : rows' = [rows EXCEPT !.reservations = f]
    /\ Then("orders")
    /\ UNCHANGED <<pg, sequence, mongo>>

\* What an order may have: up to four items, each of a product of MongoDB.
Items == UNION {[1 .. k -> 0 .. NProducts - 1] : k \in 1 .. ItemsPer}

\* The orders with their items, and the COMMIT.
Orders ==
    /\ At("orders")
    /\ \E f \in [1 .. NOrders -> [restaurant : rows.restaurants, items : Items]] :
         rows' = [rows EXCEPT !.orders = f]
    /\ pg' = rows'
    /\ Then("products")
    /\ UNCHANGED <<sequence, mongo>>

\* seed_mongo: one bulk_write per collection, that comes to its end; what one
\* that does not leaves behind is Halfway.
Fill(c, next) ==
    /\ At(c)
    /\ \E D \in Docs(c) : mongo' = [mongo EXCEPT ![c] = Upserted(@, D)]
    /\ Then(next)
    /\ UNCHANGED <<pg, rows, sequence>>

SeedMongo ==
    Fill("products", "reviews") \/ Fill("reviews", "telemetry") \/ Fill("telemetry", "check")

Check ==
    /\ At("check")
    /\ Exit(IF Verified THEN 0 ELSE 1)
    /\ UNCHANGED <<pg, rows, sequence, mongo>>

\* What a write of MongoDB that breaks off may leave: bulk_write(ordered=False)
\* has upserted some of its documents, delete_many has deleted some.
Halfway ==
    LET full == {i \in 1 .. 3 : mongo[Collection[i]] # {}}
    IN  CASE pc \in Collections ->
               {[mongo EXCEPT ![pc] = Upserted(@, S)] : S \in UNION {SUBSET D : D \in Docs(pc)}}
          [] pc = "delete" /\ full # {} ->
               {[mongo EXCEPT ![Collection[Min(full)]] = S] : S \in SUBSET mongo[Collection[Min(full)]]}
          [] OTHER -> {mongo}

\* The script dies, or a statement of it raises: what it has not committed to
\* PostgreSQL is rolled back.
Die ==
    /\ ~At("idle")
    /\ mongo' \in Halfway
    /\ pc' = "idle" /\ exit' = [code |-> 1, reset |-> reset]
    /\ rows' = pg
    /\ UNCHANGED <<pg, sequence, reset, runs>>

-----------------------------------------------------------------------------

Init ==
    /\ pg = Empty /\ rows = Empty
    /\ sequence = 1
    /\ mongo = Bare
    /\ pc = "idle"
    /\ reset = FALSE
    /\ runs = 0
    /\ exit = None

Step ==
    \/ Truncate \/ Delete \/ Count \/ Users \/ Restaurants \/ Tables \/ Reservations \/ Orders
    \/ SeedMongo \/ Check

Next == Run \/ Verify \/ Step \/ Die

Spec == Init /\ [][Next]_vars

-----------------------------------------------------------------------------
(* Properties.                                                             *)

\* Rows refer to rows, and restaurants have ids that were given out.
References(db) ==
    /\ db.users \in {0, NUsers}
    /\ db.restaurants \subseteq 1 .. sequence - 1
    /\ \A t \in db.tables : t.restaurant \in db.restaurants /\ t.number \in 1 .. TablesPer
    /\ \A i \in DOMAIN db.reservations : db.reservations[i].table \in db.tables
    /\ \A i \in DOMAIN db.orders : db.orders[i].restaurant \in db.restaurants

TypeOK ==
    /\ References(pg) /\ References(rows)
    /\ sequence \in Size
    /\ pc \in Collections \cup {"idle", "truncate", "delete", "count", "users", "restaurants",
                                "tables", "reservations", "orders", "check"}
    /\ reset \in BOOLEAN /\ runs \in 0 .. MaxRuns
    /\ exit \in {None} \cup [code : {0, 1}, reset : BOOLEAN]

\* Wherever the script dies, PostgreSQL is empty or holds everything.
AllOrNothing ==
    pg # Empty => /\ pg.users = NUsers
                  /\ Cardinality(pg.restaurants) = NRestaurants
                  /\ pg.tables = [restaurant : pg.restaurants, number : 1 .. TablesPer]
                  /\ DOMAIN pg.orders = 1 .. NOrders

\* No two seeded reservations are at one table at one time: the constraint of
\* alembic 0001 would turn the whole transaction away.
SeedsNoDoubleBooking ==
    \A i, j \in DOMAIN rows.reservations :
        LET s == rows.reservations[i]
            t == rows.reservations[j]
        IN  (i # j /\ s.table = t.table) =>
                ~(Window(s)[1] < Window(t)[2] /\ Window(t)[1] < Window(s)[2])

\* However often the script has run, no document is there twice.
NoDocumentTwice ==
    \A c \in Collections : \A d, e \in mongo[c] : d.n = e.n => d = e

\* When a run with --reset has come to its check, whatever the check counts, and
\* when it has ended well, whatever happened before it, every document
\* refers to a restaurant there is, and every item of an order to a product there is.
ResetMendsEverything ==
    (reset /\ pc = "check") \/ (exit # None /\ exit.reset /\ exit.code = 0) =>
        /\ AllOrNothing /\ pg # Empty
        /\ \A c \in Collections : \A d \in mongo[c] :
             d.restaurant \in pg.restaurants \cup {None}
        /\ \A i \in DOMAIN pg.orders : \A j \in DOMAIN pg.orders[i].items :
             \E d \in mongo["products"] : d.n = pg.orders[i].items[j]

-----------------------------------------------------------------------------
(* The inductive invariant.                                                *)

Record(db) ==
    db = [users |-> db.users, restaurants |-> db.restaurants, tables |-> db.tables,
          reservations |-> db.reservations, orders |-> db.orders]

\* The keys of the reservations are drawn once each.
Drawn(db) ==
    \A i, j \in DOMAIN db.reservations :
        /\ db.reservations[i] \in Keys(db.tables)
        /\ db.reservations[i] = db.reservations[j] => i = j

\* The items are of products of the catalogue.
Ordered(db) ==
    \A i \in DOMAIN db.orders : \A j \in DOMAIN db.orders[i].items :
        db.orders[i].items[j] \in 0 .. NProducts - 1

Fitting(db) == Record(db) /\ Drawn(db) /\ Ordered(db)

\* What is in the two views of PostgreSQL, wherever the script is.
Inserted ==
    /\ Fitting(pg) /\ Fitting(rows)
    /\ pc \notin {"restaurants", "tables", "reservations", "orders"} => rows = pg
    /\ pc \in {"users", "restaurants", "tables", "reservations", "orders"} => pg = Empty
    /\ pc \in {"restaurants", "tables", "reservations", "orders"} =>
          rows.users = NUsers /\ rows.orders = <<>> /\ (pc # "orders" => rows.reservations = <<>>)
    /\ pc \in {"tables", "reservations", "orders"} => Cardinality(rows.restaurants) = NRestaurants
    /\ pc \in {"reservations", "orders"} =>
          rows.tables = [restaurant : rows.restaurants, number : 1 .. TablesPer]
    /\ pc = "restaurants" => rows.restaurants = {}
    /\ pc \in {"restaurants", "tables"} => rows.tables = {}
    /\ pc \in Collections \cup {"check"} => pg # Empty

\* Documents, and the products there are once they are written.
Documents ==
    /\ mongo = [c \in Collections |-> mongo[c]]
    /\ \A c \in Collections : \A d \in mongo[c] : d.id = OidOf(d.n)
    /\ pc \in {"reviews", "telemetry", "check"} =>
          \A n \in 0 .. NProducts - 1 : \E d \in mongo["products"] : d.n = n

\* What --reset has put right, as far as the script has come.
Mended ==
    /\ pc # "idle" => exit = None
    /\ (reset /\ pc \in {"delete", "count"}) => pg = Empty
    /\ (reset /\ pc \in {"delete", "count", "users", "restaurants"}) => sequence = 1
    /\ (reset /\ pc \in {"tables", "reservations", "orders"}) => rows.restaurants = 1 .. NRestaurants
    /\ (reset /\ pc \in Collections \cup {"check"}) => pg.restaurants = 1 .. NRestaurants
    /\ (reset /\ pc \notin {"idle", "truncate", "delete"}) =>
          \A c \in Collections : \A d \in mongo[c] : d.restaurant \in (1 .. NRestaurants) \cup {None}

Inv ==
    /\ TypeOK /\ Inserted /\ Documents /\ Mended
    /\ AllOrNothing /\ NoDocumentTwice /\ ResetMendsEverything
=============================================================================
