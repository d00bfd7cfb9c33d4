------------------------------- MODULE Orders -------------------------------
(***************************************************************************)
(* Placing an order across MongoDB and PostgreSQL, and changing its status *)
(* under its row lock (app/services/orders.py, app/routers/orders.py).     *)
(* Each request is one coroutine; every statement is a step.               *)
(*                                                                         *)
(* The menu is MongoDB's: nothing in the repository changes a product that *)
(* is there, other tools may, so every find() meets one of the menus of    *)
(* Menus.  An order is its own: its id is the request that placed it.      *)
(***************************************************************************)
EXTENDS Naturals, Sequences
LOCAL INSTANCE SequencesExt

CONSTANTS
    Seed,           \* the orders there are at first
    Placer,         \* requests that place an order
    Mover,          \* requests that change the status of one
    User,
    Staff,          \* the users who are staff or admin
    Restaurant,     \* the restaurants there are
    Owner,          \* the user of every reservation there is
    Product,
    Menus,          \* what find() may meet: a document for each product, or None
    None,
    Stored,         \* the status of each order of Seed
    Plan,           \* what each request may ask for
    MaxTotal,       \* the largest amount of total_amount, NUMERIC(10, 2)
    Fragile         \* bound: the requests whose statements may raise and whose
                    \* worker may die

Req == Placer \cup Mover

Id == Seed \cup Placer

OrderStatus == {"placed", "preparing", "ready", "completed", "cancelled"}

\* A line of the request.  The document of a product has its id in lower case,
\* and the schema allows both.
Item == [product : Product, upper : BOOLEAN, quantity : 1 .. 50]

Document == [restaurant : Nat, price : Nat, available : BOOLEAN]

\* A line as it is stored, with the price of the moment.
Line == [product : Product, price : Nat, quantity : 1 .. 50]

Order == [status : OrderStatus, restaurant : Nat, lines : Seq(Line)]

Placing == [user : User, restaurant : Nat, reservation : Nat \cup {None}, items : Seq(Item)]

Moving == [user : User, order : Id, to : OrderStatus]

Reply == [code : {200, 201, 400, 403, 404, 409, 500}, status : {None} \cup OrderStatus]

ASSUME RequestAssumption ==
    Placer \cap Mover = {} /\ Seed \cap Placer = {} /\ Fragile \subseteq Req
ASSUME NoneAssumption ==
    None \notin Order \cup Placing \cup Moving \cup Reply \cup Document \cup OrderStatus \cup Nat
ASSUME DataAssumption ==
    /\ Staff \subseteq User /\ Restaurant \subseteq Nat /\ MaxTotal \in Nat
    /\ Menus \subseteq [Product -> {None} \cup Document]
    /\ Stored \in [Seed -> OrderStatus]
ASSUME PlanAssumption ==
    /\ \A q \in Placer : \A c \in Plan[q] : c \in Placing /\ c.items # <<>>
    /\ \A q \in Mover : Plan[q] \subseteq Moving

VARIABLES
    orders,         \* the committed orders, None where there is none
    events,         \* the orders that user_telemetry has an order_placed of
    pc,             \* the next statement of each request
    call,           \* what each request asks for
    lines,          \* the lines a placing request has built from the menu
    seen,           \* the status a request has read
    reply           \* its status code, and the order's status in the body

vars == <<orders, events, pc, call, lines, seen, reply>>

-----------------------------------------------------------------------------

\* Mutant of TRANSITIONS: the status an order already has is accepted.
SameAllowed == [s \in OrderStatus |->
    CASE s = "placed" -> {"placed", "preparing", "cancelled"}
      [] s = "preparing" -> {"preparing", "ready", "cancelled"}
      [] s = "ready" -> {"ready", "completed"}
      [] OTHER -> {s}]

TRANSITIONS == [s \in OrderStatus |->
    CASE s = "placed" -> {"preparing", "cancelled"}
      [] s = "preparing" -> {"ready", "cancelled"}
      [] s = "ready" -> {"completed"}
      [] OTHER -> {}]

Total(ls) == FoldSeq(LAMBDA l, sum : sum + l.price * l.quantity, 0, ls)

Goto(q, s) == pc' = [pc EXCEPT ![q] = s]

Send(q, code, status) ==
    /\ Goto(q, "done")
    /\ reply' = [reply EXCEPT ![q] = [code |-> code, status |-> status]]

Fail(q, code) == Send(q, code, None) /\ UNCHANGED <<orders, events, call, lines, seen>>

\* get_current_user and require_role have passed, or the answer is 403.
Arrive(q) ==
    /\ pc[q] = "idle"
    /\ \E c \in Plan[q] :
         /\ call' = [call EXCEPT ![q] = c]
         /\ IF q \in Placer THEN Goto(q, "verify") /\ UNCHANGED reply
            ELSE IF c.user \in Staff THEN Goto(q, "lock") /\ UNCHANGED reply
            ELSE Send(q, 403, None)
    /\ UNCHANGED <<orders, events, lines, seen>>

-----------------------------------------------------------------------------
(* create_order                                                            *)

\* Why PostgreSQL refuses the restaurant or the reservation; 0 when it does not.
PlacingRefusal(c) ==
    IF c.restaurant \notin Restaurant THEN 404
    ELSE IF c.reservation = None THEN 0
    ELSE IF c.reservation \notin DOMAIN Owner THEN 404
    ELSE IF Owner[c.reservation] # c.user THEN 403 ELSE 0

Verify(q) ==
    /\ pc[q] = "verify"
    /\ IF PlacingRefusal(call[q]) # 0 THEN Fail(q, PlacingRefusal(call[q]))
       ELSE Goto(q, "find") /\ UNCHANGED <<orders, events, call, lines, seen, reply>>

\* Why the menu refuses the items.  The documents found are looked up by the id
\* of the request as it is spelled.
MenuRefusal(c, menu) ==
    LET asked == {c.items[i] : i \in DOMAIN c.items}
    IN  IF \E i \in asked : menu[i.product] = None \/ i.upper THEN 404
        ELSE IF \E i \in asked : menu[i.product].restaurant # c.restaurant THEN 400
        ELSE IF \E i \in asked : ~menu[i.product].available THEN 409 ELSE 0

\* The lines of the order, with the prices of the menu.
Priced(c, menu) ==
    [i \in DOMAIN c.items |->
        [product |-> c.items[i].product, price |-> menu[c.items[i].product].price,
         quantity |-> c.items[i].quantity]]

Find(q) ==
    /\ pc[q] = "find"
    /\ \E menu \in Menus :
         IF MenuRefusal(call[q], menu) # 0 THEN Fail(q, MenuRefusal(call[q], menu))
         ELSE /\ lines' = [lines EXCEPT ![q] = Priced(call[q], menu)]
              /\ Goto(q, "save")
              /\ UNCHANGED <<orders, events, call, seen, reply>>

NewOrder(q) == [status |-> "placed", restaurant |-> call[q].restaurant, lines |-> lines[q]]

\* Mutant of Save: an amount one above the largest is taken for one that fits.
SaveMore(q) ==
    /\ pc[q] = "save"
    /\ IF Total(lines[q]) <= MaxTotal + 1
       THEN /\ orders' = [orders EXCEPT ![q] = NewOrder(q)]
            /\ Goto(q, "refresh")
            /\ UNCHANGED <<events, call, lines, seen, reply>>
       ELSE Fail(q, 500)

\* INSERT and COMMIT of the order with its lines.  An amount that does not fit
\* NUMERIC(10, 2) is an error nobody catches.
Save(q) ==
    /\ pc[q] = "save"
    /\ IF Total(lines[q]) <= MaxTotal
       THEN /\ orders' = [orders EXCEPT ![q] = NewOrder(q)]
            /\ Goto(q, "refresh")
            /\ UNCHANGED <<events, call, lines, seen, reply>>
       ELSE Fail(q, 500)

\* session.refresh(order), on a connection that the pool gives for it.
Refresh(q) ==
    /\ pc[q] = "refresh"
    /\ seen' = [seen EXCEPT ![q] = orders[q].status]
    /\ Goto(q, "note")
    /\ UNCHANGED <<orders, events, call, lines, reply>>

\* Mutant of Note: an error is not caught.
NoteRaises(q) ==
    /\ pc[q] = "note"
    /\ \/ events' = events \cup {q} /\ Send(q, 201, seen[q])
       \/ events' = events /\ Send(q, 500, None)
    /\ UNCHANGED <<orders, call, lines, seen>>

\* The telemetry is written or it is not, and the order is answered.
Note(q) ==
    /\ pc[q] = "note"
    /\ events' \in {events, events \cup {q}}
    /\ Send(q, 201, seen[q])
    /\ UNCHANGED <<orders, call, lines, seen>>

-----------------------------------------------------------------------------
(* advance_status                                                          *)

\* Mutants of Holders: without FOR UPDATE, and without the rollback of a
\* refused change.
NoLock(o) == {}
LeakedLock(o) ==
    {q \in Mover : /\ \/ pc[q] \in {"decide", "commit"}
                      \/ pc[q] = "done" /\ reply[q].code = 409
                   /\ call[q].order = o}

\* The requests that hold the row lock of an order.
Holders(o) == {q \in Mover : pc[q] \in {"decide", "commit"} /\ call[q].order = o}

\* SELECT status ... FOR UPDATE
Lock(q) ==
    /\ pc[q] = "lock"
    /\ Holders(call[q].order) = {}
    /\ IF orders[call[q].order] = None THEN Fail(q, 404)
       ELSE /\ seen' = [seen EXCEPT ![q] = orders[call[q].order].status]
            /\ Goto(q, "decide")
            /\ UNCHANGED <<orders, events, call, lines, reply>>

\* ROLLBACK and 409, or UPDATE.
Decide(q) ==
    /\ pc[q] = "decide"
    /\ IF call[q].to \in TRANSITIONS[seen[q]]
       THEN Goto(q, "commit") /\ UNCHANGED <<orders, events, call, lines, seen, reply>>
       ELSE Fail(q, 409)

Commit(q) ==
    /\ pc[q] = "commit"
    /\ orders' = [orders EXCEPT ![call[q].order].status = call[q].to]
    /\ Goto(q, "reload")
    /\ UNCHANGED <<events, call, lines, seen, reply>>

\* The answer is read after the commit.
Reload(q) ==
    /\ pc[q] = "reload"
    /\ Send(q, 200, orders[call[q].order].status)
    /\ UNCHANGED <<orders, events, call, lines, seen>>

-----------------------------------------------------------------------------

\* A statement, of PostgreSQL or of MongoDB, raises: the database is out of reach,
\* or the pool has no connection for the statement (the commit before refresh()
\* and before the last SELECT has given one back).  The transaction is rolled
\* back and the answer is 500; only the telemetry's errors are caught.
Raise(q) ==
    /\ q \in Fragile
    /\ pc[q] \notin {"idle", "note", "done", "lost"}
    /\ Send(q, 500, None)
    /\ seen' = [seen EXCEPT ![q] = IF pc[q] \in {"decide", "commit"} THEN None ELSE @]
    /\ UNCHANGED <<orders, events, call, lines>>

Place(q) == Verify(q) \/ Find(q) \/ Save(q) \/ Refresh(q) \/ Note(q)

Move(q) == Lock(q) \/ Decide(q) \/ Commit(q) \/ Reload(q)

\* The worker dies: what is not committed is rolled back, and with it what the
\* transaction has read; no answer is sent, though the event may be there.
Die(q) ==
    /\ q \in Fragile
    /\ pc[q] \notin {"idle", "done", "lost"}
    /\ Goto(q, "lost")
    /\ seen' = [seen EXCEPT ![q] = IF pc[q] \in {"decide", "commit"} THEN None ELSE @]
    /\ events' \in {events} \cup IF pc[q] = "note" THEN {events \cup {q}} ELSE {}
    /\ UNCHANGED <<orders, call, lines, reply>>

Init ==
    /\ orders = [o \in Id |-> IF o \in Seed
                              THEN [status |-> Stored[o], restaurant |-> 0, lines |-> <<>>]
                              ELSE None]
    /\ events = {}
    /\ pc = [q \in Req |-> "idle"]
    /\ call = [q \in Req |-> None]
    /\ lines = [q \in Placer |-> <<>>]
    /\ seen = [q \in Req |-> None]
    /\ reply = [q \in Req |-> None]

Next ==
    \/ \E q \in Placer : Place(q)
    \/ \E q \in Mover : Move(q)
    \/ \E q \in Req : Arrive(q) \/ Raise(q) \/ Die(q)

Spec == Init /\ [][Next]_vars

\* The event loop resumes every coroutine; a client need not send a request,
\* no statement need raise and no worker need die.
FairSpec ==
    /\ Spec
    /\ \A q \in Placer : WF_vars(Place(q))
    /\ \A q \in Mover : WF_vars(Move(q))

-----------------------------------------------------------------------------
(* Properties.                                                             *)

\* Every variable has its type, and no stored amount exceeds its column.
TypeOK ==
    /\ orders \in [Id -> {None} \cup Order]
    /\ \A o \in Placer : orders[o] # None => Total(orders[o].lines) <= MaxTotal
    /\ events \subseteq Id
    /\ pc \in [Req -> {"idle", "verify", "find", "save", "refresh", "note",
                       "lock", "decide", "commit", "reload", "done", "lost"}]
    /\ call \in [Req -> {None} \cup Placing \cup Moving]
    /\ \A q \in Req : call[q] \in {None} \cup IF q \in Placer THEN Placing ELSE Moving
    /\ lines \in [Placer -> Seq(Line)]
    /\ seen \in [Req -> {None} \cup OrderStatus]
    /\ reply \in [Req -> {None} \cup Reply]

\* The statuses that an order can still get to.
Later == [s \in OrderStatus |->
    CASE s = "placed" -> {"preparing", "ready", "completed", "cancelled"}
      [] s = "preparing" -> {"ready", "completed", "cancelled"}
      [] s = "ready" -> {"completed"}
      [] OTHER -> {}]

\* The changes of status that are committed.
Applied ==
    {q \in Mover : \/ pc[q] = "reload"
                   \/ pc[q] = "done" /\ reply[q].code = 200
                   \/ pc[q] = "done" /\ reply[q].code = 500 /\ seen[q] # None
                   \/ pc[q] = "lost" /\ seen[q] # None}

\* The accepted changes of one order follow one another (docs/DESIGN.md: "the
\* last one wins" is what the lock prevents): no two of them leave the same
\* status, the order has moved on from each, and each ends where it was asked to
\* or further.
ChangesFormAPath ==
    /\ \A q1, q2 \in Applied :
         q1 # q2 /\ call[q1].order = call[q2].order => seen[q1] # seen[q2]
    /\ \A q \in Applied :
         LET now == orders[call[q].order].status
         IN  now \in Later[seen[q]] /\ now \in {call[q].to} \cup Later[call[q].to]

\* A stored order only ever changes its status, along TRANSITIONS: completed and
\* cancelled orders stay, and the receipt does not follow the menu.
OnlyTransitions ==
    [][\A o \in Id : orders[o] # None /\ orders'[o] # orders[o] =>
          /\ orders'[o] # None
          /\ orders'[o] = [orders[o] EXCEPT !.status = orders'[o].status]
          /\ orders'[o].status \in TRANSITIONS[orders[o].status]]_vars

\* What the placing of an order promises across the two databases: 201 says that
\* the order is stored and a refusal that nothing is, and once the stored order
\* has been read again the answer is 201, whatever happens to the telemetry.  A
\* 500 leaves an order behind only when that reading fails.
AnswersMatchOrders ==
    \A q \in Placer : reply[q] # None =>
        /\ reply[q].code = 201 => orders[q] # None
        /\ reply[q].code \in {400, 403, 404, 409} => orders[q] = None
        /\ seen[q] # None => reply[q].code = 201

\* An order_placed event has its order.
EventsHaveOrders == \A o \in events : orders[o] # None

\* Every accepted request ends: the row lock is given back on every way out.
EveryOrderRequestEnds ==
    \A q \in Req : [](pc[q] \notin {"idle", "done", "lost"} => <>(pc[q] \in {"done", "lost"}))

-----------------------------------------------------------------------------
(* The inductive invariant.                                                *)

\* Where a request is, and what it holds there.
Stages ==
    /\ \A q \in Placer :
         pc[q] \in {"idle", "verify", "find", "save", "refresh", "note", "done", "lost"}
    /\ \A q \in Mover : pc[q] \in {"idle", "lock", "decide", "commit", "reload", "done", "lost"}
    /\ \A q \in Req : pc[q] # "idle" => call[q] # None
    /\ \A q \in Req : reply[q] # None <=> pc[q] = "done"
    /\ \A q \in Mover : pc[q] \in {"idle", "lock"} => seen[q] = None

\* The order of a request is stored from its commit on, and read after it.
Placed ==
    \A q \in Placer :
        /\ pc[q] \in {"idle", "verify", "find", "save"} => orders[q] = None /\ seen[q] = None
        /\ pc[q] = "refresh" => orders[q] # None /\ seen[q] = None
        /\ pc[q] = "note" => orders[q] # None /\ seen[q] # None

\* The holder of a row lock is alone and knows the order's status.
Locked ==
    \A q \in Mover : pc[q] \in {"decide", "commit"} =>
        /\ orders[call[q].order] # None
        /\ orders[call[q].order].status = seen[q]
        /\ pc[q] = "commit" => call[q].to \in TRANSITIONS[seen[q]]
        /\ \A p \in Mover \ {q} : pc[p] \in {"decide", "commit"} => call[p].order # call[q].order

\* A committed change was allowed.
Allowed ==
    \A q \in Applied :
        /\ orders[call[q].order] # None
        /\ seen[q] # None
        /\ call[q].to \in TRANSITIONS[seen[q]]

Inv ==
    /\ TypeOK
    /\ Stages
    /\ Placed
    /\ Locked
    /\ Allowed
    /\ ChangesFormAPath
    /\ AnswersMatchOrders
    /\ EventsHaveOrders
=============================================================================
