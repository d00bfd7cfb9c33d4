------------------------------- MODULE Pages -------------------------------
(***************************************************************************)
(* A customer with two pages of the frontend open, the booking page        *)
(* (pages/BookTable.js) and the account page (pages/AccountPage.js), and   *)
(* the endpoints they call: the availability of tables, the list of the    *)
(* customer's reservations, booking and cancelling.  An endpoint is one    *)
(* step here; Reservations says how bookings and cancellations come to be  *)
(* single steps (it implements BookingLedger).  Answers arrive in any      *)
(* order, or never: then fetch throws, and the server may still serve the  *)
(* request.  Other clients book, edit and cancel between the steps.        *)
(***************************************************************************)
EXTENDS ReservationData

CONSTANTS
    Info,           \* per table: its capacity and whether it is active
    Stored,         \* the reservations there are at first
    Me,             \* the customer
    Default,        \* defaultSlot()
    Foreign,        \* the reservations that other clients may make
    Given,          \* the statuses that their PATCHes give
    MaxErrors       \* bound: how many requests fail on the network

ASSUME ReqAssumption == Req \subseteq Nat /\ Req # {}
ASSUME InfoAssumption == Info \in [Table -> [active : BOOLEAN, capacity : Nat]]
ASSUME StoredAssumption ==
    /\ Stored \in [Seed -> Tuple] /\ \A s \in Seed : Stored[s].version \notin Req
    /\ Me \in User
ASSUME FormAssumption == Default \in Window /\ 2 \in Party /\ Foreign \subseteq Tuple /\ Given \subseteq Status
ASSUME PartyIsPositive == 0 \notin Party /\ MaxErrors \in Nat

VARIABLES
    book,           \* the committed reservations
    flight,         \* the requests: operation, payload, answer
    form,           \* BookTable: time, party (0: not a valid one), table
    tables,         \* the list of tables: the request it answers, and the free ones
    submitting,
    place,          \* "closed", "form" or, after router.push, "confirmed"
    bookings,       \* AccountPage: the reservations listed
    state,          \* "closed", "loading", "ready" or "error"
    cancelling      \* the reservation whose button is disabled

booking == <<form, tables, submitting, place>>
account == <<bookings, state, cancelling>>
vars == <<book, flight, form, tables, submitting, place, bookings, state, cancelling>>

-----------------------------------------------------------------------------
(* The endpoints.                                                          *)

\* Mutant of Available: cancelled reservations count.
AvailableUncancelled(w, n) ==
    {t \in Table : /\ Info[t].active /\ Info[t].capacity >= n
                   /\ ~\E r \in Row : /\ book[r] # None /\ book[r].table = t
                                      /\ Overlap(book[r].window, w)}

\* check_availability: the tables it calls available.
Available(w, n) ==
    {t \in Table : /\ Info[t].active /\ Info[t].capacity >= n
                   /\ ~\E r \in Row : /\ Active(book[r]) /\ book[r].table = t
                                      /\ Overlap(book[r].window, w)}

New(q, a) == [table |-> a.table, window |-> a.window, user |-> Me, party |-> a.party,
              status |-> "confirmed", version |-> q]

\* create_reservation's answer.
BookCode(t) ==
    IF ~Info[t.table].active \/ t.party > Info[t.table].capacity THEN 400
    ELSE IF \E r \in Row : Clash(book[r], t) THEN 409 ELSE 201

\* select_my_bookings
Mine == {r \in Row : book[r] # None /\ book[r].user = Me}

\* Mutant of CancelCode: the header is not compared.
CancelAny(a) == 200

\* cancel_reservation: check_if_match with the version that the page has.
CancelCode(a) == IF book[a.row].version = a.saw.version THEN 200 ELSE 412

Answer(q, code, body) ==
    flight' = [flight EXCEPT ![q].served = TRUE,
                             ![q].answer = IF @ = None THEN [code |-> code, body |-> body] ELSE @]

ServeTables(q) ==
    /\ flight[q].op = "tables"
    /\ Answer(q, 200, Available(flight[q].arg.window, flight[q].arg.party))
    /\ UNCHANGED book

ServeList(q) ==
    /\ flight[q].op = "list"
    /\ Answer(q, 200, [r \in Mine |-> book[r]])
    /\ UNCHANGED book

ServeBook(q) ==
    LET t == New(q, flight[q].arg)
    IN  /\ flight[q].op = "book"
        /\ Answer(q, BookCode(t), None)
        /\ book' = IF BookCode(t) = 201 THEN [book EXCEPT ![q] = t] ELSE book

\* A reservation that is cancelled already is left as it is.
ServeCancel(q) ==
    LET r == flight[q].arg.row
        t == IF Active(book[r])
             THEN [book[r] EXCEPT !.status = "cancelled", !.version = q] ELSE book[r]
        code == CancelCode(flight[q].arg)
    IN  /\ flight[q].op = "cancel"
        /\ Answer(q, code, IF code = 200 THEN t ELSE None)
        /\ book' = IF code = 200 THEN [book EXCEPT ![r] = t] ELSE book

Serve(q) ==
    /\ ~flight[q].served
    /\ ServeTables(q) \/ ServeList(q) \/ ServeBook(q) \/ ServeCancel(q)
    /\ UNCHANGED <<booking, account>>

-----------------------------------------------------------------------------
(* Requests on the network.                                                *)

Unused == {q \in Req : flight[q].op = "none"}
FirstUnused == {q \in Unused : \A p \in Unused : q <= p}
Open == {q \in Req : flight[q].op # "none" /\ ~flight[q].over}

\* Bound: a user sends n requests only while there are enough for those and for
\* the lists that refused requests fetch again.
Budget(n) ==
    Cardinality(Unused) >= n + Cardinality({q \in Open : flight[q].op \in {"book", "cancel"}})

\* api(): a request with the next number; "then" is what waits for its answer.
Request(op, arg, then) ==
    [op |-> op, arg |-> arg, then |-> then, served |-> FALSE, answer |-> None, over |-> FALSE]
Unsent == Request("none", None, None)
Send(fl, op, arg, then) ==
    \E q \in FirstUnused : flight' = [fl EXCEPT ![q] = Request(op, arg, then)]

\* ApiError(..., 0)
Lost == [code |-> 0, body |-> None]

\* fetch throws: the connection is lost before or after the server has read it.
Fail(q) ==
    /\ q \in Open /\ flight[q].answer # Lost
    /\ Cardinality({p \in Req : flight[p].answer = Lost}) < MaxErrors
    /\ flight' = [flight EXCEPT ![q].answer = Lost]
    /\ UNCHANGED <<book, booking, account>>

Arrives(q, op) == q \in Open /\ flight[q].op = op /\ flight[q].answer # None

\* The request is answered, and the answer used.
Closed(q) == [flight EXCEPT ![q].over = TRUE, ![q].answer = IF @ = Lost THEN @ ELSE None]

Succeeded(q) == flight[q].answer.code \in {200, 201}

-----------------------------------------------------------------------------
(* BookTable.                                                              *)

\* loadTables() with the form f.
LoadTables(fl, f, then) ==
    IF f.party = 0
    THEN /\ tables' = None /\ form' = [f EXCEPT !.table = None]
         /\ flight' = fl
         /\ submitting' = (submitting /\ then = None)
    ELSE /\ form' = f
         /\ Send(fl, "tables", [window |-> f.window, party |-> f.party], then)
         /\ UNCHANGED <<tables, submitting>>

OpenForm ==
    /\ place = "closed" /\ Budget(1)
    /\ LoadTables(flight, form, None)
    /\ place' = "form"
    /\ UNCHANGED <<book, account>>

\* watch(): another time or party size loads the tables again.
Change ==
    /\ place = "form" /\ Budget(1)
    /\ \E w \in Window, n \in Party \cup {0} :
         /\ (w = form.window) # (n = form.party)
         /\ LoadTables(flight, [form EXCEPT !.window = w, !.party = n], None)
    /\ UNCHANGED <<book, place, account>>

\* A table that is taken is a disabled option.
Choose ==
    /\ place = "form" /\ tables # None
    /\ \E t \in tables.free : form' = [form EXCEPT !.table = t]
    /\ UNCHANGED <<book, flight, tables, submitting, place, account>>

\* Mutant of TablesArrive: the selection stays.
TablesArriveKeeping(q) ==
    /\ Arrives(q, "tables")
    /\ tables' = IF Succeeded(q) THEN [of |-> q, free |-> flight[q].answer.body] ELSE None
    /\ submitting' = (submitting /\ flight[q].then = None)
    /\ flight' = Closed(q)
    /\ UNCHANGED <<book, form, place, account>>

\* loadTables() after its await: a selected table that is not free is cleared,
\* but not when the request has failed.
TablesArrive(q) ==
    /\ Arrives(q, "tables")
    /\ tables' = IF Succeeded(q) THEN [of |-> q, free |-> flight[q].answer.body] ELSE None
    /\ form' = IF Succeeded(q) /\ form.table \notin flight[q].answer.body
               THEN [form EXCEPT !.table = None] ELSE form
    /\ submitting' = (submitting /\ flight[q].then = None)
    /\ flight' = Closed(q)
    /\ UNCHANGED <<book, place, account>>

\* submit(): validate() wants a table and a party size.
Submit ==
    /\ place = "form" /\ ~submitting /\ Budget(2)
    /\ form.table # None /\ form.party # 0
    /\ submitting' = TRUE
    /\ Send(flight, "book", form, None)
    /\ UNCHANGED <<book, form, tables, place, account>>

\* submit() after its await: the confirmation, or the tables once more, and
\* only then the button comes back.
Booked(q) ==
    /\ Arrives(q, "book")
    /\ IF Succeeded(q)
       THEN /\ place' = "confirmed" /\ submitting' = FALSE
            /\ flight' = Closed(q)
            /\ UNCHANGED <<form, tables>>
       ELSE LoadTables(Closed(q), form, "submit") /\ UNCHANGED place
    /\ UNCHANGED <<book, account>>

-----------------------------------------------------------------------------
(* AccountPage.                                                            *)

\* onMounted: load().  Bound: the page is opened anew only after an error, with
\* nothing of it on the network.
OpenAccount ==
    /\ state \in {"closed", "error"} /\ Budget(1)
    /\ \A q \in Open : flight[q].op \notin {"list", "cancel"}
    /\ state' = "loading" /\ bookings' = [r \in {} |-> None] /\ cancelling' = None
    /\ Send(flight, "list", None, None)
    /\ UNCHANGED <<book, booking>>

\* load() after its await
ListArrives(q) ==
    /\ Arrives(q, "list")
    /\ IF Succeeded(q) THEN bookings' = flight[q].answer.body /\ state' = "ready"
       ELSE state' = "error" /\ UNCHANGED bookings
    /\ cancelling' = IF flight[q].then = None THEN cancelling ELSE None
    /\ flight' = Closed(q)
    /\ UNCHANGED <<book, booking>>

\* cancel(b): the button of a reservation that is not cancelled, and not the
\* one whose button is disabled.
Cancel ==
    /\ state = "ready" /\ Budget(2)
    /\ \E r \in DOMAIN bookings :
         /\ Active(bookings[r]) /\ cancelling # r
         /\ cancelling' = r
         /\ Send(flight, "cancel", [row |-> r, saw |-> bookings[r]], None)
    /\ UNCHANGED <<book, booking, bookings, state>>

\* Mutant of CancelArrives: without the finally block an error leaves the button
\* disabled.
CancelArrivesStuck(q) ==
    /\ Arrives(q, "cancel")
    /\ flight' = Closed(q)
    /\ IF Succeeded(q)
       THEN bookings' = [r \in DOMAIN bookings |-> IF r = flight[q].arg.row
                                                   THEN flight[q].answer.body ELSE bookings[r]]
            /\ cancelling' = None
       ELSE UNCHANGED <<bookings, cancelling>>
    /\ UNCHANGED <<book, booking, state>>

\* cancel(b) after its await: the answer replaces the row of the list, a refusal
\* loads the list again; then every button comes back.
CancelArrives(q) ==
    /\ Arrives(q, "cancel")
    /\ IF Succeeded(q)
       THEN /\ bookings' = [r \in DOMAIN bookings |->
                              IF r = flight[q].arg.row THEN flight[q].answer.body ELSE bookings[r]]
            /\ cancelling' = None
            /\ flight' = Closed(q) /\ UNCHANGED state
       ELSE IF flight[q].answer # Lost
       THEN /\ state' = "loading"
            /\ Send(Closed(q), "list", None, "cancel")
            /\ UNCHANGED <<bookings, cancelling>>
       ELSE cancelling' = None /\ flight' = Closed(q) /\ UNCHANGED <<bookings, state>>
    /\ UNCHANGED <<book, booking>>

-----------------------------------------------------------------------------
(* Everybody else, through the same endpoints.                             *)

\* A request of another client is served at once: a booking, or a PATCH of any
\* reservation, since staff and the customer's other devices change Mine too.
\* The constraint refuses to revive one whose time is taken.
Others ==
    /\ Budget(1)
    /\ \E q \in FirstUnused :
           /\ flight' = [flight EXCEPT ![q] = [Request("other", None, None) EXCEPT
                                                 !.served = TRUE, !.over = TRUE]]
           /\ \/ \E s \in Foreign :
                   BookCode(s) = 201 /\ book' = [book EXCEPT ![q] = [s EXCEPT !.version = q]]
              \/ \E r \in Row, n \in Party, s \in Given :
                   LET t == [book[r] EXCEPT !.party = n, !.status = s, !.version = q]
                   IN  /\ book[r] # None /\ <<n, s>> # <<book[r].party, book[r].status>>
                       /\ \A o \in Row \ {r} : ~Clash(book[o], t)
                       /\ book' = [book EXCEPT ![r] = t]
    /\ UNCHANGED <<booking, account>>

-----------------------------------------------------------------------------

Init ==
    /\ book = [r \in Row |-> IF r \in Seed THEN Stored[r] ELSE None]
    /\ flight = [q \in Req |-> Unsent]
    /\ form = [window |-> Default, party |-> 2, table |-> None]
    /\ tables = None
    /\ submitting = FALSE
    /\ place = "closed"
    /\ bookings = [r \in {} |-> None]
    /\ state = "closed"
    /\ cancelling = None

\* What the browser does with an answer.
Arrive(q) == TablesArrive(q) \/ Booked(q) \/ ListArrives(q) \/ CancelArrives(q)

Next ==
    \/ OpenForm \/ Change \/ Choose \/ Submit \/ OpenAccount \/ Cancel
    \/ Others
    \/ \E q \in Req : Serve(q) \/ Fail(q) \/ Arrive(q)

Spec == Init /\ [][Next]_vars

\* The server answers, and the browser resumes what awaits the answer; users do
\* as they please.
FairSpec == Spec /\ \A q \in Req : WF_vars(Serve(q)) /\ WF_vars(Arrive(q))

-----------------------------------------------------------------------------
(* Properties.                                                             *)

\* The request f was answered with 200 or 201, and the answer is not used yet.
Answered(f) == f.answer # None /\ f.answer.code \in {200, 201}

Rows(b) == \E S \in SUBSET Row : b \in [S -> Tuple]

WellFormed(f) ==
    /\ DOMAIN f = DOMAIN Unsent
    /\ f.op \in {"none", "tables", "list", "book", "cancel", "other"}
    /\ f.served \in BOOLEAN /\ f.over \in BOOLEAN
    /\ f.then \in {None, "submit", "cancel"}
    /\ f.answer # None => f.answer.code \in {0, 200, 201, 400, 409, 412}
    /\ f.op = "none" => ~f.served
    /\ f.op = "tables" => /\ f.arg \in [window : Window, party : Party]
                          /\ Answered(f) => f.answer.body \subseteq Table
    /\ f.op = "book" => f.arg \in [window : Window, party : Party, table : Table]
    /\ f.op = "list" /\ Answered(f) => Rows(f.answer.body)
    /\ f.op = "cancel" => /\ f.arg \in [row : Row, saw : Tuple]
                          /\ Answered(f) => f.answer.body \in Tuple

TypeOK ==
    /\ book \in [Row -> Tuple \cup {None}]
    /\ DOMAIN flight = Req /\ \A q \in Req : WellFormed(flight[q])
    /\ form \in [window : Window, party : Party \cup {0}, table : Table \cup {None}]
    /\ tables \in {None} \cup [of : Req, free : SUBSET Table]
    /\ submitting \in BOOLEAN
    /\ place \in {"closed", "form", "confirmed"}
    /\ Rows(bookings)
    /\ state \in {"closed", "loading", "ready", "error"}
    /\ cancelling \in Row \cup {None}

\* GET availability and POST /reservations agree: a table is called available
\* exactly when booking it in this state would succeed.
OffersAreBookable ==
    \A w \in Window, n \in Party, t \in Table :
        t \in Available(w, n) <=>
            \A q \in Req : BookCode(New(q, [table |-> t, window |-> w, party |-> n])) = 201

\* While tables are listed, the selected one is a free one of the list.
SelectedIsOffered ==
    (tables # None /\ form.table # None) => form.table \in tables.free

Loads == {q \in Req : flight[q].op = "tables"}

\* A reservation that the account page cancels is, until then, exactly what the
\* page showed when the button was pressed.
CancelsWhatWasSeen ==
    [][\A q \in Req : (Serve(q) /\ flight[q].op = "cancel" /\ book' # book)
          => book[flight[q].arg.row] = flight[q].arg.saw]_vars

\* No button stays disabled and no list stays loading: again and again, and for
\* good when the user leaves the pages alone, nothing is.
PagesComeBack == []<>(~submitting /\ cancelling = None /\ state # "loading")

-----------------------------------------------------------------------------
(* The inductive invariant.                                                *)

\* Requests that the server may still serve.
Pending == {q \in Req : ~flight[q].served}

\* s is a state that the reservation r had: it is the present one if the version
\* is, and no request to come has its version.
WasSeen(r, s) ==
    /\ r \in Row /\ book[r] # None /\ s.version \notin Pending
    /\ s.version = book[r].version => s = book[r]

\* What the account page and the answers it waits for know.
VersionsTell ==
    /\ \A q \in Pending : book[q] = None
    /\ \A r \in Row : book[r] # None => book[r].version \notin Pending
    /\ \A r \in DOMAIN bookings : WasSeen(r, bookings[r])
    /\ \A q \in Req : flight[q].op = "list" /\ Answered(flight[q]) =>
          \A r \in DOMAIN flight[q].answer.body : WasSeen(r, flight[q].answer.body[r])
    /\ \A q \in Req : flight[q].op = "cancel" =>
          /\ WasSeen(flight[q].arg.row, flight[q].arg.saw)
          /\ Answered(flight[q]) => WasSeen(flight[q].arg.row, flight[q].answer.body)

\* Requests are numbered as they are sent, and the last one for tables asked for
\* what is in the form.
LastLoad ==
    /\ \A p, q \in Req : flight[p].op # "none" /\ flight[q].op = "none" => p < q
    /\ tables # None => tables.of \in Loads
    /\ form.party # 0 /\ Loads # {} =>
          \E q \in Loads : /\ flight[q].arg = [window |-> form.window, party |-> form.party]
                           /\ \A p \in Loads : p <= q

Inv == TypeOK /\ SelectedIsOffered /\ VersionsTell /\ LastLoad
=============================================================================
