--------------------------- MODULE BookingLedger ---------------------------
(***************************************************************************)
(* What the reservation endpoints promise, with nothing about how:  the    *)
(* book is a table of reservations that never holds two overlapping ones,  *)
(* and every request is a single step on it.  A request that is applied    *)
(* either enters a new reservation, replaces one it has been shown in that *)
(* very state, or finds nothing to change; any other request is turned     *)
(* away and has changed nothing.                                           *)
(***************************************************************************)
EXTENDS ReservationData

CONSTANT Stored     \* the reservations of the book before the first request

VARIABLES
    book,           \* the reservations, as every reader sees them
    shown,          \* what each request was shown of the row it edits
    verdict         \* "open", "applied" or "refused", per request

vars == <<book, shown, verdict>>

Init ==
    /\ book = [r \in Row |-> IF r \in Seed THEN Stored[r] ELSE None]
    /\ shown = [q \in Req |-> None]
    /\ verdict = [q \in Req |-> "open"]

Settle(q, v) ==
    /\ verdict[q] = "open"
    /\ verdict' = [verdict EXCEPT ![q] = v]

\* A request that edits looks at the reservation as it stands.
Show(q) ==
    /\ verdict[q] = "open" /\ shown[q] = None
    /\ \E r \in Row : book[r] # None /\ shown' = [shown EXCEPT ![q] = book[r]]
    /\ UNCHANGED <<book, verdict>>

\* A new confirmed reservation, where nothing overlaps.
Enter(q, t) ==
    /\ Settle(q, "applied")
    /\ book[q] = None
    /\ \A r \in Row : ~DoubleBooked(book[r], t)
    /\ book' = [book EXCEPT ![q] = t]
    /\ UNCHANGED shown

\* The reservations that request q may enter.
Fresh(q) == [table : Table, window : Window, user : User, party : Party,
             status : {"confirmed"}, version : {q}]

\* Exactly the reservation the request was shown is replaced, under a version
\* no reservation has carried, and it stays at its table and time.
Replace(q, r, status, party) ==
    LET t == [book[r] EXCEPT !.status = status, !.party = party, !.version = q]
    IN  /\ Settle(q, "applied")
        /\ book[r] # None /\ book[r] = shown[q]
        /\ \A s \in Row \ {r} : ~DoubleBooked(book[s], t)
        /\ book' = [book EXCEPT ![r] = t]
        /\ UNCHANGED shown

\* An edit that asks for what the reservation it was shown already was.
FindNothing(q) ==
    /\ Settle(q, "applied")
    /\ shown[q] # None
    /\ UNCHANGED <<book, shown>>

TurnAway(q) ==
    /\ Settle(q, "refused")
    /\ UNCHANGED <<book, shown>>

Next ==
    \E q \in Req :
        \/ Show(q)
        \/ \E t \in Fresh(q) : Enter(q, t)
        \/ \E r \in Row, st \in Status, p \in Party : Replace(q, r, st, p)
        \/ FindNothing(q)
        \/ TurnAway(q)

Spec == Init /\ [][Next]_vars

\* The book never holds two overlapping reservations for one table.
NoOverlap == Exclusive(book)
=============================================================================
