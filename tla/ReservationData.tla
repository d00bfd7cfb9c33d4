-------------------------- MODULE ReservationData --------------------------
(***************************************************************************)
(* What a row of the table "reservations" is, and when two rows exclude    *)
(* each other (app/models/reservation.py, alembic 0001).  The abstract     *)
(* ledger and the detailed specification of the endpoints both use it.     *)
(***************************************************************************)
EXTENDS Integers, FiniteSets

CONSTANTS
    Req,        \* requests to POST / PATCH / DELETE /reservations
    Seed,       \* reservations that exist before the first request
    Table,      \* the rows of restaurant_tables
    User,       \* accounts
    Window,     \* <<starts_at, ends_at>> pairs that pass the schema check
    Party,      \* party sizes that pass the schema check
    None        \* no row, no header, no value

ASSUME WindowAssumption == \A w \in Window : w \in Int \X Int /\ w[1] < w[2]
ASSUME PartyAssumption == Party \subseteq Nat
ASSUME SeedAssumption == Seed \cap Req = {}

\* The bigserial id of a row is abstracted to what created it: the POST
\* request that inserted it, or itself for a row that was there before.
Row == Seed \cup Req

\* xmin is the id of the transaction that wrote the row last, and a request
\* writes in one transaction: the version is the request that wrote it.
Version == Row

Status == {"pending", "confirmed", "cancelled"}

Tuple == [table : Table, window : Window, user : User, party : Party,
          status : Status, version : Version]

ASSUME NoneAssumption == None \notin Tuple /\ None \notin Version

Active(t) == t # None /\ t.status # "cancelled"

\* Mutant of Overlap: closed ranges, '[]' for '[)'.
ClosedRanges(v, w) == v[1] <= w[2] /\ w[1] <= v[2]

\* tstzrange(starts_at, ends_at, '[)') && tstzrange(...)
Overlap(v, w) == v[1] < w[2] /\ w[1] < v[2]

\* What the constraint no_double_booking excludes between two row versions.
Clash(s, t) ==
    /\ Active(s) /\ Active(t)
    /\ s.table = t.table
    /\ Overlap(s.window, t.window)

-----------------------------------------------------------------------------
(* The reference: a guest sits at the table from the first instant of the  *)
(* window up to, but not including, the last.                              *)

Instants(w) == w[1] .. (w[2] - 1)

\* Two reservations that both hold one table at one instant.
DoubleBooked(s, t) ==
    /\ Active(s) /\ Active(t)
    /\ s.table = t.table
    /\ Instants(s.window) \cap Instants(t.window) # {}

\* No two different rows of the table are double booked.
Exclusive(table) ==
    \A r1, r2 \in Row : r1 # r2 => ~DoubleBooked(table[r1], table[r2])
=============================================================================
