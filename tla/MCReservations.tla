--------------------------- MODULE MCReservations ---------------------------
(***************************************************************************)
(* Small instances of Reservations.  One restaurant has one table t1 that  *)
(* can be booked; t2 is not in the database.  The windows are chosen so    *)
(* that some overlap, some touch and one lies inside another.              *)
(***************************************************************************)
EXTENDS Reservations, TLC

CONSTANTS q1, q2, q3, q4, s1, s2, t1, t2, u1, u2, u3, r1, r2

MCWindow == {<<0, 2>>, <<1, 3>>, <<2, 4>>, <<0, 4>>}

MCInfo == [t \in Table |-> [restaurant |-> r1, active |-> TRUE, capacity |-> 1]]

Held(s, u, w, st) ==
    [table |-> t1, window |-> w, user |-> u, party |-> 1, status |-> st, version |-> s]

\* s1 holds the first window; s2 was cancelled and overlaps it.
MCStored == [s \in Seed |-> IF s = s1 THEN Held(s1, u1, <<0, 2>>, "confirmed")
                            ELSE Held(s2, u1, <<1, 3>>, "cancelled")]

Post(u, t, r, w, p) ==
    [op |-> "POST", user |-> u, table |-> t, restaurant |-> r, window |-> w, party |-> p]
PatchStatus(u, r, st) ==
    [op |-> "PATCH", user |-> u, row |-> r, status |-> st, party |-> None]
PatchParty(u, r, p) ==
    [op |-> "PATCH", user |-> u, row |-> r, status |-> None, party |-> p]
Delete(u, r) == [op |-> "DELETE", user |-> u, row |-> r]

Books(W) == {Post(u1, t1, r1, w, 1) : w \in W}

\* A booking (also the ones create_reservation refuses) and two editors; s2
\* can be confirmed again while its slot is being taken.
EditPlan ==
    (q1 :> (Books({<<1, 3>>, <<2, 4>>}) \cup
            {Post(u1, t2, r1, <<1, 3>>, 1), Post(u1, t1, r2, <<1, 3>>, 1),
             Post(u1, t1, r1, <<1, 3>>, 2)})) @@
    (q2 :> {PatchStatus(u1, s2, "confirmed"), PatchParty(u1, s1, 2),
            PatchStatus(u1, s1, "cancelled"), PatchParty(u2, q1, 2)}) @@
    (q3 :> {PatchParty(u1, s1, 2), PatchStatus(u2, s2, "pending"),
            PatchStatus(u1, q1, "cancelled"), PatchParty(u3, s1, 2),
            Delete(u1, s1), Delete(u1, s2), Delete(u1, q1)})

\* Two cancelled reservations with overlapping windows, confirmed again while
\* bookings for the table run: every kind of wait, and circles of them.
TangledStored == [s \in Seed |-> Held(s, u1, IF s = s1 THEN <<0, 2>> ELSE <<1, 3>>,
                                      "cancelled")]
TangledPlan ==
    (q1 :> Books({<<1, 3>>, <<0, 4>>})) @@
    (q2 :> (Books({<<2, 4>>}) \cup {PatchStatus(u1, s2, "confirmed"), PatchParty(u1, q1, 2)})) @@
    (q3 :> (Books({<<0, 2>>}) \cup {PatchStatus(u1, s1, "confirmed"),
                                    PatchStatus(u1, s2, "pending"), Delete(u1, q1)}))

\* A booking and the confirmation of a cancelled reservation for its slot.
RetakePlan ==
    (q1 :> Books({<<1, 3>>})) @@ (q2 :> {PatchStatus(u1, s2, "confirmed")})
=============================================================================
