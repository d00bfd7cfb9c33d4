------------------------------ MODULE MCPages ------------------------------
(***************************************************************************)
(* A small instance of Pages: the customer holds a reservation of the      *)
(* small table; windows overlap and touch.                                 *)
(***************************************************************************)
EXTENDS Pages, TLC

CONSTANTS t1, t2, u1, u2

MCWindow == {<<0, 2>>, <<2, 4>>}

MCInfo == (t1 :> [active |-> TRUE, capacity |-> 2]) @@ (t2 :> [active |-> TRUE, capacity |-> 4])

MCStored == [s \in Seed |-> [table |-> t1, window |-> <<0, 2>>, user |-> u1, party |-> 2,
                             status |-> "confirmed", version |-> s]]

\* Another customer wants the small table at the time of that reservation.
MCForeign == {[table |-> t1, window |-> <<0, 2>>, user |-> u2, party |-> 2,
               status |-> "confirmed", version |-> 0]}

MCDefault == <<0, 2>>
=============================================================================
