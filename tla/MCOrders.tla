------------------------------ MODULE MCOrders ------------------------------
(***************************************************************************)
(* A small instance of Orders: one order that is placed while staff change *)
(* its status, and an older one that three members of staff fight over.    *)
(***************************************************************************)
EXTENDS Orders, TLC

CONSTANTS o1, p1, m1, m2, m3, ada, ben, cook, curry, tea

MCStored == [o \in Seed |-> "preparing"]
MCOwner == [r \in {7, 8} |-> IF r = 7 THEN ada ELSE ben]

Doc(r, n, a) == [restaurant |-> r, price |-> n, available |-> a]

Menu(c, t) == (curry :> c) @@ (tea :> t)

\* The menu as it mostly is, and as it may be: dearer, sold out, the tea of
\* another restaurant, or without tea.
MCMenus ==
    {Menu(Doc(1, n, TRUE), Doc(1, 1, TRUE)) : n \in {2, 3}} \cup
    {Menu(Doc(1, 2, FALSE), t) : t \in {Doc(1, 1, TRUE), Doc(2, 1, TRUE), None}}

A(p, n) == [product |-> p, upper |-> FALSE, quantity |-> n]

Wants(u, r, v, is) == [user |-> u, restaurant |-> r, reservation |-> v, items |-> is]

Changes(os, ss) == {[user |-> cook, order |-> o, to |-> s] : o \in os, s \in ss}

MCPlan ==
    (p1 :> {Wants(ada, 1, 7, <<A(curry, 2), A(tea, 1)>>), Wants(ada, 1, None, <<A(curry, 2)>>),
            Wants(ada, 1, 8, <<A(tea, 1)>>), Wants(ada, 1, 9, <<A(tea, 1)>>),
            Wants(ada, 3, None, <<A(tea, 1)>>),
            Wants(ada, 1, None, <<[A(tea, 1) EXCEPT !.upper = TRUE]>>)}) @@
    (m1 :> (Changes({o1}, {"preparing", "ready"}) \cup Changes({p1}, {"preparing"}))) @@
    (m2 :> Changes({o1, p1}, {"ready", "cancelled"})) @@
    (m3 :> (Changes({o1}, {"cancelled", "completed"}) \cup Changes({p1}, {"preparing"})
            \cup {[user |-> ada, order |-> o1, to |-> "cancelled"]}))
=============================================================================
