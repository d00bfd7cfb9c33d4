----------------------------- MODULE MCAccounts -----------------------------
(***************************************************************************)
(* A small instance of Accounts: two accounts and an administrator's, three *)
(* requests, and two connections.                                          *)
(***************************************************************************)
EXTENDS Accounts, TLC

CONSTANTS ada, ben, root, q1, q2, q3, a, upperA, b, c, r, old, new

\* a and upperA are spellings of one address.
MCAddress == [e \in Email |-> IF e = upperA THEN a ELSE e]

MCStored == [s \in Seed |->
    CASE s = ada -> [email |-> a, phone |-> old, role |-> "customer", is_active |-> TRUE]
      [] s = ben -> [email |-> b, phone |-> None, role |-> "staff", is_active |-> FALSE]
      [] OTHER -> [email |-> r, phone |-> None, role |-> "admin", is_active |-> TRUE]]

Nothing == [op |-> "get", who |-> None, of |-> None, email |-> Keep, phone |-> Keep, right |-> TRUE]

SignUp(e) == [Nothing EXCEPT !.op = "signup", !.email = e, !.phone = None]
LogIn(e, ok) == [Nothing EXCEPT !.op = "login", !.email = e, !.right = ok]
Edit(u, e, p) == [Nothing EXCEPT !.op = "edit", !.who = u, !.email = e, !.phone = p]
Get(u, v) == [Nothing EXCEPT !.who = u, !.of = v]
Put(u) == [Nothing EXCEPT !.op = "put", !.who = u]
See(u) == [Nothing EXCEPT !.op = "state", !.who = u]

MCPlan ==
    (q1 :> {SignUp(c), SignUp(upperA), Edit(ada, upperA, Keep), Edit(ada, r, new), Edit(ada, c, old),
            Put(root), Get(root, q2), LogIn(upperA, TRUE)}) @@
    (q2 :> {SignUp(c), Edit(root, a, Keep), Edit(ada, None, new), Edit(ada, Keep, None),
            Put(root), LogIn(b, TRUE), LogIn(c, FALSE)}) @@
    (q3 :> {SignUp(a), Edit(ada, b, Keep), Edit(root, c, Keep), See(root), See(ada), Get(ada, ada),
            Get(ada, ben), Get(ben, ada), Get(None, ada)})
=============================================================================
