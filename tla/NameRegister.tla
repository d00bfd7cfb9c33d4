---------------------------- MODULE NameRegister ----------------------------
(***************************************************************************)
(* What clients see of the guest names, migration or not                   *)
(* (docs/API_CONTRACT.md: "clients cannot tell the migration happened"):   *)
(* every reservation has one name, a booking or an edit sets it in a       *)
(* single step, and an answer carries a name the reservation had while the *)
(* request ran.                                                            *)
(***************************************************************************)
CONSTANTS Row, Req, Call, None

VARIABLES
    name,           \* the name of every reservation, None where there is none
    call,           \* what each request asks for
    applied,        \* the requests whose name has been set
    seen            \* the name each request has looked at for its answer

vars == <<name, call, applied, seen>>

\* The reservation a request is about; a booking makes its own.
About(q) == IF call[q].op = "create" THEN q ELSE call[q].row

Begin(q) ==
    /\ call[q] = None
    /\ \E c \in Call : call' = [call EXCEPT ![q] = c]
    /\ UNCHANGED <<name, applied, seen>>

Set(q) ==
    /\ call[q] # None /\ call[q].op \in {"create", "rename"}
    /\ q \notin applied /\ seen[q] = None
    /\ name' = [name EXCEPT ![About(q)] = call[q].name]
    /\ applied' = applied \cup {q}
    /\ UNCHANGED <<call, seen>>

See(q) ==
    /\ call[q] # None /\ seen[q] = None
    /\ call[q].op = "create" => q \in applied
    /\ name[About(q)] # None
    /\ seen' = [seen EXCEPT ![q] = name[About(q)]]
    /\ UNCHANGED <<name, call, applied>>

\* The request fails after all.
Forget(q) ==
    /\ seen' = [seen EXCEPT ![q] = None]
    /\ UNCHANGED <<name, call, applied>>

\* The server restarts: requests that were under way are gone.
Restart ==
    /\ \E S \in SUBSET Req : seen' = [q \in Req |-> IF q \in S THEN None ELSE seen[q]]
    /\ UNCHANGED <<name, call, applied>>

Next == (\E q \in Req : Begin(q) \/ Set(q) \/ See(q) \/ Forget(q)) \/ Restart

Init ==
    /\ name \in [Row -> {None} \cup UNION {{c.name} : c \in {d \in Call : d.op = "create"}}]
    /\ call = [q \in Req |-> None]
    /\ applied = {}
    /\ seen = [q \in Req |-> None]

Spec == Init /\ [][Next]_vars
=============================================================================
