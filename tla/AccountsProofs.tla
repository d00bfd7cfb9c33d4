--------------------------- MODULE AccountsProofs ---------------------------
(***************************************************************************)
(* Theorems about Accounts: the inductive invariant, one account for each  *)
(* address, and connections that nobody keeps over a hash, for all         *)
(* requests, accounts and pools.                                           *)
(***************************************************************************)
EXTENDS Accounts, FiniteSetTheorems, TLAPS

\* What a request on its way asks for.
LEMMA CallType ==
    ASSUME Inv, NEW q \in Req, pc[q] # "idle"
    PROVE  /\ call[q] \in Call /\ call[q] # None
           /\ call[q].op \in {"signup", "login", "edit", "get", "state", "put"}
           /\ call[q].who \in {None} \cup Account
           /\ call[q].email \in {None, Keep} \cup Email
           /\ call[q].phone \in {None, Keep} \cup Phone
           /\ call[q].op \in {"signup", "login"} => call[q].email \in Email
           /\ call[q].op = "signup" => call[q].phone # Keep
           /\ call[q].op = "get" => call[q].of \in Account
<1>1. call[q] \in Plan[q]
  BY DEF Inv, TypeOK
<1>2. call[q] \in Call
  BY <1>1, PlanAssumption
<1>3. call[q] # None
  BY <1>2, NoneAssumption
<1> QED
  BY <1>1, <1>2, <1>3, PlanAssumption DEF Call

\* The initial state satisfies the invariant.
LEMMA InitInv == Init => Inv
<1> SUFFICES ASSUME Init PROVE Inv
  OBVIOUS
<1> USE DEF Init
<1>1. users \in [Account -> {None} \cup User]
  BY StoredAssumption DEF Account
<1>2. TypeOK
  BY <1>1 DEF TypeOK
<1>3. \A q \in Req : users[q] = None
  BY NoneAssumption DEF Account
<1>4. OneAccountPerAddress
  BY StoredAssumption DEF OneAccountPerAddress, Account
<1>5. Stages
  BY DEF Stages, Stage
<1>6. AnswersMatchAccounts
  BY <1>3 DEF AnswersMatchAccounts
<1> QED
  BY <1>2, <1>4, <1>5, <1>6 DEF Inv, NoneKeptWhileHashing, RowLocks, Claims

-----------------------------------------------------------------------------
(* Every action preserves the invariant.                                   *)

\* A step of a request that commits nothing, and has no new version of a row
\* after it, leaves locks and addresses.
LEMMA Quiet ==
    ASSUME Inv, NEW q \in Req, UNCHANGED users,
           pc'[q] \notin {"index", "commit"},
           \A r \in Req \ {q} : pc'[r] = pc[r] /\ call'[r] = call[r] /\ loaded'[r] = loaded[r]
    PROVE  RowLocks' /\ Claims' /\ OneAccountPerAddress'
<1>1. \A r \in Req \ {q} :
        /\ Target(r)' = Target(r)
        /\ WritesEmail(r)' <=> WritesEmail(r)
        /\ Rivals(r)' = Rivals(r)
  BY DEF Target, WritesEmail, Rivals
<1>2. RowLocks'
  BY <1>1 DEF Inv, RowLocks
<1>3. Claims'
  BY <1>1 DEF Inv, Claims
<1> QED
  BY <1>2, <1>3 DEF Inv, OneAccountPerAddress

\* What the others know, and where they are, stays.
LEMMA StagesOfOthers ==
    ASSUME Inv, NEW q \in Req, Stage(q)',
           \A a \in Account : users[a] # None => users'[a] # None,
           \A r \in Req \ {q} : /\ pc'[r] = pc[r] /\ call'[r] = call[r]
                                /\ loaded'[r] = loaded[r] /\ reply'[r] = reply[r]
                                /\ r \in acted' <=> r \in acted
    PROVE  Stages'
<1> SUFFICES ASSUME NEW r \in Req \ {q} PROVE Stage(r)'
  BY DEF Stages
<1>1. Stage(r)
  BY DEF Inv, Stages
<1>2. pc[r] = "idle" \/ call[r].who \in {None} \cup Account
  BY CallType
<1>3. pc[r] \in {"row", "index", "commit", "reconnect", "refresh"} => pc[r] \notin {"idle", "done"}
  OBVIOUS
<1>4. WritesEmail(r)' <=> WritesEmail(r)
  BY DEF WritesEmail
<1> QED
  BY <1>1, <1>2, <1>3, <1>4 DEF Stage

\* The answers of the others agree with their accounts as before.
LEMMA AnswersOfOthers ==
    ASSUME Inv, NEW q \in Req, UNCHANGED users,
           \A r \in Req \ {q} : /\ pc'[r] = pc[r] /\ call'[r] = call[r] /\ reply'[r] = reply[r]
                                /\ r \in acted' <=> r \in acted,
           users[q] # None <=> q \in acted' /\ call'[q].op = "signup",
           pc'[q] = "done" /\ reply'[q].code # 500 /\ call'[q].op \in {"signup", "edit", "put"}
             => (q \in acted' <=> reply'[q].code \in {200, 201})
    PROVE  AnswersMatchAccounts'
BY DEF Inv, AnswersMatchAccounts

\* Connections that are given back are kept by nobody.
LEMMA ReturnedType ==
    ASSUME Inv, NEW q \in Req
    PROVE  /\ Returned(q) \in [Conn -> {None} \cup Req]
           /\ \A c \in Conn : Returned(q)[c] # None => Returned(q)[c] = owner[c] /\ owner[c] # q
BY DEF Inv, TypeOK, Returned

\* An answer, with the session closed: every refusal, and the last step of every
\* request.
LEMMA SendInv ==
    ASSUME Inv, NEW q \in Req, NEW code \in {200, 201, 401, 403, 404, 409, 500}, NEW row \in {None} \cup User,
           pc[q] \notin {"idle", "done"}, Send(q, code, row),
           UNCHANGED <<users, call, loaded, acted>>,
           call[q].op \in {"signup", "edit", "put"} =>
               code = 500 \/ (q \in acted <=> code \in {200, 201})
    PROVE  Inv'
<1> DEFINE r == [code |-> code, row |-> row]
<1>1. /\ pc' = [pc EXCEPT ![q] = "done"]
      /\ reply' = [reply EXCEPT ![q] = r]
      /\ owner' = Returned(q)
  BY DEF Send, Goto
<1>2. r \in Reply /\ r # None /\ r.code = code
  BY NoneAssumption DEF Reply
<1> HIDE DEF r
<1>3. TypeOK'
  BY <1>1, <1>2, ReturnedType DEF Inv, TypeOK
<1>4. Stage(q)'
  BY <1>1, <1>2 DEF Inv, TypeOK, Stages, Stage
<1>5. Stages'
  BY <1>1, <1>4, StagesOfOthers DEF Inv, TypeOK
<1>6. NoneKeptWhileHashing'
  BY <1>1, ReturnedType DEF Inv, TypeOK, NoneKeptWhileHashing
<1>7. AnswersMatchAccounts'
  BY <1>1, <1>2, AnswersOfOthers DEF Inv, TypeOK, AnswersMatchAccounts
<1>8. RowLocks' /\ Claims' /\ OneAccountPerAddress'
  BY <1>1, Quiet DEF Inv, TypeOK
<1> QED
  BY <1>3, <1>5, <1>6, <1>7, <1>8 DEF Inv

\* A refusal is an answer without a row.
LEMMA RefuseInv ==
    ASSUME Inv, NEW q \in Req, NEW code \in {401, 403, 409, 500},
           pc[q] \notin {"idle", "done"}, Refuse(q, code),
           call[q].op \in {"signup", "edit", "put"} => code = 500 \/ q \notin acted
    PROVE  Inv'
BY SendInv DEF Refuse

LEMMA ArriveInv == ASSUME Inv, NEW q \in Req, Arrive(q) PROVE Inv'
<1> PICK c \in Plan[q] :
       /\ call' = [call EXCEPT ![q] = c]
       /\ IF c.op = "signup" THEN Goto(q, "hash") /\ UNCHANGED <<owner, reply>>
          ELSE IF c.op # "login" /\ c.who = None THEN Send(q, 401, None)
          ELSE Goto(q, "connect") /\ UNCHANGED <<owner, reply>>
  BY DEF Arrive
<1>1. /\ pc[q] = "idle" /\ call[q] = None /\ q \notin acted /\ reply[q] = None
      /\ UNCHANGED <<users, loaded, acted>>
  BY DEF Arrive, Inv, Stages, Stage
<1>2. /\ c \in Call /\ c # None
      /\ c.who \in {None} \cup Account
  BY PlanAssumption, NoneAssumption DEF Call
<1> DEFINE answer == [code |-> 401, row |-> None]
<1>3. answer \in Reply /\ answer # None
  BY NoneAssumption DEF Reply
<1>4. \/ /\ c.op # "signup" /\ c.op # "login" /\ c.who = None
         /\ pc' = [pc EXCEPT ![q] = "done"]
         /\ reply' = [reply EXCEPT ![q] = answer]
         /\ owner' = Returned(q)
      \/ /\ c.op # "signup" /\ (c.op # "login" => c.who # None)
         /\ pc' = [pc EXCEPT ![q] = "connect"]
         /\ UNCHANGED <<owner, reply>>
      \/ /\ c.op = "signup"
         /\ pc' = [pc EXCEPT ![q] = "hash"]
         /\ UNCHANGED <<owner, reply>>
  BY DEF Send, Goto
<1> HIDE DEF answer
<1>5. TypeOK'
  <2>1. call' \in [Req -> {None} \cup Call] /\ \A p \in Req : pc'[p] # "idle" => call'[p] \in Plan[p]
    BY <1>1, <1>2, <1>4 DEF Inv, TypeOK
  <2>2. pc' \in [Req -> {"idle", "hash", "connect", "done"} \cup
                 {"load", "read", "find", "verify", "row", "index", "commit", "refresh",
                  "check", "state", "reconnect", "second", "third"}]
    <3>1. pc \in [Req -> {"idle", "hash", "connect", "done"} \cup
                 {"load", "read", "find", "verify", "row", "index", "commit", "refresh",
                  "check", "state", "reconnect", "second", "third"}]
      BY DEF Inv, TypeOK, Waiting
    <3>2. \E s \in {"done", "connect", "hash"} : pc' = [pc EXCEPT ![q] = s]
      BY <1>4
    <3> QED
      BY <3>1, <3>2
  <2>3. owner' \in [Conn -> {None} \cup Req]
    BY <1>4, ReturnedType DEF Inv, TypeOK
  <2>4. reply' \in [Req -> {None} \cup Reply]
    BY <1>3, <1>4 DEF Inv, TypeOK
  <2> QED
    BY <1>1, <2>1, <2>2, <2>3, <2>4 DEF Inv, TypeOK, Waiting
<1>6. Stage(q)'
  BY <1>1, <1>2, <1>3, <1>4 DEF Inv, TypeOK, Stage
<1>7. Stages'
  BY <1>1, <1>4, <1>6, StagesOfOthers DEF Inv, TypeOK
<1>8. NoneKeptWhileHashing'
  BY <1>1, <1>4, ReturnedType DEF Inv, TypeOK, NoneKeptWhileHashing
<1>9. users[q] = None
  BY <1>1 DEF Inv, AnswersMatchAccounts
<1>10. AnswersMatchAccounts'
  <2>1. \A r \in Req \ {q} : pc'[r] = pc[r] /\ call'[r] = call[r] /\ reply'[r] = reply[r]
    BY <1>4 DEF Inv, TypeOK
  <2>2. call'[q].op = c.op /\ (pc'[q] = "done" => c.op \notin {"signup"} /\ reply'[q] = answer)
    BY <1>1, <1>4 DEF Inv, TypeOK
  <2>3. answer.code = 401
    BY DEF answer
  <2> QED
    BY <1>1, <1>9, <2>1, <2>2, <2>3, AnswersOfOthers
<1>11. RowLocks' /\ Claims' /\ OneAccountPerAddress'
  BY <1>1, <1>4, Quiet DEF Inv, TypeOK
<1> QED
  BY <1>5, <1>7, <1>8, <1>10, <1>11 DEF Inv

\* The stages of a request on its way without a new version of a row.
Onward == {"load", "read", "find", "verify", "row", "refresh", "check", "state"} \cup Waiting

\* A request goes on, without a version of a row of its own.
GoesOn(q, s) ==
    /\ pc[q] \notin {"idle", "done"}
    /\ Goto(q, s)
    /\ loaded' \in [Req -> {None} \cup User]
    /\ \A r \in Req \ {q} : loaded'[r] = loaded[r]
    /\ owner' \in [Conn -> {None} \cup Req]
    /\ \A c \in Conn : owner'[c] # None =>
          \/ owner'[c] = owner[c] /\ owner[c] # q
          \/ owner'[c] = q /\ s \notin {"verify", "connect", "reconnect"}
    /\ acted' = acted \/ (acted' = acted \cup {q} /\ call[q].op # "signup")
    /\ UNCHANGED <<users, call, reply>>

\* What such a step has to show is its next stage.
LEMMA GoInv ==
    ASSUME Inv, NEW q \in Req, NEW s \in Onward, GoesOn(q, s), Stage(q)'
    PROVE  Inv'
<1> USE DEF GoesOn, Goto, Onward
<1>1. TypeOK'
  BY DEF Inv, TypeOK, Waiting
<1>2. Stages'
  BY StagesOfOthers DEF Inv, TypeOK
<1>3. NoneKeptWhileHashing'
  BY DEF Inv, TypeOK, NoneKeptWhileHashing, Waiting
<1>4. AnswersMatchAccounts'
  BY AnswersOfOthers DEF Inv, TypeOK, AnswersMatchAccounts, Waiting
<1>5. RowLocks' /\ Claims' /\ OneAccountPerAddress'
  BY Quiet DEF Inv, TypeOK, Waiting
<1> QED
  BY <1>1, <1>2, <1>3, <1>4, <1>5 DEF Inv

\* The types of the variables that a step may leave alone.
LEMMA TypesStay ==
    ASSUME Inv
    PROVE  /\ loaded \in [Req -> {None} \cup User]
           /\ owner \in [Conn -> {None} \cup Req]
           /\ acted \subseteq Req
BY DEF Inv, TypeOK

LEMMA HashInv == ASSUME Inv, NEW q \in Req, Hash(q) PROVE Inv'
<1>1. pc[q] = "hash" /\ pc' = [pc EXCEPT ![q] = "connect"]
      /\ UNCHANGED <<users, owner, call, loaded, acted, reply>>
  BY DEF Hash, Goto
<1>2. Stage(q)'
  BY <1>1 DEF Inv, TypeOK, Stages, Stage
<1>3. \A c \in Conn : owner[c] # q
  BY <1>1, NoneAssumption DEF Inv, TypeOK, NoneKeptWhileHashing, Account
<1>4. "connect" \in Onward
  BY DEF Onward, Waiting
<1>5. GoesOn(q, "connect")
  BY <1>1, <1>3, TypesStay DEF GoesOn, Hash
<1> QED
  BY <1>2, <1>4, <1>5, GoInv

LEMMA LoadInv == ASSUME Inv, NEW q \in Req, Load(q) PROVE Inv'
<1> DEFINE row == users[call[q].who]
           s == CASE call[q].op = "edit" -> "row" [] call[q].op = "get" -> "read"
                  [] call[q].op = "put" -> "second" [] call[q].op = "state" -> "third"
<1>1. pc[q] = "load" /\ q \notin acted /\ call[q].who \in Account
  BY DEF Load, Inv, Stages, Stage
<1>2. CASE Refuse(q, 401) \/ Refuse(q, 403)
  BY <1>1, <1>2, RefuseInv
<1>3. CASE /\ row # None
           /\ loaded' = [loaded EXCEPT ![q] = row]
           /\ Goto(q, s)
           /\ UNCHANGED <<users, owner, call, acted, reply>>
  <2>1. row \in User
    BY <1>1, <1>3 DEF Inv, TypeOK
  <2>2. call[q].op \in {"edit", "get", "put", "state"}
    BY <1>1, CallType DEF Inv, Stages, Stage
  <2>3. s \in {"row", "read", "second", "third"}
    BY <2>2
  <2>6. s \in Onward
    BY <2>3 DEF Onward, Waiting
  <2>4. q \notin acted /\ reply[q] = None /\ call[q] # None
    BY <1>1 DEF Inv, Stages, Stage
  <2>5. Stage(q)'
    BY <1>1, <1>3, <2>1, <2>2, <2>3, <2>4 DEF Inv, TypeOK, Stage, Goto
  <2> QED
    <3>1. loaded' \in [Req -> {None} \cup User] /\ \A r \in Req \ {q} : loaded'[r] = loaded[r]
      BY <1>3, <2>1, TypesStay
    <3>2. \A c \in Conn : owner'[c] # None =>
            \/ owner'[c] = owner[c] /\ owner[c] # q
            \/ owner'[c] = q /\ s \notin {"verify", "connect", "reconnect"}
      BY <1>3, <2>3
    <3>3. GoesOn(q, s)
      BY <1>1, <1>3, <3>1, <3>2, TypesStay DEF GoesOn
    <3> QED
      BY <2>5, <2>6, <3>3, GoInv
<1> QED
  BY <1>2, <1>3 DEF Load

LEMMA ReadInv == ASSUME Inv, NEW q \in Req, Read(q) PROVE Inv'
<1> DEFINE row == IF call[q].of = call[q].who THEN loaded[q] ELSE users[call[q].of]
           code == IF row = None THEN 404 ELSE 200
<1>1. pc[q] = "read" /\ call[q].op = "get" /\ loaded[q] \in User /\ call[q].of \in Account
  BY CallType DEF Read, Inv, Stages, Stage
<1>2. row \in {None} \cup User /\ code \in {200, 404}
  BY <1>1 DEF Inv, TypeOK
<1>3. Send(q, code, row) /\ UNCHANGED <<users, call, loaded, acted>>
  BY DEF Read
<1> HIDE DEF row, code
<1> QED
  BY <1>1, <1>2, <1>3, SendInv

LEMMA VerifyInv == ASSUME Inv, NEW q \in Req, Verify(q) PROVE Inv'
<1> DEFINE code == IF call[q].right /\ loaded[q].is_active THEN 200 ELSE 401
<1>1. pc[q] = "verify" /\ call[q].op = "login"
  BY DEF Verify, Inv, Stages, Stage
<1>2. code \in {200, 401}
  OBVIOUS
<1>3. Send(q, code, None) /\ UNCHANGED <<users, call, loaded, acted>>
  BY DEF Verify
<1> HIDE DEF code
<1> QED
  BY <1>1, <1>2, <1>3, SendInv

LEMMA StateInv == ASSUME Inv, NEW q \in Req, State(q) PROVE Inv'
<1>1. pc[q] = "state" /\ (call[q].op = "state" \/ (call[q].op = "put" /\ q \in acted))
  BY DEF State, Inv, Stages, Stage
<1> QED
  BY <1>1, SendInv DEF State

LEMMA RefreshInv == ASSUME Inv, NEW q \in Req, Refresh(q) PROVE Inv'
<1> DEFINE code == IF call[q].op = "signup" THEN 201 ELSE 200
           row == users[Target(q)]
<1>1. pc[q] = "refresh" /\ call[q].op \in {"signup", "edit"} /\ q \in acted
  BY DEF Refresh, Inv, Stages, Stage
<1>2. call[q].op = "edit" => call[q].who \in Account
  BY <1>1 DEF Inv, Stages, Stage
<1>3. row \in {None} \cup User /\ code \in {200, 201}
  BY <1>1, <1>2 DEF Inv, TypeOK, Target, Account
<1>4. Send(q, code, row) /\ UNCHANGED <<users, call, loaded, acted>>
  BY DEF Refresh
<1> HIDE DEF code, row
<1> QED
  BY <1>1, <1>3, <1>4, SendInv

LEMMA TimeoutInv == ASSUME Inv, NEW q \in Req, Timeout(q) PROVE Inv'
BY RefuseInv DEF Timeout, Waiting

LEMMA VictimInv == ASSUME Inv, NEW q \in Req, Victim(q) PROVE Inv'
<1>1. pc[q] = "index"
  BY DEF Victim, Deadlocked
<1> QED
  BY <1>1, RefuseInv DEF Victim

LEMMA FindInv == ASSUME Inv, NEW q \in Req, Find(q) PROVE Inv'
<1> DEFINE found == {a \in Account : users[a] # None
                                     /\ Address[users[a].email] = Address[call[q].email]}
<1>1. pc[q] = "find" /\ call[q].op = "login" /\ q \notin acted /\ reply[q] = None /\ call[q] # None
  BY DEF Find, Inv, Stages, Stage
<1>2. CASE Refuse(q, 401)
  BY <1>1, <1>2, RefuseInv
<1>3. CASE /\ \E a \in found : loaded' = [loaded EXCEPT ![q] = users[a]]
           /\ owner' = Returned(q)
           /\ Goto(q, "verify")
           /\ UNCHANGED <<users, call, acted, reply>>
  <2> PICK a \in found : loaded' = [loaded EXCEPT ![q] = users[a]]
    BY <1>3
  <2>1. users[a] \in User
    BY DEF Inv, TypeOK
  <2>2. GoesOn(q, "verify")
    BY <1>1, <1>3, <2>1, TypesStay, ReturnedType DEF GoesOn
  <2>3. Stage(q)'
    BY <1>1, <1>3, <2>1 DEF Inv, TypeOK, Stage, Goto
  <2>4. "verify" \in Onward
    BY DEF Onward
  <2> QED
    BY <2>2, <2>3, <2>4, GoInv
<1> QED
  BY <1>2, <1>3 DEF Find

LEMMA CheckInv == ASSUME Inv, NEW q \in Req, Check(q) PROVE Inv'
<1>1. pc[q] = "check" /\ call[q].op = "put" /\ q \notin acted /\ reply[q] = None
      /\ call[q] # None /\ call[q].who \in Account
  BY DEF Check, Inv, Stages, Stage
<1>2. CASE Refuse(q, 409)
  BY <1>1, <1>2, RefuseInv
<1>3. ASSUME NEW c \in Conn, owner[c] = q, owner' = [owner EXCEPT ![c] = None],
             acted' = acted \cup {q}, Goto(q, "third"), UNCHANGED <<users, call, loaded, reply>>
      PROVE  Inv'
  <2>1. owner' \in [Conn -> {None} \cup Req]
    BY <1>3, TypesStay
  <2>2. \A d \in Conn : owner'[d] # None => owner'[d] = owner[d]
    BY <1>3, TypesStay
  <2>3. GoesOn(q, "third")
    BY <1>1, <1>3, <2>1, <2>2, TypesStay DEF GoesOn
  <2>4. Stage(q)'
    BY <1>1, <1>3 DEF Inv, TypeOK, Stage, Goto
  <2>5. "third" \in Onward
    BY DEF Onward, Waiting
  <2> QED
    BY <2>3, <2>4, <2>5, GoInv
<1> QED
  BY <1>2, <1>3 DEF Check

-----------------------------------------------------------------------------
(* The steps that write a row.                                             *)

\* A request that gets to a new version of a row, or keeps it.
Writes(q, s) ==
    /\ pc[q] \notin {"idle", "done"}
    /\ Goto(q, s)
    /\ owner' \in [Conn -> {None} \cup Req]
    /\ \A c \in Conn : owner'[c] # None => owner'[c] = owner[c] \/ owner'[c] = q
    /\ UNCHANGED <<users, call, loaded, acted, reply>>

LEMMA WritesInv ==
    ASSUME Inv, NEW q \in Req, NEW s \in {"index", "commit"}, Writes(q, s), Stage(q)',
           RowLocks', Claims'
    PROVE  Inv'
<1> USE DEF Writes, Goto
<1>1. TypeOK'
  BY DEF Inv, TypeOK
<1>2. Stages'
  BY StagesOfOthers DEF Inv, TypeOK
<1>3. NoneKeptWhileHashing'
  BY DEF Inv, TypeOK, NoneKeptWhileHashing
<1>4. AnswersMatchAccounts'
  BY AnswersOfOthers DEF Inv, TypeOK, AnswersMatchAccounts
<1>5. OneAccountPerAddress'
  BY DEF Inv, OneAccountPerAddress
<1> QED
  BY <1>1, <1>2, <1>3, <1>4, <1>5 DEF Inv

\* What a request writes does not change while it is under way.
LEMMA SameWrites ==
    ASSUME NEW q \in Req, UNCHANGED <<users, call, loaded>>
    PROVE  /\ Target(q)' = Target(q)
           /\ WritesEmail(q)' <=> WritesEmail(q)
           /\ WritesPhone(q)' <=> WritesPhone(q)
           /\ Rivals(q)' = Rivals(q)
BY DEF Target, WritesEmail, WritesPhone, Rivals

\* An account that is not there yet is edited by nobody.
LEMMA NewcomersAlone ==
    ASSUME Inv, NEW q \in Req, users[q] = None,
           NEW r \in Req, pc[r] \in {"row", "index", "commit"}, Target(r) = q
    PROVE  r = q
<1>1. call[r].op \in {"signup", "edit"} /\ (call[r].op = "edit" => users[call[r].who] # None)
  BY DEF Inv, Stages, Stage
<1> QED
  BY <1>1 DEF Target

LEMMA TakeInv == ASSUME Inv, NEW q \in Req, Take(q) PROVE Inv'
<1> PICK c \in Conn : owner[c] = None /\ owner' = [owner EXCEPT ![c] = q]
  BY DEF Take
<1>1. /\ pc[q] \in Waiting
      /\ Goto(q, After(q))
      /\ UNCHANGED <<users, call, loaded, acted, reply>>
  BY DEF Take
<1>2. owner' \in [Conn -> {None} \cup Req] /\ \A d \in Conn : owner'[d] = owner[d] \/ owner'[d] = q
  BY TypesStay
<1>3. CASE pc[q] = "connect" /\ call[q].op = "signup"
  <2>1. After(q) = "index"
    BY <1>3 DEF After
  <2>2. Stage(q) /\ q \notin acted /\ users[q] = None
    BY <1>3 DEF Inv, Stages, Stage, AnswersMatchAccounts
  <2>3. Writes(q, "index")
    BY <1>1, <1>2, <1>3, <2>1 DEF Writes
  <2>4. Stage(q)'
    BY <1>1, <1>3, <2>1, <2>2, SameWrites DEF Inv, TypeOK, Stage, Goto, WritesEmail
  <2>5. RowLocks'
    <3>1. \A r \in Req : pc[r] \in {"index", "commit"} => Target(r) # q
      BY <1>3, <2>2, NewcomersAlone
    <3>2. Target(q) = q
      BY <1>3 DEF Target
    <3>3. \A r \in Req : r = q \/ pc'[r] = pc[r]
      BY <1>1, <2>1 DEF Goto, Inv, TypeOK
    <3> QED
      BY <1>1, <3>1, <3>2, <3>3, SameWrites DEF Inv, RowLocks
  <2>6. Claims'
    <3>1. \A r \in Req : pc'[r] = "commit" => pc[r] = "commit"
      BY <1>1, <2>1 DEF Goto, Inv, TypeOK
    <3> QED
      BY <1>1, <3>1, SameWrites DEF Inv, Claims
  <2> QED
    BY <2>3, <2>4, <2>5, <2>6, WritesInv
<1>4. CASE ~(pc[q] = "connect" /\ call[q].op = "signup")
  <2>1. After(q) \in {"find", "load", "refresh", "check", "state"}
    BY <1>1, <1>4 DEF After, Waiting
  <2>2. After(q) \in Onward
    BY <2>1 DEF Onward
  <2>3. GoesOn(q, After(q))
    BY <1>1, <1>2, <2>1, TypesStay, NoneAssumption DEF GoesOn, Waiting, Inv, TypeOK, NoneKeptWhileHashing
  <2>4. Stage(q) /\ call[q].op \in {"signup", "login", "edit", "get", "state", "put"}
    BY <1>1, CallType DEF Inv, Stages, Waiting
  <2>5. CASE pc[q] = "connect"
    <3>1. Stage(q)'
      BY <1>1, <1>4, <2>4, <2>5 DEF Inv, TypeOK, Stage, Goto, After
    <3> QED
      BY <2>2, <2>3, <3>1, GoInv
  <2>6. CASE pc[q] # "connect"
    <3>1. Stage(q)'
      BY <1>1, <2>4, <2>6 DEF Inv, TypeOK, Stage, Goto, After, Waiting
    <3> QED
      BY <2>2, <2>3, <3>1, GoInv
  <2> QED
    BY <2>5, <2>6
<1> QED
  BY <1>3, <1>4

LEMMA RowInv == ASSUME Inv, NEW q \in Req, Row(q) PROVE Inv'
<1>1. /\ pc[q] = "row" /\ call[q].op = "edit" /\ call[q].who \in Account /\ q \notin acted
      /\ loaded[q] \in User /\ users[call[q].who] # None /\ reply[q] = None /\ call[q] # None
      /\ Target(q) = call[q].who
  BY DEF Row, Inv, Stages, Stage, Target
<1>2. CASE WritesEmail(q) \/ WritesPhone(q)
  <2> DEFINE s == IF WritesEmail(q) THEN "index" ELSE "commit"
  <2>1. /\ Writers(call[q].who) = {} /\ Goto(q, s)
        /\ UNCHANGED <<users, owner, call, loaded, acted, reply>>
    BY <1>2 DEF Row
  <2>2. Writes(q, s)
    BY <1>1, <2>1, TypesStay DEF Writes
  <2>3. Stage(q)'
    BY <1>1, <2>1, SameWrites DEF Inv, TypeOK, Stage, Goto
  <2>4. \A r \in Req \ {q} : pc'[r] = pc[r]
    BY <2>1 DEF Goto, Inv, TypeOK
  <2>5. RowLocks'
    <3>1. \A r \in Req : pc[r] \in {"index", "commit"} => Target(r) # Target(q)
      BY <1>1, <2>1 DEF Writers
    <3> QED
      BY <2>1, <2>4, <3>1, SameWrites DEF Inv, RowLocks
  <2>6. Claims'
    <3>1. \A r \in Req : pc'[r] = "commit" /\ WritesEmail(r) => pc[r] = "commit"
      BY <2>1, <2>4 DEF Goto, Inv, TypeOK
    <3> QED
      BY <2>1, <3>1, SameWrites DEF Inv, Claims
  <2>7. s \in {"index", "commit"}
    OBVIOUS
  <2> HIDE DEF s
  <2> QED
    BY <2>2, <2>3, <2>5, <2>6, <2>7, WritesInv
<1>3. CASE ~(WritesEmail(q) \/ WritesPhone(q))
  <2>1. /\ Goto(q, "reconnect") /\ owner' = Returned(q) /\ acted' = acted \cup {q}
        /\ UNCHANGED <<users, call, loaded, reply>>
    BY <1>3 DEF Row
  <2>2. GoesOn(q, "reconnect")
    BY <1>1, <2>1, TypesStay, ReturnedType DEF GoesOn
  <2>3. Stage(q)'
    BY <1>1, <2>1 DEF Inv, TypeOK, Stage, Goto
  <2>4. "reconnect" \in Onward
    BY DEF Onward, Waiting
  <2> QED
    BY <2>2, <2>3, <2>4, GoInv
<1> QED
  BY <1>2, <1>3

LEMMA IndexInv == ASSUME Inv, NEW q \in Req, Index(q) PROVE Inv'
<1>1. pc[q] = "index" /\ WaitsFor(q) = {} /\ WritesEmail(q) /\ q \notin acted
  BY DEF Index, Inv, Stages, Stage
<1>2. CASE Refuse(q, 409)
  BY <1>1, <1>2, RefuseInv
<1>3. CASE /\ Rivals(q) = {} /\ Goto(q, "commit")
           /\ UNCHANGED <<users, owner, call, loaded, acted, reply>>
  <2>1. Writes(q, "commit")
    BY <1>1, <1>3, TypesStay DEF Writes
  <2>2. Stage(q)'
    <3>1. Stage(q)
      BY DEF Inv, Stages
    <3> QED
      BY <1>1, <1>3, <3>1 DEF Inv, TypeOK, Stage, Goto
  <2>3. /\ pc'[q] = "commit"
        /\ \A r \in Req \ {q} : pc'[r] = pc[r]
    BY <1>3 DEF Goto, Inv, TypeOK
  <2>4. RowLocks'
    BY <1>1, <1>3, <2>3, SameWrites DEF Inv, RowLocks
  <2>5. \A r \in Req \ {q} : pc[r] = "commit" /\ WritesEmail(r) =>
           Address[call[r].email] # Address[call[q].email]
    BY <1>1 DEF WaitsFor
  <2>6. Claims'
    BY <1>3, <2>3, <2>5, SameWrites DEF Inv, Claims
  <2> QED
    BY <2>1, <2>2, <2>4, <2>6, WritesInv
<1> QED
  BY <1>2, <1>3 DEF Index

\* The row that a request is to commit is a row.
LEMMA WrittenType ==
    ASSUME Inv, NEW q \in Req, pc[q] = "commit"
    PROVE  /\ Target(q) \in Account
           /\ Written(q) \in User
           /\ WritesEmail(q) => Written(q).email = call[q].email
           /\ ~WritesEmail(q) =>
                users[Target(q)] # None /\ Written(q).email = users[Target(q)].email
<1>1. Stage(q) /\ call[q].op \in {"signup", "edit"}
  BY DEF Inv, Stages, Stage
<1>2. CASE call[q].op = "signup"
  <2>1. call[q].email \in Email /\ call[q].phone \in {None} \cup Phone
    BY <1>2, CallType
  <2> QED
    BY <1>2, <2>1 DEF Target, Written, WritesEmail, User, Role, Account
<1>3. CASE call[q].op = "edit"
  <2> DEFINE row == users[call[q].who]
             e == IF WritesEmail(q) THEN call[q].email ELSE row.email
             p == IF WritesPhone(q) THEN call[q].phone ELSE row.phone
  <2>1. call[q].who \in Account /\ row # None
    BY <1>1, <1>3 DEF Stage
  <2>2. row \in User
    BY <2>1 DEF Inv, TypeOK
  <2>3. e \in Email
    BY <1>3, <2>2 DEF WritesEmail, User
  <2>4. p \in {None} \cup Phone
    BY <2>2, CallType DEF WritesPhone, User
  <2>5. Written(q) = [row EXCEPT !.email = e, !.phone = p]
    BY <1>3, <2>2 DEF Written, User
  <2> HIDE DEF e, p
  <2>6. Written(q) \in User /\ Written(q).email = e
    BY <2>2, <2>3, <2>4, <2>5 DEF User
  <2> QED
    BY <1>3, <2>1, <2>6 DEF Target, e
<1> QED
  BY <1>1, <1>2, <1>3

LEMMA CommitInv == ASSUME Inv, NEW q \in Req, Commit(q) PROVE Inv'
<1> DEFINE t == Target(q)
           w == Written(q)
<1>1. /\ pc[q] = "commit" /\ pc' = [pc EXCEPT ![q] = "reconnect"]
      /\ users' = [users EXCEPT ![t] = w]
      /\ acted' = acted \cup {q} /\ owner' = Returned(q)
      /\ UNCHANGED <<call, loaded, reply>>
  BY DEF Commit, Goto
<1>2. /\ t \in Account /\ w \in User /\ w # None
      /\ WritesEmail(q) => w.email = call[q].email
      /\ ~WritesEmail(q) => users[t] # None /\ w.email = users[t].email
  BY <1>1, WrittenType, NoneAssumption
<1>3. /\ Stage(q) /\ call[q].op \in {"signup", "edit"}
      /\ call[q].op = "signup" => t = q
      /\ call[q].op = "edit" => t = call[q].who /\ users[t] # None
  BY <1>1 DEF Inv, Stages, Stage, Target
<1> HIDE DEF t, w
<1>4. /\ users'[t] = w
      /\ \A a \in Account \ {t} : users'[a] = users[a]
      /\ users' \in [Account -> {None} \cup User]
  BY <1>1, <1>2 DEF Inv, TypeOK
<1>5. TypeOK'
  BY <1>1, <1>4, ReturnedType DEF Inv, TypeOK, Waiting
<1>6. Stages'
  <2>1. Stage(q)'
    BY <1>1, <1>2, <1>3, <1>4 DEF Inv, TypeOK, Stage
  <2>2. \A a \in Account : users[a] # None => users'[a] # None
    BY <1>2, <1>4
  <2> QED
    BY <1>1, <2>1, <2>2, StagesOfOthers DEF Inv, TypeOK
<1>7. NoneKeptWhileHashing'
  BY <1>1, ReturnedType DEF Inv, TypeOK, NoneKeptWhileHashing
<1>8. AnswersMatchAccounts'
  <2> SUFFICES ASSUME NEW r \in Req
               PROVE  /\ users'[r] # None <=> r \in acted' /\ call[r].op = "signup"
                      /\ pc'[r] = "done" /\ reply[r].code # 500 /\ call[r].op \in {"signup", "edit", "put"}
                           => (r \in acted' <=> reply[r].code \in {200, 201})
    BY <1>1 DEF AnswersMatchAccounts
  <2>1. /\ users[r] # None <=> r \in acted /\ call[r].op = "signup"
        /\ pc[r] = "done" /\ reply[r].code # 500 /\ call[r].op \in {"signup", "edit", "put"}
             => (r \in acted <=> reply[r].code \in {200, 201})
    BY DEF Inv, AnswersMatchAccounts
  <2>2. users'[r] # None <=> r \in acted' /\ call[r].op = "signup"
    BY <1>1, <1>2, <1>3, <1>4, <2>1 DEF Account
  <2> QED
    BY <1>1, <2>1, <2>2 DEF Inv, TypeOK
<1>9. \A r \in Req : /\ Target(r)' = Target(r)
                     /\ WritesEmail(r)' <=> WritesEmail(r)
                     /\ pc'[r] \in {"index", "commit"} => pc'[r] = pc[r] /\ r # q
  BY <1>1 DEF Target, WritesEmail, Inv, TypeOK
<1>10. RowLocks'
  BY <1>9 DEF Inv, RowLocks
<1>11. ASSUME NEW r \in Req \ {q}, pc[r] = "commit", WritesEmail(r)
       PROVE  Rivals(r)' = {}
  <2>1. Rivals(r) = {} /\ Target(r) # t
    BY <1>1, <1>11 DEF Inv, Claims, RowLocks, t
  <2>2. users[t] # None => Address[users[t].email] # Address[call[r].email]
    BY <1>2, <2>1 DEF Rivals
  <2>3. WritesEmail(q) => Address[call[q].email] # Address[call[r].email]
    BY <1>1, <1>11 DEF Inv, Claims
  <2>4. Address[w.email] # Address[call[r].email]
    BY <1>2, <2>2, <2>3
  <2>5. \A a \in Account \ {Target(r)} :
           users'[a] # None => Address[users'[a].email] # Address[call[r].email]
    BY <1>4, <2>1, <2>4 DEF Rivals
  <2> QED
    BY <1>1, <1>9, <2>5 DEF Rivals
<1>12. Claims'
  BY <1>1, <1>9, <1>11 DEF Inv, Claims
<1>13. OneAccountPerAddress'
  <2>1. ASSUME NEW a \in Account \ {t}, users[a] # None
        PROVE  Address[users[a].email] # Address[w.email]
    <3>1. CASE WritesEmail(q)
      <4>1. Rivals(q) = {}
        BY <1>1, <3>1 DEF Inv, Claims
      <4> QED
        BY <1>2, <2>1, <3>1, <4>1 DEF Rivals, t
    <3>2. CASE ~WritesEmail(q)
      BY <1>2, <2>1, <3>2 DEF Inv, OneAccountPerAddress
    <3> QED
      BY <3>1, <3>2
  <2> QED
    BY <1>4, <2>1 DEF Inv, OneAccountPerAddress
<1> QED
  BY <1>5, <1>6, <1>7, <1>8, <1>10, <1>12, <1>13 DEF Inv

-----------------------------------------------------------------------------
(* The theorems.                                                           *)

LEMMA NextInv == Inv /\ [Next]_vars => Inv'
<1> SUFFICES ASSUME Inv, [Next]_vars PROVE Inv'
  OBVIOUS
<1>1. ASSUME NEW q \in Req, Arrive(q) \/ Step(q) PROVE Inv'
  BY <1>1, ArriveInv, TakeInv, TimeoutInv, LoadInv, ReadInv, FindInv, VerifyInv, HashInv, RowInv,
     IndexInv, VictimInv, CommitInv, RefreshInv, CheckInv, StateInv DEF Step
<1>2. CASE UNCHANGED vars
  <2>1. \A q \in Req : Stage(q)' <=> Stage(q)
    BY <1>2 DEF vars, Stage, WritesEmail
  <2> QED
    BY <1>2, <2>1
    DEF vars, Inv, TypeOK, Stages, NoneKeptWhileHashing, AnswersMatchAccounts, RowLocks, Claims,
        OneAccountPerAddress, Target, WritesEmail, Rivals
<1> QED
  BY <1>1, <1>2 DEF Next

\* The inductive invariant of the accounts and the pool.
THEOREM InvHolds == Spec => []Inv
BY InitInv, NextInv, PTL DEF Spec

\* Whatever sign-ups and edits race, no two accounts have one e-mail address.
THEOREM OneAccountHolds == Spec => []OneAccountPerAddress
<1>1. Inv => OneAccountPerAddress
  BY DEF Inv
<1> QED
  BY <1>1, InvHolds, PTL

\* No connection is kept while a password is hashed, while another is waited for
\* after a commit, or after the answer.
THEOREM NoneKeptHolds == Spec => []NoneKeptWhileHashing
<1>1. Inv => NoneKeptWhileHashing
  BY DEF Inv
<1> QED
  BY <1>1, InvHolds, PTL

\* What is told agrees with what is stored.
THEOREM AccountsAreAnswered == Spec => []AnswersMatchAccounts
<1>1. Inv => AnswersMatchAccounts
  BY DEF Inv
<1> QED
  BY <1>1, InvHolds, PTL

-----------------------------------------------------------------------------
(* Where the fields of an account come from.                               *)

\* How a step changes the variables: each at the place of its request only.
LEMMA StepShape ==
    ASSUME NEW q \in Req, Arrive(q) \/ Step(q)
    PROVE  /\ \E s : pc' = [pc EXCEPT ![q] = s]
           /\ call' = call \/ (pc[q] = "idle" /\ \E c : call' = [call EXCEPT ![q] = c])
           /\ \/ loaded' = loaded
              \/ /\ pc[q] \in {"load", "find"} /\ acted' = acted
                 /\ \E row : loaded' = [loaded EXCEPT ![q] = row]
           /\ reply' = reply \/ \E answer : reply' = [reply EXCEPT ![q] = answer]
           /\ Commit(q) \/ users' = users
           /\ \/ acted' = acted
              \/ /\ acted' = acted \cup {q}
                 /\ \/ Commit(q) \/ pc[q] = "check"
                    \/ Row(q) /\ ~WritesEmail(q) /\ ~WritesPhone(q)
           /\ pc[q] # "done"
<1> DEFINE Moves == \E s : pc' = [pc EXCEPT ![q] = s]
           Asks == call' = call \/ (pc[q] = "idle" /\ \E c : call' = [call EXCEPT ![q] = c])
           Loads == \/ loaded' = loaded
                    \/ /\ pc[q] \in {"load", "find"} /\ acted' = acted
                       /\ \E row : loaded' = [loaded EXCEPT ![q] = row]
           Replies == reply' = reply \/ \E answer : reply' = [reply EXCEPT ![q] = answer]
           Stores == Commit(q) \/ users' = users
           Acts == \/ acted' = acted
                   \/ /\ acted' = acted \cup {q}
                      /\ \/ Commit(q) \/ pc[q] = "check"
                         \/ Row(q) /\ ~WritesEmail(q) /\ ~WritesPhone(q)
           Frame == Moves /\ Asks /\ Loads /\ Replies /\ Stores /\ Acts
<1>1. pc[q] # "done"
  BY DEF Arrive, Step, Take, Waiting, Timeout, Load, Read, Find, Verify, Hash, Row, Index, Victim,
         Deadlocked, Commit, Refresh, Check, State
<1>2. ASSUME NEW code, NEW row, Send(q, code, row) PROVE Moves /\ Replies
  BY <1>2 DEF Send, Goto
<1>3. ASSUME NEW s, Goto(q, s) PROVE Moves
  BY <1>3 DEF Goto
<1> SUFFICES Frame
  BY <1>1
<1> HIDE DEF Moves, Replies
<1>4. ASSUME NEW code, Refuse(q, code) PROVE Frame
  BY <1>2, <1>4 DEF Refuse
<1>5. ASSUME UNCHANGED reply PROVE Replies
  BY <1>5 DEF Replies
<1>6. CASE Arrive(q)
  <2>1. /\ pc[q] = "idle" /\ UNCHANGED <<users, loaded, acted>>
        /\ \E c \in Plan[q] : call' = [call EXCEPT ![q] = c]
    BY <1>6 DEF Arrive
  <2>2. \/ Goto(q, "hash") /\ UNCHANGED reply
        \/ Goto(q, "connect") /\ UNCHANGED reply
        \/ Send(q, 401, None)
    BY <1>6, Zenon DEF Arrive
  <2>3. Moves /\ Replies
    BY <1>2, <1>3, <1>5, <2>2
  <2> QED
    BY <2>1, <2>3
<1>7. CASE Take(q)
  BY <1>3, <1>5, <1>7 DEF Take
<1>8. CASE Hash(q)
  BY <1>3, <1>5, <1>8 DEF Hash
<1>9. CASE Timeout(q) \/ Victim(q)
  BY <1>4, <1>9 DEF Timeout, Victim
<1>10. CASE Load(q)
  <2>1. CASE Refuse(q, 401) \/ Refuse(q, 403)
    BY <1>4, <2>1
  <2>2. CASE /\ \E row : loaded' = [loaded EXCEPT ![q] = row]
             /\ \E s : Goto(q, s)
             /\ UNCHANGED <<users, owner, call, acted, reply>>
    BY <1>3, <1>5, <1>10, <2>2 DEF Load
  <2> QED
    BY <1>10, <2>1, <2>2 DEF Load
<1>11. CASE Find(q)
  <2>1. CASE Refuse(q, 401)
    BY <1>4, <2>1
  <2>2. CASE /\ \E row : loaded' = [loaded EXCEPT ![q] = row]
             /\ Goto(q, "verify")
             /\ UNCHANGED <<users, call, acted, reply>>
    BY <1>3, <1>5, <1>11, <2>2 DEF Find
  <2> QED
    BY <1>11, <2>1, <2>2 DEF Find
<1>12. CASE Read(q)
  BY <1>2, <1>12 DEF Read
<1>13. CASE Verify(q) \/ Refresh(q) \/ State(q)
  BY <1>2, <1>13 DEF Verify, Refresh, State
<1>14. CASE Row(q)
  BY <1>3, <1>5, <1>14 DEF Row
<1>15. CASE Index(q)
  BY <1>3, <1>4, <1>5, <1>15 DEF Index
<1>16. CASE Commit(q)
  BY <1>3, <1>5, <1>16 DEF Commit
<1>17. CASE Check(q)
  BY <1>3, <1>4, <1>5, <1>17 DEF Check
<1> QED
  BY <1>6, <1>7, <1>8, <1>9, <1>10, <1>11, <1>12, <1>13, <1>14, <1>15, <1>16, <1>17 DEF Step

\* What a step leaves alone, and how an edit comes to count as committed.
LEMMA StepFrame ==
    ASSUME Inv, NEW q \in Req, Arrive(q) \/ Step(q)
    PROVE  /\ \A r \in Req \ {q} : /\ pc'[r] = pc[r] /\ call'[r] = call[r]
                                   /\ loaded'[r] = loaded[r] /\ reply'[r] = reply[r]
                                   /\ r \in acted' <=> r \in acted
           /\ pc[q] # "done" /\ reply[q] = None
           /\ call[q] # None => call'[q] = call[q]
           /\ call[q] = None => pc[q] = "idle"
           /\ loaded'[q] = loaded[q] \/ (pc[q] \in {"load", "find"} /\ q \notin acted')
           /\ Commit(q) \/ users' = users
           /\ q \in acted => q \in acted'
           /\ q \in acted' => \/ q \in acted \/ Commit(q) \/ call[q].op = "put"
                              \/ Row(q) /\ ~WritesEmail(q) /\ ~WritesPhone(q)
<1>1. Stage(q)
  BY DEF Inv, Stages
<1>2. \A r \in Req \ {q} : pc'[r] = pc[r]
  BY StepShape DEF Inv, TypeOK
<1>3. \A r \in Req \ {q} : call'[r] = call[r]
  BY StepShape DEF Inv, TypeOK
<1>4. \A r \in Req \ {q} : loaded'[r] = loaded[r]
  BY StepShape DEF Inv, TypeOK
<1>5. \A r \in Req \ {q} : reply'[r] = reply[r]
  BY StepShape DEF Inv, TypeOK
<1>6. \A r \in Req \ {q} : r \in acted' <=> r \in acted
  BY StepShape
<1>7. pc[q] # "done" /\ reply[q] = None /\ (call[q] = None <=> pc[q] = "idle")
  BY <1>1, StepShape DEF Stage
<1>8. call[q] # None => call'[q] = call[q]
  BY <1>7, StepShape
<1>9. loaded'[q] = loaded[q] \/ (pc[q] \in {"load", "find"} /\ q \notin acted')
  BY <1>1, StepShape DEF Stage
<1>10. pc[q] = "check" => call[q].op = "put"
  BY <1>1 DEF Stage
<1>11. q \in acted => q \in acted'
  BY StepShape
<1>12. q \in acted' => \/ q \in acted \/ Commit(q) \/ call[q].op = "put"
                       \/ Row(q) /\ ~WritesEmail(q) /\ ~WritesPhone(q)
  BY <1>10, StepShape
<1> QED
  BY <1>2, <1>3, <1>4, <1>5, <1>6, <1>7, <1>8, <1>9, <1>11, <1>12, StepShape

\* What was written stays written by the same edits, and an edit that comes to
\* count adds what it writes.
LEMMA EditsGrow ==
    ASSUME Inv, NEW q \in Req, Arrive(q) \/ Step(q), NEW a \in Account
    PROVE  /\ Edits(a)' \subseteq Edits(a) \cup {q}
           /\ Edits(a) \subseteq Edits(a)'
           /\ \A r \in Edits(a)' : /\ call'[r] = call[r]
                                   /\ WritesPhone(r)' <=> WritesPhone(r)
                                   /\ WritesEmail(r)' <=> WritesEmail(r)
           /\ (q \in Edits(a)' /\ q \notin Edits(a)) =>
                 Commit(q) \/ (~WritesEmail(q) /\ ~WritesPhone(q) /\ users' = users)
           /\ users[a] # None => First(a)' = First(a)
<1>1. acted \subseteq Req /\ acted' \subseteq Req
  BY NextInv DEF Inv, TypeOK, Next
<1>2. \A r \in acted' : call[r] # None /\ call'[r] = call[r] /\ loaded'[r] = loaded[r]
  <2>1. \A r \in acted : call[r] # None
    BY <1>1 DEF Inv, Stages, Stage
  <2>2. q \in acted' => call[q] # None
    <3>1. CASE q \in acted
      BY <2>1, <3>1
    <3>2. CASE Commit(q) \/ Row(q)
      BY <3>2 DEF Commit, Row, Inv, Stages, Stage
    <3>3. CASE q \notin acted /\ ~Commit(q) /\ ~Row(q)
      <4>1. ASSUME q \in acted' PROVE ~Arrive(q)
        BY <3>3, <4>1 DEF Arrive
      <4>2. pc[q] = "idle" => ~Step(q)
        BY DEF Step, Take, Waiting, Timeout, Load, Read, Find, Verify, Hash, Row, Index, Victim,
               Deadlocked, Commit, Refresh, Check, State
      <4> QED
        BY <4>1, <4>2 DEF Inv, Stages, Stage
    <3> QED
      BY <3>1, <3>2, <3>3, StepFrame
  <2>3. \A r \in acted' : call[r] # None
    BY <1>1, <2>1, <2>2, StepFrame
  <2> QED
    BY <1>1, <2>3, StepFrame
<1>3. Edits(a)' \subseteq Edits(a) \cup {q} /\ Edits(a) \subseteq Edits(a)'
  BY <1>1, <1>2, StepFrame DEF Edits
<1>4. \A r \in Edits(a)' : /\ call'[r] = call[r]
                           /\ WritesPhone(r)' <=> WritesPhone(r)
                           /\ WritesEmail(r)' <=> WritesEmail(r)
  BY <1>2 DEF Edits, WritesPhone, WritesEmail
<1>5. ASSUME q \in Edits(a)', q \notin Edits(a)
      PROVE  Commit(q) \/ (~WritesEmail(q) /\ ~WritesPhone(q) /\ users' = users)
  <2>1. q \in acted' /\ q \notin acted /\ call[q].op = "edit"
    BY <1>2, <1>5 DEF Edits
  <2> QED
    BY <2>1, StepFrame
<1>6. users[a] # None => First(a)' = First(a)
  <2>1. CASE a \in Seed
    BY <2>1 DEF First
  <2>2. CASE a \notin Seed
    <3>1. a \in Req
      BY <2>2 DEF Account
    <3>2. users[a] # None => a \in acted
      BY <3>1 DEF Inv, AnswersMatchAccounts
    <3>3. users[a] # None => call'[a] = call[a]
      BY <1>2, <3>1, <3>2, StepFrame
    <3> QED
      BY <2>2, <3>3 DEF First
  <2> QED
    BY <2>1, <2>2
<1> QED
  BY <1>3, <1>4, <1>5, <1>6

\* The values given to the fields of an account only become more, by what a
\* committing edit writes.
LEMMA GivenGrow ==
    ASSUME Inv, NEW q \in Req, Arrive(q) \/ Step(q), NEW a \in Account
    PROVE  /\ PhonesGiven(a) \subseteq PhonesGiven(a)' /\ EmailsGiven(a) \subseteq EmailsGiven(a)'
           /\ ~(Commit(q) /\ q \in Edits(a)') =>
                 PhonesGiven(a)' = PhonesGiven(a) /\ EmailsGiven(a)' = EmailsGiven(a)
           /\ (Commit(q) /\ q \in Edits(a)') =>
                 /\ PhonesGiven(a)' = PhonesGiven(a) \cup (IF WritesPhone(q) THEN {call[q].phone} ELSE {})
                 /\ EmailsGiven(a)' = EmailsGiven(a) \cup (IF WritesEmail(q) THEN {call[q].email} ELSE {})
<1>1. PhonesGiven(a)' = {call[r].phone : r \in {e \in Edits(a)' : WritesPhone(e)}}
  BY EditsGrow DEF PhonesGiven
<1>2. EmailsGiven(a)' = {call[r].email : r \in {e \in Edits(a)' : WritesEmail(e)}}
  BY EditsGrow DEF EmailsGiven
<1>3. /\ Edits(a)' \subseteq Edits(a) \cup {q} /\ Edits(a) \subseteq Edits(a)'
      /\ (q \in Edits(a)' /\ q \notin Edits(a)) => Commit(q) \/ (~WritesEmail(q) /\ ~WritesPhone(q))
  BY EditsGrow
<1>4. PhonesGiven(a) \subseteq PhonesGiven(a)' /\ EmailsGiven(a) \subseteq EmailsGiven(a)'
  BY <1>1, <1>2, <1>3 DEF PhonesGiven, EmailsGiven
<1>5. ASSUME ~(Commit(q) /\ q \in Edits(a)')
      PROVE  PhonesGiven(a)' = PhonesGiven(a) /\ EmailsGiven(a)' = EmailsGiven(a)
  <2>1. {e \in Edits(a)' : WritesPhone(e)} = {e \in Edits(a) : WritesPhone(e)}
    BY <1>3, <1>5
  <2>2. {e \in Edits(a)' : WritesEmail(e)} = {e \in Edits(a) : WritesEmail(e)}
    BY <1>3, <1>5
  <2> QED
    BY <1>1, <1>2, <2>1, <2>2 DEF PhonesGiven, EmailsGiven
<1>6. ASSUME Commit(q), q \in Edits(a)'
      PROVE  /\ PhonesGiven(a)' = PhonesGiven(a) \cup (IF WritesPhone(q) THEN {call[q].phone} ELSE {})
             /\ EmailsGiven(a)' = EmailsGiven(a) \cup (IF WritesEmail(q) THEN {call[q].email} ELSE {})
  <2>1. Edits(a)' = Edits(a) \cup {q}
    BY <1>3, <1>6
  <2>2. {e \in Edits(a)' : WritesPhone(e)} =
          {e \in Edits(a) : WritesPhone(e)} \cup (IF WritesPhone(q) THEN {q} ELSE {})
    BY <2>1
  <2>3. {e \in Edits(a)' : WritesEmail(e)} =
          {e \in Edits(a) : WritesEmail(e)} \cup (IF WritesEmail(q) THEN {q} ELSE {})
    BY <2>1
  <2> QED
    BY <1>1, <1>2, <2>2, <2>3 DEF PhonesGiven, EmailsGiven
<1> QED
  BY <1>4, <1>5, <1>6

\* What a commit writes, and where.
LEMMA CommitWrites ==
    ASSUME Inv, NEW q \in Req, Commit(q)
    PROVE  /\ pc[q] = "commit" /\ acted' = acted \cup {q} /\ UNCHANGED <<call, loaded, reply>>
           /\ Target(q) \in Account /\ Written(q) \in User /\ Written(q) # None
           /\ users' = [users EXCEPT ![Target(q)] = Written(q)]
           /\ \A a \in Account : users'[a] = IF a = Target(q) THEN Written(q) ELSE users[a]
           /\ \/ /\ call[q].op = "signup" /\ Target(q) = q /\ users[q] = None
                 /\ Written(q).phone = call[q].phone /\ Written(q).email = call[q].email
              \/ /\ call[q].op = "edit" /\ Target(q) = call[q].who /\ users[call[q].who] # None
                 /\ Written(q).phone = IF WritesPhone(q) THEN call[q].phone ELSE users[call[q].who].phone
                 /\ Written(q).email = IF WritesEmail(q) THEN call[q].email ELSE users[call[q].who].email
<1>1. /\ pc[q] = "commit" /\ acted' = acted \cup {q} /\ UNCHANGED <<call, loaded, reply>>
      /\ users' = [users EXCEPT ![Target(q)] = Written(q)]
  BY DEF Commit
<1>2. Target(q) \in Account /\ Written(q) \in User /\ Written(q) # None
  BY <1>1, WrittenType, NoneAssumption
<1>3. \A a \in Account : users'[a] = IF a = Target(q) THEN Written(q) ELSE users[a]
  BY <1>1, <1>2 DEF Inv, TypeOK
<1>4. /\ call[q].op \in {"signup", "edit"} /\ q \notin acted
      /\ call[q].op = "edit" => users[call[q].who] # None /\ call[q].who \in Account
  BY <1>1 DEF Inv, Stages, Stage
<1>5. CASE call[q].op = "signup"
  <2>1. Target(q) = q /\ users[q] = None
    BY <1>4, <1>5 DEF Target, Inv, AnswersMatchAccounts
  <2>2. Written(q).phone = call[q].phone /\ Written(q).email = call[q].email
    BY <1>5 DEF Written
  <2> QED
    BY <1>1, <1>2, <1>3, <1>5, <2>1, <2>2
<1>6. CASE call[q].op = "edit"
  <2>1. users[call[q].who] \in User
    BY <1>4, <1>6 DEF Inv, TypeOK
  <2>2. /\ Written(q).phone = IF WritesPhone(q) THEN call[q].phone ELSE users[call[q].who].phone
        /\ Written(q).email = IF WritesEmail(q) THEN call[q].email ELSE users[call[q].who].email
    BY <1>6, <2>1 DEF Written, User
  <2>3. Target(q) = call[q].who
    BY <1>6 DEF Target
  <2> QED
    BY <1>1, <1>2, <1>3, <1>4, <1>6, <2>2, <2>3
<1> QED
  BY <1>4, <1>5, <1>6

\* No account goes away.
LEMMA AccountsStay ==
    ASSUME Inv, NEW q \in Req, Arrive(q) \/ Step(q), NEW a \in Account, users[a] # None
    PROVE  users'[a] # None
BY StepShape, CommitWrites

\* What a committed edit is.
LEMMA EditOf ==
    ASSUME Inv, NEW q \in acted
    PROVE  /\ q \in Req /\ call[q] # None /\ pc[q] # "idle"
           /\ call[q].op = "edit" =>
                 pc[q] \in {"reconnect", "refresh", "done"}
<1>1. q \in Req /\ Stage(q)
  BY DEF Inv, TypeOK, Stages
<1> QED
  BY <1>1 DEF Stage

LEMMA EditsHaveAccountsStep ==
    ASSUME Inv, EditsHaveAccounts, NEW q \in Req, Arrive(q) \/ Step(q)
    PROVE  EditsHaveAccounts'
<1> SUFFICES ASSUME NEW r \in acted', call'[r].op = "edit"
             PROVE  call'[r].who \in Account /\ users'[call'[r].who] # None
  BY DEF EditsHaveAccounts
<1>1. CASE r \in acted
  <2>1. r \in Req /\ call'[r] = call[r]
    BY <1>1, EditOf, StepFrame
  <2>2. call[r].who \in Account /\ users[call[r].who] # None
    BY <1>1, <2>1 DEF EditsHaveAccounts
  <2> QED
    BY <2>1, <2>2, AccountsStay
<1>2. CASE r \notin acted
  <2>1. r = q
    BY <1>2, StepShape
  <2>2. CASE Commit(q)
    BY <2>1, <2>2, CommitWrites DEF Target
  <2>3. CASE Row(q)
    <3>1. Stage(q) /\ pc[q] = "row"
      BY <2>3 DEF Row, Inv, Stages
    <3>2. call[q].who \in Account /\ users[call[q].who] # None
      BY <3>1 DEF Stage
    <3> QED
      BY <2>1, <2>3, <3>2 DEF Row
  <2>4. CASE pc[q] = "check"
    <3>1. call[q].op = "put" /\ call[q] # None
      BY <2>4 DEF Inv, Stages, Stage
    <3> QED
      BY <2>1, <3>1, StepFrame
  <2> QED
    BY <1>2, <2>2, <2>3, <2>4, StepShape
<1> QED
  BY <1>1, <1>2

LEMMA FieldsStep ==
    ASSUME Inv, EditsHaveAccounts, FieldsHaveWriters, NEW q \in Req, Arrive(q) \/ Step(q)
    PROVE  FieldsHaveWriters'
<1> SUFFICES ASSUME NEW a \in Account, users'[a] # None
             PROVE  /\ users'[a].phone \in IF PhonesGiven(a)' = {} THEN {First(a)'.phone} ELSE PhonesGiven(a)'
                    /\ users'[a].email \in IF EmailsGiven(a)' = {} THEN {First(a)'.email} ELSE EmailsGiven(a)'
  BY DEF FieldsHaveWriters
<1>1. CASE users'[a] = users[a] /\ ~(Commit(q) /\ q \in Edits(a)')
  <2>1. /\ PhonesGiven(a)' = PhonesGiven(a) /\ EmailsGiven(a)' = EmailsGiven(a)
        /\ First(a)' = First(a)
    BY <1>1, GivenGrow, EditsGrow
  <2> QED
    BY <1>1, <2>1 DEF FieldsHaveWriters
<1>2. CASE Commit(q) /\ a = Target(q) /\ call[q].op = "signup"
  <2>1. a = q /\ users[q] = None /\ call' = call /\ users'[a].phone = call[q].phone
        /\ users'[a].email = call[q].email
    BY <1>2, CommitWrites
  <2>2. Edits(a) = {}
    BY <2>1 DEF Edits, EditsHaveAccounts
  <2>3. Edits(a)' = {}
    BY <1>2, <2>1, <2>2, EditsGrow DEF Edits
  <2>4. PhonesGiven(a)' = {} /\ EmailsGiven(a)' = {}
    BY <2>3 DEF PhonesGiven, EmailsGiven
  <2>5. First(a)' = call[q]
    BY <2>1, NoneAssumption DEF First
  <2> QED
    BY <2>1, <2>4, <2>5
<1>3. CASE Commit(q) /\ a = Target(q) /\ call[q].op = "edit"
  <2>1. /\ a = call[q].who /\ users[a] # None /\ call' = call /\ q \in acted'
        /\ users'[a].phone = IF WritesPhone(q) THEN call[q].phone ELSE users[a].phone
        /\ users'[a].email = IF WritesEmail(q) THEN call[q].email ELSE users[a].email
    BY <1>3, CommitWrites
  <2>2. q \in Edits(a)'
    BY <1>3, <2>1 DEF Edits
  <2>3. /\ PhonesGiven(a)' = PhonesGiven(a) \cup (IF WritesPhone(q) THEN {call[q].phone} ELSE {})
        /\ EmailsGiven(a)' = EmailsGiven(a) \cup (IF WritesEmail(q) THEN {call[q].email} ELSE {})
        /\ First(a)' = First(a)
    BY <1>3, <2>1, <2>2, GivenGrow, EditsGrow
  <2>4. /\ users[a].phone \in IF PhonesGiven(a) = {} THEN {First(a).phone} ELSE PhonesGiven(a)
        /\ users[a].email \in IF EmailsGiven(a) = {} THEN {First(a).email} ELSE EmailsGiven(a)
    BY <2>1 DEF FieldsHaveWriters
  <2>5. users'[a].phone \in IF PhonesGiven(a)' = {} THEN {First(a)'.phone} ELSE PhonesGiven(a)'
    BY <2>1, <2>3, <2>4
  <2>6. users'[a].email \in IF EmailsGiven(a)' = {} THEN {First(a)'.email} ELSE EmailsGiven(a)'
    BY <2>1, <2>3, <2>4
  <2> QED
    BY <2>5, <2>6
<1>4. CASE ~Commit(q)
  BY <1>1, <1>4, StepShape
<1>5. CASE Commit(q) /\ a # Target(q)
  <2>1. users'[a] = users[a] /\ call' = call
    BY <1>5, CommitWrites
  <2>2. q \notin Edits(a)'
    BY <1>5, <2>1 DEF Edits, Target
  <2> QED
    BY <1>1, <2>1, <2>2
<1> QED
  BY <1>2, <1>3, <1>4, <1>5, CommitWrites

\* Where an edit that is on its way comes from.
LEMMA StepLoads ==
    ASSUME Inv, NEW q \in Req, Arrive(q) \/ Step(q), call'[q].op = "edit",
           pc'[q] \in {"row", "index", "commit", "reconnect", "refresh"}
    PROVE  /\ call'[q] = call[q] /\ call[q].who \in Account /\ users[call[q].who] # None
           /\ \/ /\ pc[q] \in {"row", "index", "commit", "reconnect", "refresh"}
                 /\ loaded'[q] = loaded[q]
              \/ loaded'[q] = users[call[q].who]
<1> DEFINE Late == {"row", "index", "commit", "reconnect", "refresh"}
<1>1. Stage(q) /\ Inv'
  BY NextInv DEF Inv, Stages, Next
<1>2. /\ pc \in [Req -> {"idle", "hash", "load", "read", "find", "verify", "row", "index", "commit",
                         "refresh", "check", "state", "done"} \cup Waiting]
      /\ loaded \in [Req -> {None} \cup User] /\ pc'[q] \in Late
  BY DEF Inv, TypeOK
<1>3. ~Arrive(q)
  BY <1>2 DEF Arrive, Send, Goto
<1>4. pc[q] # "idle" /\ call'[q] = call[q]
  <2>1. pc[q] = "idle" => ~Step(q)
    BY DEF Step, Take, Waiting, Timeout, Load, Read, Find, Verify, Hash, Row, Index, Victim,
           Deadlocked, Commit, Refresh, Check, State
  <2> QED
    BY <1>3, <2>1, StepShape
<1>5. ASSUME NEW code, NEW row, Send(q, code, row) PROVE FALSE
  BY <1>2, <1>5 DEF Send, Goto
<1>6. ASSUME NEW code, Refuse(q, code) PROVE FALSE
  BY <1>5, <1>6 DEF Refuse
<1>7. ASSUME NEW s, Goto(q, s) PROVE s \in Late
  BY <1>2, <1>7 DEF Goto
<1>8. call[q].who \in Account
  BY <1>1, <1>4, StepFrame DEF Stage
<1>9. CASE pc[q] \in Late
  <2>1. loaded'[q] = loaded[q]
    BY <1>9, StepFrame
  <2>2. users[call[q].who] # None
    BY <1>1, <1>4, <1>9 DEF Stage
  <2> QED
    BY <1>4, <1>8, <1>9, <2>1, <2>2
<1>10. CASE pc[q] \notin Late
  <2>1. CASE Load(q)
    <3>1. /\ users[call[q].who] # None
          /\ loaded' = [loaded EXCEPT ![q] = users[call[q].who]]
      BY <1>6, <2>1 DEF Load
    <3> QED
      BY <1>2, <1>4, <1>8, <3>1
  <2>2. ~Timeout(q) /\ ~Victim(q) /\ ~Read(q) /\ ~Verify(q) /\ ~Refresh(q) /\ ~State(q)
    BY <1>5, <1>6 DEF Timeout, Victim, Read, Verify, Refresh, State
  <2>3. ~Row(q) /\ ~Index(q) /\ ~Commit(q)
    BY <1>10 DEF Row, Index, Commit
  <2>4. ~Find(q)
    BY <1>6, <1>7 DEF Find
  <2>5. ~Hash(q)
    BY <1>7 DEF Hash
  <2>6. ~Check(q)
    BY <1>6, <1>7 DEF Check
  <2>7. ~Take(q)
    <3> SUFFICES ASSUME Take(q) PROVE FALSE
      OBVIOUS
    <3>1. After(q) \in Late /\ pc[q] \in {"connect", "second", "third"}
      BY <1>7, <1>10 DEF Take, Waiting
    <3>2. call[q].op = "edit"
      BY <1>4
    <3>3. After(q) \in {"load", "check", "state"}
      BY <3>1, <3>2 DEF After
    <3> QED
      BY <3>1, <3>3
  <2> QED
    BY <1>3, <2>1, <2>2, <2>3, <2>4, <2>5, <2>6, <2>7 DEF Step
<1> QED
  BY <1>9, <1>10

LEMMA LoadsStep ==
    ASSUME Inv, FieldsHaveWriters, LoadsAreTraced, NEW q \in Req, Arrive(q) \/ Step(q)
    PROVE  LoadsAreTraced'
<1> SUFFICES ASSUME NEW r \in Req, NEW b \in Account, call'[r].op = "edit", call'[r].who = b,
                    pc'[r] \in {"row", "index", "commit", "reconnect", "refresh"}
             PROVE  /\ loaded'[r].phone \in {First(b)'.phone} \cup PhonesGiven(b)'
                    /\ loaded'[r].email \in {First(b)'.email} \cup EmailsGiven(b)'
  BY DEF LoadsAreTraced
<1>1. /\ call'[r] = call[r] /\ users[call[r].who] # None
      /\ \/ /\ pc[r] \in {"row", "index", "commit", "reconnect", "refresh"}
            /\ loaded'[r] = loaded[r]
         \/ loaded'[r] = users[call[r].who]
  <2>1. CASE r = q
    BY <2>1, StepLoads
  <2>2. CASE r # q
    <3>1. pc'[r] = pc[r] /\ call'[r] = call[r] /\ loaded'[r] = loaded[r]
      BY <2>2, StepFrame
    <3> QED
      BY <3>1 DEF Inv, Stages, Stage
  <2> QED
    BY <2>1, <2>2
<1>2. users[b] # None
  BY <1>1
<1>3. /\ First(b)' = First(b)
      /\ PhonesGiven(b) \subseteq PhonesGiven(b)' /\ EmailsGiven(b) \subseteq EmailsGiven(b)'
  BY <1>2, EditsGrow, GivenGrow
<1>4. /\ loaded'[r].phone \in {First(b).phone} \cup PhonesGiven(b)
      /\ loaded'[r].email \in {First(b).email} \cup EmailsGiven(b)
  <2>1. CASE loaded'[r] = users[b]
    BY <1>2, <2>1 DEF FieldsHaveWriters
  <2>2. CASE /\ pc[r] \in {"row", "index", "commit", "reconnect", "refresh"}
             /\ loaded'[r] = loaded[r]
    BY <1>1, <2>2 DEF LoadsAreTraced
  <2> QED
    BY <1>1, <2>1, <2>2
<1> QED
  BY <1>3, <1>4

\* What answers the requests.
LEMMA StepAnswers ==
    ASSUME Inv, NEW q \in Req, Arrive(q) \/ Step(q), pc'[q] = "done"
    PROVE  /\ call' = call \/ reply'[q].code = 401
           /\ call[q].op = "edit" /\ reply'[q].code = 200 =>
                 pc[q] = "refresh" /\ users' = users /\ reply'[q].row = users[call[q].who]
           /\ call[q].op \in {"signup", "edit"} /\ reply'[q].code = 409 => Rivals(q) # {}
<1> DEFINE Good == /\ call' = call \/ reply'[q].code = 401
                   /\ call[q].op = "edit" /\ reply'[q].code = 200 =>
                         pc[q] = "refresh" /\ users' = users /\ reply'[q].row = users[call[q].who]
                   /\ call[q].op \in {"signup", "edit"} /\ reply'[q].code = 409 => Rivals(q) # {}
<1>1. /\ pc \in [Req -> {"idle", "hash", "load", "read", "find", "verify", "row", "index", "commit",
                         "refresh", "check", "state", "done"} \cup Waiting]
      /\ reply \in [Req -> {None} \cup Reply]
  BY DEF Inv, TypeOK
<1>2. Stage(q)
  BY DEF Inv, Stages
<1>3. ASSUME NEW s, Goto(q, s) PROVE s = "done"
  BY <1>1, <1>3 DEF Goto
<1>4. ASSUME NEW code, NEW row, Send(q, code, row) PROVE reply'[q].code = code /\ reply'[q].row = row
  BY <1>1, <1>4 DEF Send
<1>5. ASSUME NEW code \in {401, 403, 500}, Refuse(q, code) PROVE Good
  BY <1>4, <1>5 DEF Refuse
<1> SUFFICES Good
  OBVIOUS
<1>6. CASE Arrive(q)
  <2>1. Send(q, 401, None)
    BY <1>3, <1>6 DEF Arrive
  <2> QED
    BY <1>4, <2>1
<1>7. CASE Load(q)
  <2>1. Refuse(q, 401) \/ Refuse(q, 403)
    <3>1. ASSUME NEW s, s = CASE call[q].op = "edit" -> "row" [] call[q].op = "get" -> "read"
                              [] call[q].op = "put" -> "second" [] call[q].op = "state" -> "third"
          PROVE  ~Goto(q, s)
      BY <1>2, <1>3, <1>7, <3>1, CallType DEF Load, Stage
    <3> QED
      BY <1>7, <3>1 DEF Load
  <2> QED
    BY <1>5, <2>1
<1>8. CASE Timeout(q) \/ Victim(q)
  BY <1>5, <1>8 DEF Timeout, Victim
<1>9. CASE Read(q) \/ Verify(q) \/ State(q)
  <2>1. call[q].op \notin {"signup", "edit"}
    BY <1>2, <1>9 DEF Read, Verify, State, Stage
  <2> QED
    BY <1>9, <2>1 DEF Read, Verify, State
<1>10. CASE Find(q)
  <2>1. Refuse(q, 401)
    BY <1>3, <1>10 DEF Find
  <2> QED
    BY <1>5, <2>1
<1>11. CASE Index(q)
  <2>1. Rivals(q) # {} /\ Refuse(q, 409)
    BY <1>3, <1>11 DEF Index
  <2> QED
    BY <1>4, <2>1 DEF Refuse
<1>12. CASE Refresh(q)
  <2>1. call[q].op \in {"signup", "edit"}
    BY <1>2, <1>12 DEF Refresh, Stage
  <2>2. /\ reply'[q].code = IF call[q].op = "signup" THEN 201 ELSE 200
        /\ reply'[q].row = users[Target(q)]
    BY <1>4, <1>12 DEF Refresh
  <2> QED
    BY <1>12, <2>1, <2>2 DEF Refresh, Target
<1>13. CASE Check(q)
  <2>1. call[q].op = "put"
    BY <1>2, <1>13 DEF Check, Stage
  <2> QED
    BY <1>13, <2>1 DEF Check, Refuse
<1>14. ~Hash(q) /\ ~Row(q) /\ ~Commit(q)
  BY <1>3 DEF Hash, Row, Commit
<1>15. ~Take(q)
  <2> SUFFICES ASSUME Take(q) PROVE FALSE
    OBVIOUS
  <2>1. After(q) = "done" /\ pc[q] \in Waiting
    BY <1>3 DEF Take
  <2> QED
    BY <2>1 DEF After, Waiting
<1> QED
  BY <1>6, <1>7, <1>8, <1>9, <1>10, <1>11, <1>12, <1>13, <1>14, <1>15 DEF Step

\* What is in the row that an edit reads back.
LEMMA FieldsShown ==
    ASSUME Inv, History, NEW q \in Req, pc[q] = "refresh", call[q].op = "edit"
    PROVE  LET row == users[call[q].who]
               rest == Edits(call[q].who) \ {q}
           IN  /\ call[q].phone # Keep =>
                    \/ row.phone = call[q].phone
                    \/ \E r \in rest : WritesPhone(r) /\ row.phone = call[r].phone
               /\ call[q].email \in Email =>
                    \/ row.email = call[q].email
                    \/ \E r \in rest : WritesEmail(r) /\ row.email = call[r].email
<1>1. Stage(q) /\ pc[q] # "idle"
  BY DEF Inv, Stages
<1>2. q \in acted /\ call[q].who \in Account /\ users[call[q].who] # None
  BY <1>1 DEF Stage
<1>3. PICK a \in Account : call[q].who = a
  BY <1>2
<1>4. q \in Edits(a) /\ users[a] # None
  BY <1>2, <1>3 DEF Edits
<1>5. /\ users[a].phone \in IF PhonesGiven(a) = {} THEN {First(a).phone} ELSE PhonesGiven(a)
      /\ users[a].email \in IF EmailsGiven(a) = {} THEN {First(a).email} ELSE EmailsGiven(a)
      /\ loaded[q].phone \in {First(a).phone} \cup PhonesGiven(a)
      /\ loaded[q].email \in {First(a).email} \cup EmailsGiven(a)
  BY <1>3, <1>4 DEF History, FieldsHaveWriters, LoadsAreTraced
<1>6. ASSUME call[q].phone # Keep, users[a].phone # call[q].phone
      PROVE  \E r \in Edits(a) \ {q} : WritesPhone(r) /\ users[a].phone = call[r].phone
  <2>1. PhonesGiven(a) # {}
    <3>1. CASE WritesPhone(q)
      BY <1>4, <3>1 DEF PhonesGiven
    <3>2. CASE ~WritesPhone(q)
      <4>1. loaded[q].phone = call[q].phone
        BY <1>6, <3>2 DEF WritesPhone
      <4> QED
        BY <1>5, <1>6, <4>1
    <3> QED
      BY <3>1, <3>2
  <2>2. PICK r \in Edits(a) : WritesPhone(r) /\ users[a].phone = call[r].phone
    BY <1>5, <2>1 DEF PhonesGiven
  <2> QED
    BY <1>6, <2>2
<1>7. ASSUME call[q].email \in Email, users[a].email # call[q].email
      PROVE  \E r \in Edits(a) \ {q} : WritesEmail(r) /\ users[a].email = call[r].email
  <2>1. EmailsGiven(a) # {}
    <3>1. CASE WritesEmail(q)
      BY <1>4, <3>1 DEF EmailsGiven
    <3>2. CASE ~WritesEmail(q)
      <4>1. loaded[q].email = call[q].email
        BY <1>7, <3>2 DEF WritesEmail
      <4> QED
        BY <1>5, <1>7, <4>1
    <3> QED
      BY <3>1, <3>2
  <2>2. PICK r \in Edits(a) : WritesEmail(r) /\ users[a].email = call[r].email
    BY <1>5, <2>1 DEF EmailsGiven
  <2> QED
    BY <1>7, <2>2
<1> QED
  BY <1>3, <1>6, <1>7

LEMMA ShowsStep ==
    ASSUME Inv, History, NEW q \in Req, Arrive(q) \/ Step(q)
    PROVE  ShowsTheEdit'
<1> SUFFICES ASSUME NEW r \in Req, NEW a \in {call'[r].who},
                    pc'[r] = "done", call'[r].op = "edit", reply'[r].code = 200
             PROVE  /\ call'[r].phone # Keep =>
                         \/ reply'[r].row.phone = call'[r].phone
                         \/ \E e \in Edits(a)' \ {r} :
                               WritesPhone(e)' /\ reply'[r].row.phone = call'[e].phone
                    /\ call'[r].email \in Email =>
                         \/ reply'[r].row.email = call'[r].email
                         \/ \E e \in Edits(a)' \ {r} :
                               WritesEmail(e)' /\ reply'[r].row.email = call'[e].email
  BY DEF ShowsTheEdit, Edits
<1>1. call'[r] = call[r]
  <2>1. CASE r = q
    BY <2>1, StepAnswers
  <2>2. CASE r # q
    BY <2>2, StepFrame
  <2> QED
    BY <2>1, <2>2
<1>2. LET rest == Edits(a) \ {r}
      IN  /\ call[r].phone # Keep =>
               \/ reply'[r].row.phone = call[r].phone
               \/ \E e \in rest : WritesPhone(e) /\ reply'[r].row.phone = call[e].phone
          /\ call[r].email \in Email =>
               \/ reply'[r].row.email = call[r].email
               \/ \E e \in rest : WritesEmail(e) /\ reply'[r].row.email = call[e].email
  <2>1. CASE r = q
    <3>1. pc[q] = "refresh" /\ reply'[q].row = users[call[q].who] /\ call[q].op = "edit"
      BY <1>1, <2>1, StepAnswers
    <3>2. a = call[q].who
      BY <1>1, <2>1
    <3> QED
      BY <2>1, <3>1, <3>2, FieldsShown DEF Edits
  <2>2. CASE r # q
    <3>1. pc[r] = "done" /\ reply'[r] = reply[r] /\ call[r].op = "edit"
      BY <1>1, <2>2, StepFrame
    <3>2. a = call[r].who
      BY <1>1
    <3> QED
      BY <3>1, <3>2 DEF History, ShowsTheEdit, Edits
  <2> QED
    BY <2>1, <2>2
<1>3. a \in Account
  <2>1. r \in acted'
    <3>1. /\ Inv' /\ EditsHaveAccounts'
      BY NextInv, EditsHaveAccountsStep DEF Next, History
    <3> QED
      BY <3>1 DEF Inv, AnswersMatchAccounts
  <2>2. EditsHaveAccounts'
    BY EditsHaveAccountsStep DEF History
  <2> QED
    BY <2>1, <2>2 DEF EditsHaveAccounts
<1>4. /\ Edits(a) \subseteq Edits(a)'
      /\ \A e \in Edits(a)' : /\ call'[e] = call[e]
                              /\ WritesPhone(e)' <=> WritesPhone(e)
                              /\ WritesEmail(e)' <=> WritesEmail(e)
  BY <1>3, EditsGrow
<1> QED
  BY <1>1, <1>2, <1>4

\* Who had the address that a sign-up or an edit is told is taken.
LEMMA RivalsAddress ==
    ASSUME Inv, FieldsHaveWriters, NEW q \in Req, Rivals(q) # {}
    PROVE  LET same(e) == Address[e] = Address[call[q].email]
           IN  \/ \E a \in Seed \ {Target(q)} : same(Stored[a].email)
               \/ \E r \in Others(q) :
                     Target(r) # Target(q) /\ call[r].email \in Email /\ same(call[r].email)
<1>1. PICK a \in Account \ {Target(q)} :
        users[a] # None /\ Address[users[a].email] = Address[call[q].email]
  BY DEF Rivals
<1>2. users[a].email \in IF EmailsGiven(a) = {} THEN {First(a).email} ELSE EmailsGiven(a)
  BY <1>1 DEF FieldsHaveWriters
<1>3. CASE EmailsGiven(a) = {} /\ a \in Seed
  <2>1. users[a].email = Stored[a].email
    BY <1>2, <1>3 DEF First
  <2> QED
    BY <1>1, <1>3, <2>1
<1>4. CASE EmailsGiven(a) = {} /\ a \notin Seed
  <2>1. a \in Req /\ users[a].email = call[a].email
    BY <1>2, <1>4 DEF First, Account
  <2>2. a \in acted /\ call[a].op = "signup"
    BY <1>1, <2>1 DEF Inv, AnswersMatchAccounts
  <2>3. call[a] # None /\ call[a].email \in Email
    BY <2>1, <2>2, EditOf, CallType
  <2>4. Target(a) = a /\ a # q
    BY <1>1, <2>2 DEF Target
  <2>5. a \in Others(q)
    BY <2>2, <2>4 DEF Others
  <2> QED
    BY <1>1, <2>1, <2>3, <2>4, <2>5
<1>5. CASE EmailsGiven(a) # {}
  <2>1. PICK r \in Edits(a) : WritesEmail(r) /\ users[a].email = call[r].email
    BY <1>2, <1>5 DEF EmailsGiven
  <2>2. r \in acted /\ call[r].op = "edit" /\ call[r].who = a
    BY <2>1 DEF Edits
  <2>3. r \in Req /\ call[r] # None
    BY <2>2, EditOf
  <2>4. Target(r) = a /\ call[r].email \in Email
    BY <2>1, <2>2 DEF Target, WritesEmail
  <2>5. r \in Others(q)
    BY <1>1, <2>2, <2>3, <2>4 DEF Others
  <2> QED
    BY <1>1, <2>1, <2>4, <2>5
<1> QED
  BY <1>3, <1>4, <1>5

LEMMA TakenStep ==
    ASSUME Inv, History, NEW q \in Req, Arrive(q) \/ Step(q)
    PROVE  TakenBySomebodyElse'
<1> SUFFICES ASSUME NEW r \in Req, pc'[r] = "done", call'[r].op \in {"signup", "edit"},
                    reply'[r].code = 409
             PROVE  \/ \E a \in Seed \ {Target(r)'} : Address[Stored[a].email] = Address[call'[r].email]
                    \/ \E s \in Others(r)' : /\ Target(s)' # Target(r)' /\ call'[s].email \in Email
                                             /\ Address[call'[s].email] = Address[call'[r].email]
  BY DEF TakenBySomebodyElse
<1>1. call'[r] = call[r]
  <2>1. CASE r = q
    BY <2>1, StepAnswers
  <2>2. CASE r # q
    BY <2>2, StepFrame
  <2> QED
    BY <2>1, <2>2
<1>2. \/ \E a \in Seed \ {Target(r)} : Address[Stored[a].email] = Address[call[r].email]
      \/ \E s \in Others(r) : /\ Target(s) # Target(r) /\ call[s].email \in Email
                              /\ Address[call[s].email] = Address[call[r].email]
  <2>1. CASE r = q
    <3>1. Rivals(r) # {}
      BY <1>1, <2>1, StepAnswers
    <3> QED
      BY <3>1, RivalsAddress DEF History
  <2>2. CASE r # q
    <3>1. pc[r] = "done" /\ reply'[r] = reply[r] /\ call[r].op \in {"signup", "edit"}
      BY <1>1, <2>2, StepFrame
    <3> QED
      BY <3>1 DEF History, TakenBySomebodyElse
  <2> QED
    BY <2>1, <2>2
<1>3. Target(r)' = Target(r)
  BY <1>1 DEF Target
<1>4. \A s \in Others(r) : s \in Others(r)' /\ Target(s)' = Target(s) /\ call'[s] = call[s]
  <2> SUFFICES ASSUME NEW s \in Others(r)
               PROVE  s \in Others(r)' /\ Target(s)' = Target(s) /\ call'[s] = call[s]
    OBVIOUS
  <2>1. s \in acted /\ s # r /\ call[s].op \in {"signup", "edit"}
    BY DEF Others
  <2>2. s \in Req /\ call[s] # None
    BY <2>1 DEF Inv, TypeOK, Stages, Stage
  <2>3. s \in acted' /\ call'[s] = call[s]
    BY <2>1, <2>2, StepFrame
  <2> QED
    BY <2>1, <2>3 DEF Others, Target
<1> QED
  BY <1>1, <1>2, <1>3, <1>4

LEMMA InitHistory == Init => History
<1> SUFFICES ASSUME Init PROVE History
  OBVIOUS
<1>1. \A a \in Account : Edits(a) = {}
  BY DEF Init, Edits
<1>2. FieldsHaveWriters
  <2> SUFFICES ASSUME NEW a \in Account, users[a] # None
               PROVE  /\ users[a].phone \in IF PhonesGiven(a) = {} THEN {First(a).phone} ELSE PhonesGiven(a)
                      /\ users[a].email \in IF EmailsGiven(a) = {} THEN {First(a).email} ELSE EmailsGiven(a)
    BY DEF FieldsHaveWriters
  <2>1. PhonesGiven(a) = {} /\ EmailsGiven(a) = {}
    BY <1>1 DEF PhonesGiven, EmailsGiven
  <2>2. users[a] = First(a)
    BY DEF Init, First
  <2> QED
    BY <2>1, <2>2
<1> QED
  BY <1>2 DEF Init, History, EditsHaveAccounts, LoadsAreTraced, ShowsTheEdit, TakenBySomebodyElse

LEMMA NextHistory == Inv /\ History /\ [Next]_vars => History'
<1> SUFFICES ASSUME Inv, History, [Next]_vars PROVE History'
  OBVIOUS
<1>1. ASSUME NEW q \in Req, Arrive(q) \/ Step(q) PROVE History'
  <2>1. EditsHaveAccounts' /\ FieldsHaveWriters' /\ LoadsAreTraced'
    BY <1>1, EditsHaveAccountsStep, FieldsStep, LoadsStep DEF History
  <2>2. ShowsTheEdit' /\ TakenBySomebodyElse'
    BY <1>1, ShowsStep, TakenStep
  <2> QED
    BY <2>1, <2>2 DEF History
<1>2. CASE UNCHANGED vars
  <2>1. \A r : /\ WritesPhone(r)' <=> WritesPhone(r)
               /\ WritesEmail(r)' <=> WritesEmail(r)
    BY <1>2 DEF vars, WritesPhone, WritesEmail
  <2>2. \A a : Edits(a)' = Edits(a) /\ First(a)' = First(a)
    BY <1>2 DEF vars, Edits, First
  <2>3. \A a : PhonesGiven(a)' = PhonesGiven(a) /\ EmailsGiven(a)' = EmailsGiven(a)
    BY <1>2, <2>1, <2>2 DEF vars, PhonesGiven, EmailsGiven
  <2>4. FieldsHaveWriters' /\ LoadsAreTraced' /\ EditsHaveAccounts'
    BY <1>2, <2>2, <2>3 DEF vars, History, FieldsHaveWriters, LoadsAreTraced, EditsHaveAccounts
  <2>5. ShowsTheEdit'
    BY <1>2, <2>1, <2>2 DEF vars, History, ShowsTheEdit, Edits
  <2>6. TakenBySomebodyElse'
    BY <1>2 DEF vars, History, TakenBySomebodyElse, Others, Target
  <2> QED
    BY <2>4, <2>5, <2>6 DEF History
<1> QED
  BY <1>1, <1>2 DEF Next

-----------------------------------------------------------------------------
(* Who has the connections, and who waits for them.                        *)

\* What a step does to the connections.
LEMMA StepConnections ==
    ASSUME Inv, Connected, NEW q \in Req, Arrive(q) \/ Step(q)
    PROVE  /\ \A c \in Conn : owner[c] \in Req \ {q} => owner'[c] = owner[c]
           /\ pc'[q] \in Talking => \E c \in Conn : owner'[c] = q
           /\ pc'[q] = "check" => \E c, d \in Conn : c # d /\ owner'[c] = q /\ owner'[d] = q
<1> DEFINE Held == /\ \A c \in Conn : owner[c] \in Req \ {q} => owner'[c] = owner[c]
                   /\ pc'[q] \in Talking => \E c \in Conn : owner'[c] = q
                   /\ pc'[q] = "check" => \E c, d \in Conn : c # d /\ owner'[c] = q /\ owner'[d] = q
<1>1. /\ owner \in [Conn -> {None} \cup Req]
      /\ pc \in [Req -> {"idle", "hash", "load", "read", "find", "verify", "row", "index", "commit",
                         "refresh", "check", "state", "done"} \cup Waiting]
      /\ None \notin Req
  BY NoneAssumption DEF Inv, TypeOK, Account
<1>2. /\ pc[q] \in Talking => \E c \in Conn : owner[c] = q
      /\ pc[q] = "check" => \E c, d \in Conn : c # d /\ owner[c] = q /\ owner[d] = q
  BY DEF Connected
<1>3. ASSUME NEW s, Goto(q, s) PROVE pc'[q] = s
  BY <1>1, <1>3 DEF Goto
<1>4. ASSUME owner' = Returned(q), pc'[q] \in {"done", "verify", "reconnect"} PROVE Held
  BY <1>1, <1>4 DEF Returned, Talking
<1>5. ASSUME UNCHANGED owner, pc'[q] \in {"hash", "connect"} PROVE Held
  BY <1>5 DEF Talking
<1>6. ASSUME UNCHANGED owner, pc[q] \in Talking, pc'[q] # "check" PROVE Held
  BY <1>2, <1>6
<1>7. ASSUME NEW code, NEW row, Send(q, code, row) PROVE Held
  <2>1. pc'[q] = "done" /\ owner' = Returned(q)
    BY <1>3, <1>7 DEF Send
  <2> QED
    BY <1>4, <2>1
<1>8. ASSUME NEW code, Refuse(q, code) PROVE Held
  BY <1>7, <1>8 DEF Refuse
<1> SUFFICES Held
  OBVIOUS
<1> HIDE DEF Held
<1>9. CASE Arrive(q)
  <2>1. \/ Goto(q, "hash") /\ UNCHANGED owner
        \/ Goto(q, "connect") /\ UNCHANGED owner
        \/ Send(q, 401, None)
    BY <1>9, Zenon DEF Arrive
  <2> QED
    BY <1>3, <1>5, <1>7, <2>1
<1>10. CASE Take(q)
  <2>1. PICK c \in Conn : owner[c] = None /\ owner' = [owner EXCEPT ![c] = q]
    BY <1>10 DEF Take
  <2>2. owner'[c] = q /\ \A d \in Conn \ {c} : owner'[d] = owner[d]
    BY <1>1, <2>1
  <2>3. pc[q] \in Waiting /\ pc'[q] = After(q)
    BY <1>3, <1>10 DEF Take
  <2>4. pc'[q] = "check" => \E d \in Conn : owner[d] = q
    <3>1. pc'[q] = "check" => pc[q] = "second"
      BY <2>3 DEF Waiting, After
    <3> QED
      BY <1>2, <3>1 DEF Talking
  <2>5. pc'[q] = "check" => \E d \in Conn : d # c /\ owner'[d] = q
    BY <1>1, <2>1, <2>2, <2>4
  <2> QED
    BY <1>1, <2>1, <2>2, <2>5 DEF Held
<1>11. CASE Timeout(q) \/ Victim(q)
  BY <1>8, <1>11 DEF Timeout, Victim
<1>12. CASE Load(q)
  <2>1. CASE Refuse(q, 401) \/ Refuse(q, 403)
    BY <1>8, <2>1
  <2>2. CASE /\ UNCHANGED owner
             /\ Goto(q, CASE call[q].op = "edit" -> "row" [] call[q].op = "get" -> "read"
                          [] call[q].op = "put" -> "second" [] call[q].op = "state" -> "third")
    <3>1. pc[q] = "load" /\ call[q].op \in {"edit", "get", "put", "state"}
      BY <1>12, CallType DEF Load, Inv, Stages, Stage
    <3>2. pc'[q] \in {"row", "read", "second", "third"}
      BY <1>3, <2>2, <3>1
    <3> QED
      BY <1>6, <2>2, <3>1, <3>2 DEF Talking
  <2> QED
    BY <1>12, <2>1, <2>2 DEF Load
<1>13. CASE Find(q)
  <2>1. CASE Refuse(q, 401)
    BY <1>8, <2>1
  <2>2. CASE owner' = Returned(q) /\ Goto(q, "verify")
    BY <1>3, <1>4, <2>2
  <2> QED
    BY <1>13, <2>1, <2>2 DEF Find
<1>14. CASE Read(q)
  BY <1>7, <1>14 DEF Read
<1>15. CASE Verify(q) \/ Refresh(q) \/ State(q)
  BY <1>7, <1>15 DEF Verify, Refresh, State
<1>16. CASE Hash(q)
  BY <1>3, <1>5, <1>16 DEF Hash
<1>17. CASE Row(q)
  <2>1. CASE owner' = Returned(q) /\ Goto(q, "reconnect")
    BY <1>3, <1>4, <2>1
  <2>2. CASE UNCHANGED owner /\ Goto(q, IF WritesEmail(q) THEN "index" ELSE "commit")
    <3>1. pc'[q] \in {"index", "commit"} /\ pc[q] \in Talking
      BY <1>3, <1>17, <2>2 DEF Row, Talking
    <3> QED
      BY <1>6, <2>2, <3>1
  <2> QED
    BY <1>17, <2>1, <2>2 DEF Row
<1>18. CASE Index(q)
  <2>1. CASE Refuse(q, 409)
    BY <1>8, <2>1
  <2>2. CASE UNCHANGED owner /\ Goto(q, "commit")
    <3>1. pc'[q] = "commit" /\ pc[q] \in Talking
      BY <1>3, <1>18, <2>2 DEF Index, Talking
    <3> QED
      BY <1>6, <2>2, <3>1
  <2> QED
    BY <1>18, <2>1, <2>2 DEF Index
<1>19. CASE Commit(q)
  BY <1>3, <1>4, <1>19 DEF Commit
<1>20. CASE Check(q)
  <2>1. CASE Refuse(q, 409)
    BY <1>8, <2>1
  <2>2. CASE /\ \E c \in Conn : owner[c] = q /\ owner' = [owner EXCEPT ![c] = None]
             /\ Goto(q, "third")
    <3>1. PICK c \in Conn : owner[c] = q /\ owner' = [owner EXCEPT ![c] = None]
      BY <2>2
    <3>2. \A d \in Conn \ {c} : owner'[d] = owner[d]
      BY <1>1, <3>1
    <3>3. \E d \in Conn \ {c} : owner[d] = q
      BY <1>2, <1>20 DEF Check
    <3>4. pc'[q] = "third"
      BY <1>3, <2>2
    <3> QED
      BY <3>1, <3>2, <3>3, <3>4 DEF Held
  <2> QED
    BY <1>20, <2>1, <2>2 DEF Check
<1> QED
  BY <1>9, <1>10, <1>11, <1>12, <1>13, <1>14, <1>15, <1>16, <1>17, <1>18, <1>19, <1>20 DEF Step

LEMMA NextConnected == Inv /\ Connected /\ [Next]_vars => Connected'
<1> SUFFICES ASSUME Inv, Connected, [Next]_vars PROVE Connected'
  OBVIOUS
<1>1. ASSUME NEW q \in Req, Arrive(q) \/ Step(q) PROVE Connected'
  <2> SUFFICES ASSUME NEW r \in Req
               PROVE  /\ pc'[r] \in Talking => \E c \in Conn : owner'[c] = r
                      /\ pc'[r] = "check" =>
                            \E c, d \in Conn : c # d /\ owner'[c] = r /\ owner'[d] = r
    BY DEF Connected, Talking
  <2>1. CASE r = q
    BY <1>1, <2>1, StepConnections
  <2>2. CASE r # q
    <3>1. pc'[r] = pc[r]
      BY <1>1, <2>2, StepFrame
    <3>2. \A c \in Conn : owner[c] = r => owner'[c] = r
      BY <1>1, <2>2, StepConnections
    <3> QED
      BY <3>1, <3>2 DEF Connected
  <2> QED
    BY <2>1, <2>2
<1>2. CASE UNCHANGED vars
  BY <1>2 DEF vars, Connected, Talking
<1> QED
  BY <1>1, <1>2 DEF Next

\* The e-mail index is waited for by connected requests only, so that the waits
\* for it close a circle when nobody who has a connection can go on: a smallest
\* set of connections whose requests wait for one another inside it is a deadlock.
LEMMA IndexCircle ==
    ASSUME NEW D \in SUBSET Conn, D # {},
           \A c \in D : owner[c] \in Req /\ pc[owner[c]] = "index",
           \A c \in D : \E d \in D : owner[d] \in WaitsFor(owner[c])
    PROVE  \E q \in Req : Deadlocked(q)
<1> DEFINE Waits(E) == /\ E # {}
                       /\ \A c \in E : owner[c] \in Req /\ pc[owner[c]] = "index"
                       /\ \A c \in E : \E d \in E : owner[d] \in WaitsFor(owner[c])
           T == {E \in SUBSET Conn : Waits(E)}
           R == StrictSubsetOrdering(Conn)
<1>1. IsWellFoundedOn(R, SUBSET Conn)
  BY PoolAssumption, FS_StrictSubsetOrderingWellFounded, FS_FiniteSubsetsOfFinite
<1>2. D \in T
  OBVIOUS
<1> HIDE DEF R
<1>3. \E E \in T : \A F \in T : ~(<<F, E>> \in R)
  <2>1. T \subseteq SUBSET Conn /\ T # {}
    BY <1>2
  <2> HIDE DEF T
  <2> QED
    BY <1>1, <2>1, WFMin
<1>4. PICK E \in T : \A F \in T : ~(<<F, E>> \in R)
  BY <1>3
<1>5. E \in SUBSET Conn /\ Waits(E)
  OBVIOUS
<1> DEFINE S == {owner[c] : c \in E}
<1>6. \A r \in S : S \cap WaitsFor(r) # {}
  BY <1>5
<1>7. ASSUME NEW r \in S, \A p \in S : r \notin WaitsFor(p) PROVE FALSE
  <2> DEFINE F == {c \in E : owner[c] # r}
  <2>1. r \notin WaitsFor(r)
    BY DEF WaitsFor
  <2>2. F # {}
    BY <1>5, <1>7, <2>1
  <2>3. \A c \in F : \E d \in F : owner[d] \in WaitsFor(owner[c])
    BY <1>5, <1>7
  <2>4. F \in T
    BY <1>5, <2>2, <2>3
  <2>5. F \subseteq E /\ F # E /\ F \in SUBSET Conn /\ E \in SUBSET Conn
    BY <1>5
  <2>6. <<F, E>> \in R
    BY <2>5 DEF R, StrictSubsetOrdering
  <2> QED
    BY <1>4, <2>4, <2>6
<1>8. S \in SUBSET {r \in Req : pc[r] = "index"} /\ S # {}
  BY <1>5
<1>9. \A r \in S : Deadlocked(r)
  BY <1>6, <1>7, <1>8 DEF Deadlocked
<1> QED
  BY <1>8, <1>9

LEMMA AdminsOnly == Inv /\ Connected => OnlyAdminsHoldAndWait
<1> SUFFICES ASSUME Inv, Connected, \A c \in Conn : owner[c] # None /\ Blocked(owner[c]),
                    NEW c0 \in Conn, pc[owner[c0]] \notin {"second", "third"}
             PROVE  \E q \in Req : Deadlocked(q)
  BY DEF OnlyAdminsHoldAndWait
<1> DEFINE D == {c \in Conn : pc[owner[c]] = "index"}
<1>1. \A c \in Conn : /\ owner[c] \in Req
                      /\ pc[owner[c]] \in {"second", "third", "row", "index"}
  <2> SUFFICES ASSUME NEW c \in Conn
               PROVE  owner[c] \in Req /\ pc[owner[c]] \in {"second", "third", "row", "index"}
    OBVIOUS
  <2>1. owner[c] \in Req /\ pc[owner[c]] \notin {"connect", "reconnect"}
    BY DEF Inv, TypeOK, NoneKeptWhileHashing
  <2> QED
    BY <2>1 DEF Blocked, Waiting
<1>2. ASSUME NEW q \in Req, pc[q] \in {"index", "commit"}
      PROVE  \E d \in D : owner[d] = q
  <2>1. PICK d \in Conn : owner[d] = q
    BY <1>2 DEF Connected, Talking
  <2> QED
    BY <1>1, <1>2, <2>1
<1>3. D # {}
  <2>1. CASE pc[owner[c0]] = "index"
    BY <2>1
  <2>2. CASE pc[owner[c0]] = "row"
    <3>1. \E q \in Req : pc[q] \in {"index", "commit"}
      BY <2>2 DEF Blocked, Waiting, Writers
    <3> QED
      BY <1>2, <3>1
  <2> QED
    BY <1>1, <2>1, <2>2
<1>4. ASSUME NEW c \in D PROVE \E d \in D : owner[d] \in WaitsFor(owner[c])
  <2>1. owner[c] \in Req /\ WaitsFor(owner[c]) # {}
    BY <1>1, <1>4 DEF Blocked, Waiting
  <2>2. PICK r \in WaitsFor(owner[c]) : TRUE
    BY <2>1
  <2>3. r \in Req /\ pc[r] \in {"index", "commit"}
    BY <2>2 DEF WaitsFor, Writers
  <2> QED
    BY <1>2, <2>2, <2>3
<1>5. D \in SUBSET Conn /\ \A c \in D : owner[c] \in Req /\ pc[owner[c]] = "index"
  BY <1>1
<1> HIDE DEF D
<1> QED
  BY <1>3, <1>4, <1>5, IndexCircle

-----------------------------------------------------------------------------
(* The theorems about where fields and connections are.                    *)

\* All of it is an invariant.
THEOREM InductiveHolds == Spec => []Inductive
<1>1. Init => Inductive
  <2>1. Init => Connected
    BY DEF Init, Connected, Talking
  <2> QED
    BY <2>1, InitInv, InitHistory DEF Inductive
<1>2. Inductive /\ [Next]_vars => Inductive'
  BY NextInv, NextHistory, NextConnected DEF Inductive
<1> QED
  BY <1>1, <1>2, PTL DEF Spec

\* Only the fields in a request are changed: what an account shows is how it began,
\* or what a committed edit of that field asked for.
THEOREM FieldsHaveWritersHolds == Spec => []FieldsHaveWriters
<1>1. Inductive => FieldsHaveWriters
  BY DEF Inductive, History
<1> QED
  BY <1>1, InductiveHolds, PTL

\* A 200 shows the edit, or what another edit of the account wrote since.
THEOREM ShowsTheEditHolds == Spec => []ShowsTheEdit
<1>1. Inductive => ShowsTheEdit
  BY DEF Inductive, History
<1> QED
  BY <1>1, InductiveHolds, PTL

\* A 409 is told only of an address that is, or was, somebody else's.
THEOREM TakenHolds == Spec => []TakenBySomebodyElse
<1>1. Inductive => TakenBySomebodyElse
  BY DEF Inductive, History
<1> QED
  BY <1>1, InductiveHolds, PTL

\* When nobody who has a connection can go on, all are administrators waiting for
\* another, or PostgreSQL has a deadlock to end.
THEOREM AdminsOnlyHolds == Spec => []OnlyAdminsHoldAndWait
<1>1. Inductive => OnlyAdminsHoldAndWait
  BY AdminsOnly DEF Inductive
<1> QED
  BY <1>1, InductiveHolds, PTL
=============================================================================
