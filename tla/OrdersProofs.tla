---------------------------- MODULE OrdersProofs ----------------------------
(***************************************************************************)
(* Theorems about Orders: the inductive invariant, and the properties that *)
(* follow from it, for all orders, requests, menus and dying workers.      *)
(***************************************************************************)
EXTENDS Orders, SequenceTheorems, TLAPS

\* The changes that TRANSITIONS allows go forward, and Later is closed under
\* them: an order never gets back to a status it has left.
LEMMA Forward ==
    /\ \A s \in OrderStatus : TRANSITIONS[s] \subseteq Later[s] /\ s \notin Later[s]
    /\ \A s, t \in OrderStatus : t \in Later[s] =>
          t # s /\ TRANSITIONS[t] \subseteq Later[s] /\ Later[t] \subseteq Later[s]
    /\ \A s \in OrderStatus : TRANSITIONS[s] \subseteq OrderStatus
BY DEF OrderStatus, TRANSITIONS, Later

\* The lines that create_order builds are lines of an order.
LEMMA PricedType ==
    ASSUME NEW c \in Placing, NEW menu \in Menus, MenuRefusal(c, menu) = 0
    PROVE  Priced(c, menu) \in Seq(Line)
<1> DEFINE is == c.items
<1>1. is \in Seq(Item)
  BY DEF Placing
<1>2. menu \in [Product -> {None} \cup Document]
  BY DataAssumption
<1>3. ASSUME NEW i \in DOMAIN is
      PROVE  [product |-> is[i].product, price |-> menu[is[i].product].price,
              quantity |-> is[i].quantity] \in Line
  <2>1. is[i] \in Item
    BY <1>1
  <2>2. is[i].product \in Product /\ is[i].quantity \in 1 .. 50
    BY <2>1 DEF Item
  <2>3. menu[is[i].product] # None
    BY DEF MenuRefusal
  <2>4. menu[is[i].product] \in Document
    BY <1>2, <2>2, <2>3
  <2>5. menu[is[i].product].price \in Nat
    BY <2>4 DEF Document
  <2> QED
    BY <2>2, <2>5 DEF Line
<1>4. Priced(c, menu) \in [1 .. Len(is) -> Line]
  BY <1>1, <1>3 DEF Priced
<1> QED
  BY <1>1, <1>4

-----------------------------------------------------------------------------

\* The initial state satisfies the invariant.
LEMMA InitInv == Init => Inv
<1> SUFFICES ASSUME Init PROVE Inv
  OBVIOUS
<1> USE DEF Init, Req, Id
<1>1. TypeOK
  <2>1. orders \in [Id -> {None} \cup Order]
    <3>1. ASSUME NEW o \in Seed
          PROVE  [status |-> Stored[o], restaurant |-> 0, lines |-> <<>>] \in Order
      <4>1. Stored[o] \in OrderStatus
        BY DataAssumption
      <4>2. <<>> \in Seq(Line)
        OBVIOUS
      <4> QED
        BY <4>1, <4>2 DEF Order
    <3> QED
      BY <3>1
  <2>2. \A o \in Placer : orders[o] = None
    BY RequestAssumption
  <2> QED
    BY <2>1, <2>2 DEF TypeOK
<1>2. \A o \in Placer : orders[o] = None
  BY RequestAssumption
<1>3. Applied = {}
  BY DEF Applied
<1> QED
  BY <1>1, <1>2, <1>3
  DEF Inv, Stages, Placed, Locked, Allowed, ChangesFormAPath, AnswersMatchOrders,
      EventsHaveOrders

-----------------------------------------------------------------------------
(* Every action preserves the invariant.                                   *)

\* What a request on its way asks for.
LEMMA CallType ==
    ASSUME Inv
    PROVE  /\ \A q \in Placer : pc[q] # "idle" => call[q] \in Placing
           /\ \A q \in Mover : pc[q] # "idle" =>
                call[q] \in Moving /\ call[q].order \in Id /\ call[q].to \in OrderStatus
<1>1. \A q \in Placer : pc[q] # "idle" => call[q] \in Placing
  BY DEF Inv, TypeOK, Stages, Req
<1>2. \A q \in Mover : pc[q] # "idle" => call[q] \in Moving
  BY RequestAssumption DEF Inv, TypeOK, Stages, Req
<1>3. \A c \in Moving : c.order \in Id /\ c.to \in OrderStatus
  BY DEF Moving
<1> QED
  BY <1>1, <1>2, <1>3

\* A step that changes no stored order leaves the path of its changes.
LEMMA Quiet ==
    ASSUME Inv, \A o \in Id : orders[o] # None => orders'[o] = orders[o],
           Applied' = Applied,
           \A q \in Applied : call'[q] = call[q] /\ seen'[q] = seen[q]
    PROVE  Allowed' /\ ChangesFormAPath'
<1>1. ASSUME NEW q \in Applied
      PROVE  orders'[call[q].order] = orders[call[q].order]
  <2>1. q \in Mover /\ pc[q] # "idle"
    BY DEF Applied
  <2>2. call[q].order \in Id
    BY <2>1, CallType
  <2>3. orders[call[q].order] # None
    BY DEF Inv, Allowed
  <2> QED
    BY <2>2, <2>3
<1>2. Allowed'
  BY <1>1 DEF Inv, Allowed
<1>3. ChangesFormAPath'
  BY <1>1 DEF Inv, ChangesFormAPath
<1> QED
  BY <1>2, <1>3

\* A step that changes no stored order, and is none of a request with a lock
\* then or now, leaves the locks.
LEMMA Free ==
    ASSUME Inv, \A o \in Id : orders[o] # None => orders'[o] = orders[o],
           \A q \in Mover : pc'[q] \in {"decide", "commit"} =>
               pc'[q] = pc[q] /\ call'[q] = call[q] /\ seen'[q] = seen[q]
    PROVE  Locked'
<1>1. ASSUME NEW q \in Mover, pc'[q] \in {"decide", "commit"}
      PROVE  orders'[call[q].order] = orders[call[q].order]
  <2>1. call[q].order \in Id
    BY <1>1, CallType
  <2>2. orders[call[q].order] # None
    BY <1>1 DEF Inv, Locked
  <2> QED
    BY <2>1, <2>2
<1> QED
  BY <1>1 DEF Inv, Locked

\* An answer is no None.
LEMMA Answers ==
    ASSUME NEW code \in {200, 201, 400, 403, 404, 409, 500}, NEW status \in {None} \cup OrderStatus
    PROVE  /\ [code |-> code, status |-> status] \in Reply
           /\ [code |-> code, status |-> status] # None
BY NoneAssumption DEF Reply

LEMMA ArriveInv == ASSUME Inv, NEW q \in Req, Arrive(q) PROVE Inv'
<1> PICK c \in Plan[q] :
       /\ call' = [call EXCEPT ![q] = c]
       /\ IF q \in Placer THEN Goto(q, "verify") /\ UNCHANGED reply
          ELSE IF c.user \in Staff THEN Goto(q, "lock") /\ UNCHANGED reply
          ELSE Send(q, 403, None)
  BY DEF Arrive
<1>1. /\ pc[q] = "idle"
      /\ UNCHANGED <<orders, events, lines, seen>>
  BY DEF Arrive
<1>2. c \in IF q \in Placer THEN Placing ELSE Moving
  BY PlanAssumption DEF Req
<1>3. c # None
  BY <1>2, NoneAssumption
<1> DEFINE r == [code |-> 403, status |-> None]
<1>r. r \in Reply /\ r # None
  BY Answers
<1>4. TypeOK'
  <2>1. /\ call' \in [Req -> {None} \cup Placing \cup Moving]
        /\ \A p \in Req : call'[p] \in {None} \cup IF p \in Placer THEN Placing ELSE Moving
    BY <1>2 DEF Inv, TypeOK
  <2>2. reply' \in [Req -> {None} \cup Reply]
    BY <1>r DEF Inv, TypeOK, Send
  <2> QED
    BY <1>1, <2>1, <2>2 DEF Inv, TypeOK, Goto, Send
<1>5. Stages'
  BY <1>1, <1>3, <1>r, RequestAssumption DEF Inv, TypeOK, Stages, Goto, Send, Req
<1>6. Placed'
  BY <1>1 DEF Inv, TypeOK, Placed, Goto, Send, Req
<1>7. Locked'
  BY <1>1, Free DEF Inv, TypeOK, Goto, Send, Req
<1>8. Applied' = Applied
  BY <1>1 DEF Inv, TypeOK, Applied, Goto, Send, Req
<1>9. Allowed' /\ ChangesFormAPath'
  BY <1>1, <1>8, Quiet DEF Inv, TypeOK, Applied, Req
<1>10. AnswersMatchOrders' /\ EventsHaveOrders'
  BY <1>1, RequestAssumption
  DEF Inv, TypeOK, AnswersMatchOrders, EventsHaveOrders, Goto, Send, Req
<1> QED
  BY <1>4, <1>5, <1>6, <1>7, <1>9, <1>10 DEF Inv

\* A refusal: of a placing request before it has stored anything, of a moving
\* one with its lock given back.
LEMMA FailInv ==
    ASSUME Inv, NEW code \in {400, 403, 404, 409, 500}, NEW q \in Req, Fail(q, code),
           \/ q \in Placer /\ pc[q] \in {"verify", "find", "save"}
           \/ q \in Mover /\ pc[q] \in {"lock", "decide"} /\ code # 500
    PROVE  Inv'
<1> DEFINE r == [code |-> code, status |-> None]
<1>1. /\ pc' = [pc EXCEPT ![q] = "done"]
      /\ reply' = [reply EXCEPT ![q] = r]
      /\ UNCHANGED <<orders, events, call, lines, seen>>
  BY DEF Fail, Send, Goto
<1>2. r \in Reply /\ r # None /\ r.code = code
  BY Answers
<1> HIDE DEF r
<1>3. TypeOK'
  BY <1>1, <1>2 DEF Inv, TypeOK
<1>4. Stages'
  BY <1>1, <1>2, RequestAssumption DEF Inv, TypeOK, Stages, Req
<1>5. Placed'
  BY <1>1 DEF Inv, TypeOK, Placed, Req
<1>6. Locked'
  BY <1>1, Free DEF Inv, TypeOK, Req
<1>7. Applied' = Applied
  BY <1>1, <1>2, RequestAssumption DEF Inv, TypeOK, Applied, Req
<1>8. Allowed' /\ ChangesFormAPath'
  BY <1>1, <1>7, Quiet
<1>9. AnswersMatchOrders'
  <2>1. ASSUME q \in Placer PROVE orders[q] = None /\ seen[q] = None
    <3>1. q \notin Mover
      BY <2>1, RequestAssumption
    <3>2. pc[q] \in {"verify", "find", "save"}
      BY <3>1
    <3> QED
      BY <2>1, <3>2 DEF Inv, Placed
  <2>2. \A p \in Placer : reply'[p] = IF p = q THEN r ELSE reply[p]
    BY <1>1 DEF Inv, TypeOK, Req
  <2>3. code # 201
    OBVIOUS
  <2> QED
    BY <1>1, <1>2, <2>1, <2>2, <2>3 DEF Inv, AnswersMatchOrders
<1>10. EventsHaveOrders'
  BY <1>1 DEF Inv, EventsHaveOrders
<1> QED
  BY <1>3, <1>4, <1>5, <1>6, <1>8, <1>9, <1>10 DEF Inv

\* A placing request goes on, and has stored nothing yet.
LEMMA AdvanceInv ==
    ASSUME Inv, NEW q \in Placer, NEW s \in {"find", "save"}, Goto(q, s),
           pc[q] \in {"verify", "find"}, lines' \in [Placer -> Seq(Line)],
           \A p \in Placer \ {q} : lines'[p] = lines[p],
           UNCHANGED <<orders, events, call, seen, reply>>
    PROVE  Inv'
<1>1. TypeOK'
  BY DEF Inv, TypeOK, Goto
<1>2. Stages'
  BY RequestAssumption DEF Inv, TypeOK, Stages, Goto, Req
<1>3. Placed'
  BY DEF Inv, TypeOK, Placed, Goto, Req
<1>4. Locked'
  BY RequestAssumption, Free DEF Inv, TypeOK, Goto, Req
<1>5. Applied' = Applied
  BY RequestAssumption DEF Inv, TypeOK, Applied, Goto, Req
<1>6. Allowed' /\ ChangesFormAPath'
  BY <1>5, Quiet
<1>7. AnswersMatchOrders'
  BY DEF Inv, Stages, AnswersMatchOrders, Req
<1>8. EventsHaveOrders'
  BY DEF Inv, EventsHaveOrders
<1> QED
  BY <1>1, <1>2, <1>3, <1>4, <1>6, <1>7, <1>8 DEF Inv

LEMMA VerifyInv == ASSUME Inv, NEW q \in Placer, Verify(q) PROVE Inv'
<1>1. CASE PlacingRefusal(call[q]) # 0
  <2>1. PlacingRefusal(call[q]) \in {403, 404}
    BY <1>1 DEF PlacingRefusal
  <2> QED
    BY <1>1, <2>1, FailInv DEF Verify, Req
<1>2. CASE PlacingRefusal(call[q]) = 0
  BY <1>2, AdvanceInv DEF Verify, Inv, TypeOK
<1> QED
  BY <1>1, <1>2

LEMMA FindInv == ASSUME Inv, NEW q \in Placer, Find(q) PROVE Inv'
<1> PICK menu \in Menus :
      IF MenuRefusal(call[q], menu) # 0 THEN Fail(q, MenuRefusal(call[q], menu))
      ELSE /\ lines' = [lines EXCEPT ![q] = Priced(call[q], menu)]
           /\ Goto(q, "save")
           /\ UNCHANGED <<orders, events, call, seen, reply>>
  BY DEF Find
<1>1. CASE MenuRefusal(call[q], menu) # 0
  <2>1. MenuRefusal(call[q], menu) \in {400, 404, 409}
    BY <1>1 DEF MenuRefusal
  <2> QED
    BY <1>1, <2>1, FailInv DEF Find, Req
<1>2. CASE MenuRefusal(call[q], menu) = 0
  <2>1. call[q] \in Placing
    BY CallType DEF Find
  <2>2. Priced(call[q], menu) \in Seq(Line)
    BY <1>2, <2>1, PricedType
  <2>3. /\ lines' \in [Placer -> Seq(Line)]
        /\ \A p \in Placer \ {q} : lines'[p] = lines[p]
    BY <1>2, <2>2 DEF Inv, TypeOK
  <2> QED
    BY <1>2, <2>3, AdvanceInv DEF Find
<1> QED
  BY <1>1, <1>2

LEMMA SaveInv == ASSUME Inv, NEW q \in Placer, Save(q) PROVE Inv'
<1>1. CASE ~(Total(lines[q]) <= MaxTotal)
  BY <1>1, FailInv DEF Save, Req
<1>2. CASE Total(lines[q]) <= MaxTotal
  <2>1. /\ pc[q] = "save"
        /\ orders' = [orders EXCEPT ![q] = NewOrder(q)]
        /\ pc' = [pc EXCEPT ![q] = "refresh"]
        /\ UNCHANGED <<events, call, lines, seen, reply>>
    BY <1>2 DEF Save, Goto
  <2>2. NewOrder(q) \in Order
    <3>1. call[q].restaurant \in Nat
      BY <2>1, CallType DEF Placing
    <3> QED
      BY <3>1 DEF NewOrder, Order, OrderStatus, Inv, TypeOK
  <2>3. NewOrder(q) # None /\ NewOrder(q).lines = lines[q]
    BY <2>2, NoneAssumption DEF NewOrder
  <2>4. orders[q] = None
    BY <2>1 DEF Inv, Placed
  <2>5. /\ orders' \in [Id -> {None} \cup Order]
        /\ orders'[q] = NewOrder(q)
        /\ \A o \in Id \ {q} : orders'[o] = orders[o]
        /\ \A o \in Id : orders[o] # None => orders'[o] = orders[o]
    BY <2>1, <2>2, <2>4 DEF Inv, TypeOK, Id
  <2>6. TypeOK'
    <3>1. ASSUME NEW o \in Placer, orders'[o] # None
          PROVE  Total(orders'[o].lines) <= MaxTotal
      <4>1. CASE o = q
        BY <1>2, <2>3, <2>5, <4>1
      <4>2. CASE o # q
        BY <2>5, <3>1, <4>2 DEF Inv, TypeOK, Id
      <4> QED
        BY <4>1, <4>2
    <3> QED
      BY <2>1, <2>5, <3>1 DEF Inv, TypeOK
  <2>7. Stages'
    BY <2>1, RequestAssumption DEF Inv, TypeOK, Stages, Req
  <2>8. Placed'
    BY <2>1, <2>3, <2>5 DEF Inv, TypeOK, Placed, Req, Id
  <2>9. Locked'
    BY <2>1, <2>5, RequestAssumption, Free DEF Inv, TypeOK, Req
  <2>10. Applied' = Applied
    BY <2>1, RequestAssumption DEF Inv, TypeOK, Applied, Req
  <2>11. Allowed' /\ ChangesFormAPath'
    BY <2>1, <2>5, <2>10, Quiet
  <2>12. AnswersMatchOrders'
    BY <2>1, <2>5 DEF Inv, Stages, AnswersMatchOrders, Req, Id
  <2>13. EventsHaveOrders'
    BY <2>1, <2>5 DEF Inv, TypeOK, EventsHaveOrders
  <2> QED
    BY <2>6, <2>7, <2>8, <2>9, <2>11, <2>12, <2>13 DEF Inv
<1> QED
  BY <1>1, <1>2

LEMMA RefreshInv == ASSUME Inv, NEW q \in Placer, Refresh(q) PROVE Inv'
<1>1. /\ pc[q] = "refresh"
      /\ seen' = [seen EXCEPT ![q] = orders[q].status]
      /\ pc' = [pc EXCEPT ![q] = "note"]
      /\ UNCHANGED <<orders, events, call, lines, reply>>
  BY DEF Refresh, Goto
<1>2. orders[q] # None
  BY <1>1 DEF Inv, Placed
<1>3. orders[q].status \in OrderStatus
  <2>1. orders[q] \in Order
    BY <1>2 DEF Inv, TypeOK, Id
  <2> QED
    BY <2>1 DEF Order
<1>4. orders[q].status # None
  BY <1>3, NoneAssumption
<1>5. TypeOK'
  BY <1>1, <1>3 DEF Inv, TypeOK
<1>6. Stages'
  BY <1>1, RequestAssumption DEF Inv, TypeOK, Stages, Req
<1>7. Placed'
  BY <1>1, <1>2, <1>4 DEF Inv, TypeOK, Placed, Req
<1>8. Locked'
  BY <1>1, RequestAssumption, Free DEF Inv, TypeOK, Req
<1>9. Applied' = Applied
  BY <1>1, RequestAssumption DEF Inv, TypeOK, Applied, Req
<1>10. Allowed' /\ ChangesFormAPath'
  BY <1>1, <1>9, RequestAssumption, Quiet DEF Applied
<1>11. AnswersMatchOrders' /\ EventsHaveOrders'
  <2>1. reply[q] = None
    BY <1>1 DEF Inv, Stages, Req
  <2> QED
    BY <1>1, <2>1 DEF Inv, TypeOK, AnswersMatchOrders, EventsHaveOrders, Req
<1> QED
  BY <1>5, <1>6, <1>7, <1>8, <1>10, <1>11 DEF Inv

LEMMA NoteInv == ASSUME Inv, NEW q \in Placer, Note(q) PROVE Inv'
<1> DEFINE r == [code |-> 201, status |-> seen[q]]
<1>1. /\ pc[q] = "note"
      /\ events' \in {events, events \cup {q}}
      /\ pc' = [pc EXCEPT ![q] = "done"]
      /\ reply' = [reply EXCEPT ![q] = r]
      /\ UNCHANGED <<orders, call, lines, seen>>
  BY DEF Note, Send, Goto
<1>2. r \in Reply /\ r # None /\ r.code = 201
  <2>1. seen[q] \in {None} \cup OrderStatus
    BY DEF Inv, TypeOK, Req
  <2> QED
    BY <2>1, Answers
<1> HIDE DEF r
<1>3. orders[q] # None
  BY <1>1 DEF Inv, Placed
<1>4. TypeOK'
  <2>1. events' \subseteq Id
    BY <1>1 DEF Inv, TypeOK, Id
  <2> QED
    BY <1>1, <1>2, <2>1 DEF Inv, TypeOK
<1>5. Stages'
  BY <1>1, <1>2, RequestAssumption DEF Inv, TypeOK, Stages, Req
<1>6. Placed'
  BY <1>1 DEF Inv, TypeOK, Placed, Req
<1>7. Locked'
  BY <1>1, RequestAssumption, Free DEF Inv, TypeOK, Req
<1>8. Applied' = Applied
  BY <1>1, <1>2, RequestAssumption DEF Inv, TypeOK, Applied, Req
<1>9. Allowed' /\ ChangesFormAPath'
  BY <1>1, <1>8, Quiet
<1>10. AnswersMatchOrders' /\ EventsHaveOrders'
  BY <1>1, <1>2, <1>3 DEF Inv, TypeOK, AnswersMatchOrders, EventsHaveOrders, Req
<1> QED
  BY <1>4, <1>5, <1>6, <1>7, <1>9, <1>10 DEF Inv

LEMMA LockInv == ASSUME Inv, NEW q \in Mover, Lock(q) PROVE Inv'
<1> DEFINE o == call[q].order
<1>1. CASE orders[o] = None
  BY <1>1, FailInv DEF Lock, Req
<1>2. CASE orders[o] # None
  <2>1. /\ pc[q] = "lock"
        /\ Holders(o) = {}
        /\ seen' = [seen EXCEPT ![q] = orders[o].status]
        /\ pc' = [pc EXCEPT ![q] = "decide"]
        /\ UNCHANGED <<orders, events, call, lines, reply>>
    BY <1>2 DEF Lock, Goto
  <2>2. o \in Id
    BY <2>1, CallType
  <2> HIDE DEF o
  <2>3. orders[o].status \in OrderStatus
    <3>1. orders[o] \in Order
      BY <1>2, <2>2 DEF Inv, TypeOK
    <3> QED
      BY <3>1 DEF Order
  <2>4. TypeOK'
    BY <2>1, <2>3 DEF Inv, TypeOK
  <2>5. Stages'
    BY <2>1, RequestAssumption DEF Inv, TypeOK, Stages, Req
  <2>6. Placed'
    BY <2>1, RequestAssumption DEF Inv, TypeOK, Placed, Req
  <2>7. Locked'
    <3> SUFFICES ASSUME NEW p \in Mover, pc'[p] \in {"decide", "commit"}
                 PROVE  /\ orders[call[p].order] # None
                        /\ orders[call[p].order].status = seen'[p]
                        /\ pc'[p] = "commit" => call[p].to \in TRANSITIONS[seen'[p]]
                        /\ \A r \in Mover \ {p} : pc'[r] \in {"decide", "commit"} =>
                              call[r].order # call[p].order
      BY <2>1 DEF Locked
    <3>1. CASE p = q
      <4>1. pc'[q] = "decide" /\ seen'[q] = orders[o].status
        BY <2>1 DEF Inv, TypeOK, Req
      <4>2. \A r \in Mover \ {q} : pc'[r] \in {"decide", "commit"} => call[r].order # o
        BY <2>1 DEF Holders, Inv, TypeOK, Req
      <4> QED
        BY <1>2, <3>1, <4>1, <4>2 DEF o
    <3>2. CASE p # q
      <4>1. pc'[p] = pc[p] /\ seen'[p] = seen[p]
        BY <2>1, <3>2 DEF Inv, TypeOK, Req
      <4>2. call[p].order # o
        BY <2>1, <4>1 DEF Holders
      <4>3. \A r \in Mover \ {q} : pc'[r] = pc[r]
        BY <2>1 DEF Inv, TypeOK, Req
      <4> QED
        BY <4>1, <4>2, <4>3 DEF o, Inv, Locked
    <3> QED
      BY <3>1, <3>2
  <2>8. Applied' = Applied
    BY <2>1 DEF Inv, TypeOK, Applied, Req
  <2>9. Allowed' /\ ChangesFormAPath'
    BY <2>1, <2>8, Quiet DEF Applied, Inv, TypeOK, Req
  <2>10. AnswersMatchOrders' /\ EventsHaveOrders'
    BY <2>1, RequestAssumption DEF Inv, TypeOK, AnswersMatchOrders, EventsHaveOrders, Req
  <2> QED
    BY <2>4, <2>5, <2>6, <2>7, <2>9, <2>10 DEF Inv
<1> QED
  BY <1>1, <1>2

LEMMA DecideInv == ASSUME Inv, NEW q \in Mover, Decide(q) PROVE Inv'
<1>1. CASE call[q].to \notin TRANSITIONS[seen[q]]
  BY <1>1, FailInv DEF Decide, Req
<1>2. CASE call[q].to \in TRANSITIONS[seen[q]]
  <2>1. /\ pc[q] = "decide"
        /\ pc' = [pc EXCEPT ![q] = "commit"]
        /\ UNCHANGED <<orders, events, call, lines, seen, reply>>
    BY <1>2 DEF Decide, Goto
  <2>2. TypeOK'
    BY <2>1 DEF Inv, TypeOK
  <2>3. Stages'
    BY <2>1, RequestAssumption DEF Inv, TypeOK, Stages, Req
  <2>4. Placed'
    BY <2>1, RequestAssumption DEF Inv, TypeOK, Placed, Req
  <2>5. Locked'
    BY <1>2, <2>1 DEF Inv, TypeOK, Locked, Req
  <2>6. Applied' = Applied
    BY <2>1 DEF Inv, TypeOK, Applied, Req
  <2>7. Allowed' /\ ChangesFormAPath'
    BY <2>1, <2>6, Quiet
  <2>8. AnswersMatchOrders' /\ EventsHaveOrders'
    BY <2>1 DEF Inv, AnswersMatchOrders, EventsHaveOrders
  <2> QED
    BY <2>2, <2>3, <2>4, <2>5, <2>7, <2>8 DEF Inv
<1> QED
  BY <1>1, <1>2

\* What a commit changes: the status of one order, from what its request has
\* seen to what it asks for.
LEMMA Committed ==
    ASSUME Inv, NEW q \in Mover, Commit(q)
    PROVE  /\ call[q].order \in Id /\ orders[call[q].order] # None
           /\ call[q].to \in OrderStatus /\ call[q].to \in TRANSITIONS[seen[q]]
           /\ orders[call[q].order].status = seen[q] /\ seen[q] \in OrderStatus
           /\ orders'[call[q].order] = [orders[call[q].order] EXCEPT !.status = call[q].to]
           /\ orders'[call[q].order].status = call[q].to
           /\ orders'[call[q].order].lines = orders[call[q].order].lines
           /\ orders'[call[q].order] # None
           /\ orders' \in [Id -> {None} \cup Order]
           /\ \A o \in Id \ {call[q].order} : orders'[o] = orders[o]
<1> DEFINE o == call[q].order
           new == [orders[o] EXCEPT !.status = call[q].to]
<1>1. pc[q] = "commit" /\ orders' = [orders EXCEPT ![o] = new]
  BY DEF Commit
<1>2. o \in Id /\ call[q].to \in OrderStatus
  BY <1>1, CallType
<1>3. /\ orders[o] # None
      /\ orders[o].status = seen[q]
      /\ call[q].to \in TRANSITIONS[seen[q]]
  BY <1>1 DEF Inv, Locked
<1> HIDE DEF o
<1>4. orders[o] \in Order
  BY <1>2, <1>3 DEF Inv, TypeOK
<1>5. new \in Order /\ new.status = call[q].to /\ new.lines = orders[o].lines
  BY <1>2, <1>4 DEF Order
<1>6. new # None
  BY <1>5, NoneAssumption
<1>7. seen[q] \in OrderStatus
  BY <1>3, <1>4 DEF Order
<1> HIDE DEF new
<1>8. /\ orders'[o] = new
      /\ orders' \in [Id -> {None} \cup Order]
      /\ \A i \in Id \ {o} : orders'[i] = orders[i]
  BY <1>1, <1>2, <1>5 DEF Inv, TypeOK
<1> QED
  BY <1>2, <1>3, <1>5, <1>6, <1>7, <1>8 DEF o, new

LEMMA CommitInv == ASSUME Inv, NEW q \in Mover, Commit(q) PROVE Inv'
<1> DEFINE o == call[q].order
           new == call[q].to
<1>1. /\ o \in Id /\ orders[o] # None
      /\ new \in OrderStatus /\ new \in TRANSITIONS[seen[q]]
      /\ orders[o].status = seen[q] /\ seen[q] \in OrderStatus
      /\ orders'[o].status = new
      /\ orders'[o].lines = orders[o].lines
      /\ orders'[o] # None
      /\ orders' \in [Id -> {None} \cup Order]
      /\ \A i \in Id \ {o} : orders'[i] = orders[i]
  BY Committed
<1>2. /\ pc[q] = "commit"
      /\ pc' = [pc EXCEPT ![q] = "reload"]
      /\ UNCHANGED <<events, call, lines, seen, reply>>
  BY DEF Commit, Goto
<1> HIDE DEF o, new
<1>3. TypeOK'
  <2>1. ASSUME NEW i \in Placer, orders'[i] # None
        PROVE  Total(orders'[i].lines) <= MaxTotal
    <3>1. orders[i] # None /\ orders'[i].lines = orders[i].lines
      BY <1>1, <2>1 DEF Id
    <3> QED
      BY <3>1 DEF Inv, TypeOK
  <2> QED
    BY <1>1, <1>2, <2>1 DEF Inv, TypeOK
<1>4. Stages'
  BY <1>2, RequestAssumption DEF Inv, TypeOK, Stages, Req
<1>5. \A i \in Id : orders'[i] = None <=> orders[i] = None
  BY <1>1
<1>6. Placed'
  BY <1>2, <1>5, RequestAssumption DEF Inv, TypeOK, Placed, Req, Id
<1>7. Locked'
  <2> SUFFICES ASSUME NEW p \in Mover, pc'[p] \in {"decide", "commit"}
               PROVE  /\ orders'[call[p].order] # None
                      /\ orders'[call[p].order].status = seen[p]
                      /\ pc'[p] = "commit" => call[p].to \in TRANSITIONS[seen[p]]
                      /\ \A r \in Mover \ {p} : pc'[r] \in {"decide", "commit"} =>
                            call[r].order # call[p].order
    BY <1>2 DEF Locked
  <2>1. p # q /\ pc'[p] = pc[p]
    BY <1>2 DEF Inv, TypeOK, Req
  <2>2. call[p].order # o /\ call[p].order \in Id
    BY <1>2, <2>1, CallType DEF o, Inv, Locked
  <2>3. orders'[call[p].order] = orders[call[p].order]
    BY <1>1, <2>2
  <2>4. \A r \in Mover : pc'[r] \in {"decide", "commit"} => pc'[r] = pc[r]
    BY <1>2 DEF Inv, TypeOK, Req
  <2> QED
    BY <2>1, <2>3, <2>4 DEF Inv, Locked
<1>8. Applied' = Applied \cup {q}
  BY <1>2 DEF Inv, TypeOK, Applied, Req
<1>9. Allowed'
  <2>1. ASSUME NEW p \in Applied PROVE orders'[call[p].order] # None
    <3>1. call[p].order \in Id
      BY CallType DEF Applied
    <3> QED
      BY <1>5, <3>1 DEF Inv, Allowed
  <2>2. seen[q] # None
    BY <1>1, NoneAssumption
  <2> QED
    BY <1>1, <1>2, <1>8, <2>1, <2>2 DEF o, new, Inv, Allowed
<1>10. ChangesFormAPath'
  \* The changes applied to the order so far lead to what q has seen.
  <2>1. ASSUME NEW p \in Applied, call[p].order = o
        PROVE  /\ seen[p] \in OrderStatus /\ call[p].to \in OrderStatus
               /\ seen[q] \in Later[seen[p]]
               /\ seen[q] \in {call[p].to} \cup Later[call[p].to]
    <3>1. p \in Mover /\ pc[p] # "idle"
      BY DEF Applied
    <3>2. seen[p] \in OrderStatus
      BY <3>1 DEF Inv, TypeOK, Allowed, Req
    <3> QED
      BY <1>1, <2>1, <3>1, <3>2, CallType DEF Inv, ChangesFormAPath
  <2>2. ASSUME NEW q1 \in Applied', NEW q2 \in Applied', q1 # q2, call[q1].order = call[q2].order
        PROVE  seen[q1] # seen[q2]
    <3>1. CASE q1 \in Applied /\ q2 \in Applied
      BY <2>2, <3>1 DEF Inv, ChangesFormAPath
    <3>2. ASSUME NEW p \in Applied, call[p].order = o PROVE seen[q] # seen[p]
      BY <1>1, <2>1, <3>2, Forward
    <3> QED
      BY <1>8, <2>2, <3>1, <3>2 DEF o
  <2>3. ASSUME NEW p \in Applied'
        PROVE  /\ orders'[call[p].order].status \in Later[seen[p]]
               /\ orders'[call[p].order].status \in {call[p].to} \cup Later[call[p].to]
    <3>1. CASE p = q
      <4>1. new \in Later[seen[q]]
        BY <1>1, Forward
      <4> QED
        BY <1>1, <3>1, <4>1 DEF o, new
    <3>2. CASE p \in Applied /\ call[p].order = o
      <4>1. /\ new \in Later[seen[p]]
            /\ new \in Later[call[p].to]
        BY <1>1, <2>1, <3>2, Forward
      <4> QED
        BY <1>1, <3>2, <4>1
    <3>3. CASE p \in Applied /\ call[p].order # o
      <4>1. orders'[call[p].order] = orders[call[p].order]
        BY <1>1, <3>3, CallType DEF Applied
      <4> QED
        BY <3>3, <4>1 DEF Inv, ChangesFormAPath
    <3> QED
      BY <1>8, <3>1, <3>2, <3>3
  <2> QED
    BY <1>2, <2>2, <2>3 DEF ChangesFormAPath
<1>11. AnswersMatchOrders'
  BY <1>2, <1>5 DEF Inv, AnswersMatchOrders, Id
<1>12. EventsHaveOrders'
  <2>1. events \subseteq Id
    BY DEF Inv, TypeOK, Id
  <2> QED
    BY <1>2, <1>5, <2>1 DEF Inv, EventsHaveOrders
<1> QED
  BY <1>3, <1>4, <1>6, <1>7, <1>9, <1>10, <1>11, <1>12 DEF Inv

LEMMA ReloadInv == ASSUME Inv, NEW q \in Mover, Reload(q) PROVE Inv'
<1> DEFINE r == [code |-> 200, status |-> orders[call[q].order].status]
<1>1. /\ pc[q] = "reload"
      /\ pc' = [pc EXCEPT ![q] = "done"]
      /\ reply' = [reply EXCEPT ![q] = r]
      /\ UNCHANGED <<orders, events, call, lines, seen>>
  BY DEF Reload, Send, Goto
<1>2. r \in Reply /\ r # None /\ r.code = 200
  <2>1. call[q].order \in Id /\ orders[call[q].order] # None
    BY <1>1, CallType DEF Applied, Inv, Allowed
  <2>2. orders[call[q].order] \in Order
    BY <2>1 DEF Inv, TypeOK
  <2>3. orders[call[q].order].status \in OrderStatus
    BY <2>2 DEF Order
  <2> QED
    BY <2>3, Answers
<1> HIDE DEF r
<1>3. TypeOK'
  BY <1>1, <1>2 DEF Inv, TypeOK
<1>4. Stages'
  BY <1>1, <1>2, RequestAssumption DEF Inv, TypeOK, Stages, Req
<1>5. Placed'
  BY <1>1, RequestAssumption DEF Inv, TypeOK, Placed, Req
<1>6. Locked'
  BY <1>1, Free DEF Inv, TypeOK, Req
<1>7. Applied' = Applied
  BY <1>1, <1>2 DEF Inv, TypeOK, Applied, Req
<1>8. Allowed' /\ ChangesFormAPath'
  BY <1>1, <1>7, Quiet
<1>9. AnswersMatchOrders' /\ EventsHaveOrders'
  BY <1>1, RequestAssumption DEF Inv, TypeOK, AnswersMatchOrders, EventsHaveOrders, Req
<1> QED
  BY <1>3, <1>4, <1>5, <1>6, <1>8, <1>9 DEF Inv

\* A request whose statement raises: one that has placed its order leaves it, and
\* one that has changed a status leaves the change.
LEMMA RaiseInv == ASSUME Inv, NEW q \in Req, Raise(q) PROVE Inv'
<1> DEFINE r == [code |-> 500, status |-> None]
<1>1. /\ pc[q] \notin {"idle", "note", "done", "lost"}
      /\ pc' = [pc EXCEPT ![q] = "done"]
      /\ reply' = [reply EXCEPT ![q] = r]
      /\ seen' = [seen EXCEPT ![q] = IF pc[q] \in {"decide", "commit"} THEN None ELSE seen[q]]
      /\ UNCHANGED <<orders, events, call, lines>>
  BY DEF Raise, Send, Goto
<1>2. r \in Reply /\ r # None /\ r.code = 500
  BY Answers
<1> HIDE DEF r
<1>3. TypeOK'
  BY <1>1, <1>2 DEF Inv, TypeOK
<1>4. Stages'
  BY <1>1, <1>2, RequestAssumption DEF Inv, TypeOK, Stages, Req
<1>5. Placed'
  BY <1>1 DEF Inv, TypeOK, Placed, Req
<1>6. Locked'
  BY <1>1, Free DEF Inv, TypeOK, Req
<1>7. Applied' = Applied /\ \A p \in Applied : seen'[p] = seen[p]
  <2>1. reply'[q] = r /\ pc'[q] = "done"
    BY <1>1 DEF Inv, TypeOK
  <2>2. \A p \in Req \ {q} : reply'[p] = reply[p] /\ pc'[p] = pc[p] /\ seen'[p] = seen[p]
    BY <1>1 DEF Inv, TypeOK
  <2>3. ASSUME q \in Mover PROVE q \in Applied' <=> q \in Applied
    <3>1. pc[q] = "lock" => seen[q] = None
      BY <2>3 DEF Inv, Stages
    <3>2. pc[q] = "reload" => seen[q] # None
      BY <2>3 DEF Inv, Allowed, Applied
    <3>3. pc[q] \in {"lock", "decide", "commit", "reload"}
      BY <1>1, <2>3 DEF Inv, Stages
    <3>4. seen'[q] = IF pc[q] \in {"decide", "commit"} THEN None ELSE seen[q]
      BY <1>1 DEF Inv, TypeOK
    <3> QED
      BY <1>2, <2>1, <2>3, <3>1, <3>2, <3>3, <3>4 DEF Applied
  <2>4. \A p \in Mover \ {q} : p \in Applied' <=> p \in Applied
    BY <2>2 DEF Applied, Req
  <2>5. ASSUME q \in Applied PROVE seen'[q] = seen[q]
    BY <1>1, <2>5 DEF Applied, Inv, TypeOK
  <2> QED
    BY <2>2, <2>3, <2>4, <2>5 DEF Applied, Req
<1>8. Allowed' /\ ChangesFormAPath'
  BY <1>1, <1>7, Quiet
<1>9. AnswersMatchOrders'
  <2> SUFFICES ASSUME NEW p \in Placer, reply'[p] # None
               PROVE  /\ reply'[p].code = 201 => orders'[p] # None
                      /\ reply'[p].code \in {400, 403, 404, 409} => orders'[p] = None
                      /\ seen'[p] # None => reply'[p].code = 201
    BY DEF AnswersMatchOrders
  <2>1. CASE p = q
    <3>1. seen'[q] = None
      BY <1>1, <2>1, RequestAssumption DEF Inv, TypeOK, Stages, Placed, Req
    <3> QED
      BY <1>1, <1>2, <2>1, <3>1 DEF Inv, TypeOK
  <2>2. CASE p # q
    BY <1>1, <2>2 DEF Inv, TypeOK, AnswersMatchOrders, Req
  <2> QED
    BY <2>1, <2>2
<1>10. EventsHaveOrders'
  BY <1>1 DEF Inv, EventsHaveOrders
<1> QED
  BY <1>3, <1>4, <1>5, <1>6, <1>8, <1>9, <1>10 DEF Inv

LEMMA DieInv == ASSUME Inv, NEW q \in Req, Die(q) PROVE Inv'
<1>1. /\ pc[q] \notin {"idle", "done", "lost"}
      /\ pc' = [pc EXCEPT ![q] = "lost"]
      /\ seen' = [seen EXCEPT ![q] = IF pc[q] \in {"decide", "commit"} THEN None ELSE seen[q]]
      /\ events' \in {events} \cup IF pc[q] = "note" THEN {events \cup {q}} ELSE {}
      /\ UNCHANGED <<orders, call, lines, reply>>
  BY DEF Die, Goto
<1>2. TypeOK'
  <2>1. events' \subseteq Id
    BY <1>1 DEF Inv, TypeOK, Stages, Id, Req
  <2> QED
    BY <1>1, <2>1 DEF Inv, TypeOK
<1>3. Stages'
  BY <1>1, RequestAssumption DEF Inv, TypeOK, Stages, Req
<1>4. Placed'
  BY <1>1 DEF Inv, TypeOK, Placed, Req
<1>5. Locked'
  BY <1>1, Free DEF Inv, TypeOK, Req
<1>6. Applied' = Applied /\ \A p \in Applied : seen'[p] = seen[p]
  BY <1>1 DEF Inv, TypeOK, Stages, Allowed, Applied, Req
<1>7. Allowed' /\ ChangesFormAPath'
  BY <1>1, <1>6, Quiet
<1>8. AnswersMatchOrders'
  BY <1>1 DEF Inv, TypeOK, Stages, AnswersMatchOrders, Req
<1>9. EventsHaveOrders'
  BY <1>1 DEF Inv, Stages, Placed, EventsHaveOrders, Req
<1> QED
  BY <1>2, <1>3, <1>4, <1>5, <1>7, <1>8, <1>9 DEF Inv

-----------------------------------------------------------------------------

\* Every step preserves the invariant.
LEMMA NextInv == Inv /\ [Next]_vars => Inv'
<1> SUFFICES ASSUME Inv, [Next]_vars PROVE Inv'
  OBVIOUS
<1>1. ASSUME NEW q \in Placer, Place(q) PROVE Inv'
  BY <1>1, VerifyInv, FindInv, SaveInv, RefreshInv, NoteInv DEF Place
<1>2. ASSUME NEW q \in Mover, Move(q) PROVE Inv'
  BY <1>2, LockInv, DecideInv, CommitInv, ReloadInv DEF Move
<1>3. ASSUME NEW q \in Req, Arrive(q) \/ Raise(q) \/ Die(q) PROVE Inv'
  BY <1>3, ArriveInv, RaiseInv, DieInv
<1>4. CASE UNCHANGED vars
  <2>1. Applied' = Applied
    BY <1>4 DEF vars, Applied
  <2> QED
    BY <1>4, <2>1 DEF vars, Inv, TypeOK, Stages, Placed, Locked, Allowed,
         ChangesFormAPath, AnswersMatchOrders, EventsHaveOrders
<1> QED
  BY <1>1, <1>2, <1>3, <1>4 DEF Next

\* The invariant holds in every reachable state of every instance.
THEOREM InvHolds == Spec => []Inv
BY InitInv, NextInv, PTL DEF Spec

\* Whatever requests race for an order and whichever worker dies, the changes
\* of its status that were committed follow one another.
THEOREM ChangesFormAPathHolds == Spec => []ChangesFormAPath
<1>1. Inv => ChangesFormAPath
  BY DEF Inv
<1> QED
  BY <1>1, InvHolds, PTL

\* 201 says that the order is stored and a refusal that it is not; an order that
\* was stored and read again is answered 201, and an event of the telemetry always
\* has its order.
THEOREM PlacingIsAnswered == Spec => [](AnswersMatchOrders /\ EventsHaveOrders)
<1>1. Inv => AnswersMatchOrders /\ EventsHaveOrders
  BY DEF Inv
<1> QED
  BY <1>1, InvHolds, PTL

\* A stored order changes only its status, and only along TRANSITIONS.
THEOREM OnlyTransitionsHolds == Spec => OnlyTransitions
<1> DEFINE A == \A o \in Id : orders[o] # None /\ orders'[o] # orders[o] =>
                  /\ orders'[o] # None
                  /\ orders'[o] = [orders[o] EXCEPT !.status = orders'[o].status]
                  /\ orders'[o].status \in TRANSITIONS[orders[o].status]
<1>1. ASSUME Inv, [Next]_vars PROVE [A]_vars
  <2>1. CASE UNCHANGED orders
    BY <2>1
  <2>2. ASSUME NEW q \in Placer, Save(q), ~UNCHANGED orders PROVE A
    <3>1. pc[q] = "save" /\ orders' = [orders EXCEPT ![q] = NewOrder(q)]
      BY <2>2 DEF Save, Fail
    <3>2. orders[q] = None
      BY <1>1, <3>1 DEF Inv, Placed
    <3> QED
      BY <1>1, <3>1, <3>2 DEF Inv, TypeOK
  <2>3. ASSUME NEW q \in Mover, Commit(q) PROVE A
    <3>1. /\ orders[call[q].order].status = seen[q]
          /\ call[q].to \in TRANSITIONS[seen[q]]
          /\ orders'[call[q].order] = [orders[call[q].order] EXCEPT !.status = call[q].to]
          /\ orders'[call[q].order].status = call[q].to
          /\ orders'[call[q].order] # None
          /\ \A o \in Id \ {call[q].order} : orders'[o] = orders[o]
      BY <1>1, <2>3, Committed
    <3> QED
      BY <3>1
  <2>4. ASSUME Next
        PROVE  UNCHANGED orders \/ (\E q \in Placer : Save(q)) \/ (\E q \in Mover : Commit(q))
    BY <2>4 DEF Next, Place, Move, Verify, Find, Refresh, Note, Lock, Decide, Reload,
         Arrive, Raise, Die, Fail
  <2> QED
    BY <1>1, <2>1, <2>2, <2>3, <2>4 DEF vars
<1> QED
  BY <1>1, InvHolds, PTL DEF Spec, OnlyTransitions
=============================================================================
