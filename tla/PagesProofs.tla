---------------------------- MODULE PagesProofs ----------------------------
(***************************************************************************)
(* Proofs about Pages, for all windows, tables, parties and reservations,  *)
(* any number of requests and any behaviour of other clients.              *)
(***************************************************************************)
EXTENDS Pages, TLAPS

-----------------------------------------------------------------------------
(* What a step does to the requests.                                       *)

\* The request f has become g without being served: it was lost, its answer was
\* used, or nothing happened to it.
Grown(f, g) ==
    /\ WellFormed(g) /\ g.op = f.op /\ g.arg = f.arg /\ g.served = f.served
    /\ Answered(g) => Answered(f) /\ g.answer = f.answer

\* The page has sent the request q in this step.
Sent(q) ==
    /\ q \in FirstUnused
    /\ WellFormed(flight'[q])
    /\ flight'[q].op # "none" /\ ~flight'[q].served /\ flight'[q].answer = None

\* A step of the pages and of the network.
Moves == DOMAIN flight' = Req /\ \A q \in Req : Grown(flight[q], flight'[q]) \/ Sent(q)

\* Requests keep what they ask for, and only the first unused one is sent.
Numbered ==
    \A q \in Req : \/ flight'[q].op = flight[q].op /\ flight'[q].arg = flight[q].arg
                   \/ q \in FirstUnused /\ flight'[q].op # "none"

\* Nothing happens to a request.
LEMMA GrownSame == ASSUME NEW f, WellFormed(f) PROVE Grown(f, f)
BY DEF Grown

\* An answer that has been used, or an error, is no answer any more.
LEMMA ClosedGrows ==
    ASSUME NEW f, WellFormed(f)
    PROVE  Grown(f, [f EXCEPT !.over = TRUE, !.answer = IF @ = Lost THEN @ ELSE None])
<1> DEFINE g == [f EXCEPT !.over = TRUE, !.answer = IF @ = Lost THEN @ ELSE None]
<1>1. DOMAIN f = {"op", "arg", "then", "served", "answer", "over"}
  BY DEF WellFormed, Unsent, Request
<1>2. /\ DOMAIN g = DOMAIN f /\ g.op = f.op /\ g.arg = f.arg /\ g.then = f.then
      /\ g.served = f.served /\ g.over = TRUE
      /\ g.answer = IF f.answer = Lost THEN f.answer ELSE None
  BY <1>1
<1> HIDE DEF g
<1>3. ~Answered(g)
  BY <1>2 DEF Answered, Lost
<1>4. g.answer # None => g.answer.code = 0
  BY <1>2 DEF Lost
<1> QED BY <1>2, <1>3, <1>4 DEF Grown, WellFormed, g

LEMMA LostGrows ==
    ASSUME NEW f, WellFormed(f)
    PROVE  Grown(f, [f EXCEPT !.answer = Lost])
<1> DEFINE g == [f EXCEPT !.answer = Lost]
<1>1. DOMAIN f = {"op", "arg", "then", "served", "answer", "over"}
  BY DEF WellFormed, Unsent, Request
<1>2. /\ DOMAIN g = DOMAIN f /\ g.op = f.op /\ g.arg = f.arg /\ g.then = f.then
      /\ g.served = f.served /\ g.over = f.over /\ g.answer = Lost
  BY <1>1
<1> HIDE DEF g
<1>3. ~Answered(g) /\ g.answer.code = 0
  BY <1>2 DEF Answered, Lost
<1> QED BY <1>2, <1>3 DEF Grown, WellFormed, g

\* The fields of an answered request.
LEMMA AnsweredFields ==
    ASSUME NEW f, WellFormed(f), NEW c, NEW b
    PROVE  LET g == [f EXCEPT !.served = TRUE,
                              !.answer = IF @ = None THEN [code |-> c, body |-> b] ELSE @]
           IN  /\ DOMAIN g = DOMAIN f /\ g.op = f.op /\ g.arg = f.arg /\ g.then = f.then
               /\ g.over = f.over /\ g.served = TRUE
               /\ g.answer = IF f.answer = None THEN [code |-> c, body |-> b] ELSE f.answer
<1>1. DOMAIN f = {"op", "arg", "then", "served", "answer", "over"}
  BY DEF WellFormed, Unsent, Request
<1> QED BY <1>1

\* What the pages send is well formed.
LEMMA RequestFits ==
    ASSUME NEW op, NEW arg, NEW then \in {None, "submit", "cancel"},
           \/ op = "tables" /\ arg \in [window : Window, party : Party]
           \/ op = "list"
           \/ op = "book" /\ arg \in [window : Window, party : Party, table : Table]
           \/ op = "cancel" /\ arg \in [row : Row, saw : Tuple]
    PROVE  WellFormed(Request(op, arg, then))
<1> DEFINE f == Request(op, arg, then)
<1>1. /\ DOMAIN f = DOMAIN Unsent /\ f.op = op /\ f.arg = arg /\ f.then = then
      /\ f.served = FALSE /\ f.over = FALSE /\ f.answer = None
  BY DEF Request, Unsent
<1> HIDE DEF f
<1>2. ~Answered(f)
  BY <1>1 DEF Answered
<1>3. WellFormed(f)
  BY <1>1, <1>2 DEF WellFormed
<1> QED BY <1>3 DEF f

\* What is left of the requests when one is lost or its answer used.
LEMMA FlightGrows ==
    ASSUME TypeOK, NEW q \in Req, NEW g, Grown(flight[q], g)
    PROVE  LET fl == [flight EXCEPT ![q] = g]
           IN  DOMAIN fl = Req /\ \A p \in Req : Grown(flight[p], fl[p])
BY GrownSame DEF TypeOK

LEMMA ClosedFlight ==
    ASSUME TypeOK, NEW q \in Req
    PROVE  DOMAIN Closed(q) = Req /\ \A p \in Req : Grown(flight[p], Closed(q)[p])
<1> DEFINE g == [flight[q] EXCEPT !.over = TRUE, !.answer = IF @ = Lost THEN @ ELSE None]
<1>1. Grown(flight[q], g)
  BY ClosedGrows DEF TypeOK
<1>2. Closed(q) = [flight EXCEPT ![q] = g]
  BY DEF Closed, TypeOK
<1> QED BY <1>1, <1>2, FlightGrows

\* A step that sends nothing.
LEMMA QuietMoves ==
    ASSUME NEW fl, DOMAIN fl = Req, \A p \in Req : Grown(flight[p], fl[p]), flight' = fl
    PROVE  Moves /\ \A p \in Req : Grown(flight[p], flight'[p])
BY DEF Moves

\* A step that sends a request.
LEMMA SendMoves ==
    ASSUME TypeOK, NEW fl, DOMAIN fl = Req, \A p \in Req : Grown(flight[p], fl[p]),
           NEW op, NEW arg, NEW then, op # "none", WellFormed(Request(op, arg, then)),
           Send(fl, op, arg, then)
    PROVE  /\ Moves
           /\ \E q \in Req : /\ Sent(q) /\ flight'[q].op = op /\ flight'[q].arg = arg
                             /\ \A p \in Req \ {q} : Grown(flight[p], flight'[p])
<1>1. PICK q \in FirstUnused : flight' = [fl EXCEPT ![q] = Request(op, arg, then)]
  BY DEF Send
<1>2. q \in Req
  BY DEF FirstUnused, Unused
<1>3. /\ DOMAIN flight' = Req /\ flight'[q] = Request(op, arg, then)
      /\ \A p \in Req \ {q} : flight'[p] = fl[p]
  BY <1>1, <1>2
<1>4. Sent(q) /\ flight'[q].op = op /\ flight'[q].arg = arg
  <2>1. /\ flight'[q].op = op /\ flight'[q].arg = arg
        /\ flight'[q].served = FALSE /\ flight'[q].answer = None
    BY <1>3 DEF Request
  <2>2. WellFormed(flight'[q])
    BY <1>3
  <2> QED BY <2>1, <2>2 DEF Sent
<1>5. \A p \in Req \ {q} : Grown(flight[p], flight'[p])
  BY <1>3
<1>6. Moves
  BY <1>3, <1>4, <1>5 DEF Moves
<1> QED BY <1>2, <1>4, <1>5, <1>6

\* What moves requests keeps them well formed and in their order.
LEMMA MovesKeeps ==
    ASSUME TypeOK, Moves
    PROVE  /\ DOMAIN flight' = Req /\ \A q \in Req : WellFormed(flight'[q])
           /\ Numbered
           /\ Pending' = Pending
<1>1. \A q \in Req : WellFormed(flight'[q])
  BY DEF Moves, Grown, Sent
<1>2. Numbered
  BY DEF Moves, Grown, Sent, Numbered
<1>3. \A q \in Req : q \in Pending' <=> q \in Pending
  <2> SUFFICES ASSUME NEW q \in Req PROVE q \in Pending' <=> q \in Pending
    OBVIOUS
  <2>1. CASE Grown(flight[q], flight'[q])
    BY <2>1 DEF Grown, Pending
  <2>2. CASE Sent(q)
    <3>1. flight[q].op = "none" /\ WellFormed(flight[q])
      BY <2>2 DEF Sent, FirstUnused, Unused, TypeOK
    <3> QED BY <2>2, <3>1 DEF Sent, Pending, WellFormed
  <2> QED BY <2>1, <2>2 DEF Moves
<1>4. Pending' = Pending
  <2>1. Pending' \subseteq Req /\ Pending \subseteq Req
    BY DEF Pending
  <2> QED BY <2>1, <1>3
<1> QED BY <1>1, <1>2, <1>4 DEF Moves

-----------------------------------------------------------------------------
(* The last request for tables.                                            *)

\* The form's request for tables.
FormArg == [window |-> form.window, party |-> form.party]

\* The tables listed answer some request, and either the form wants none, or the
\* step asks for those of the form, or nothing of both changes.
LEMMA LastLoadStays ==
    ASSUME TypeOK, LastLoad, Numbered,
           tables' # None => tables'.of \in Loads',
           \/ form'.party = 0
           \/ \E q \in FirstUnused : flight'[q].op = "tables" /\ flight'[q].arg = FormArg'
           \/ Loads' = Loads /\ FormArg' = FormArg /\ form'.party = form.party
    PROVE  LastLoad'
<1>1. FirstUnused \subseteq Req /\ \A p, q \in FirstUnused : p = q
  <2>1. FirstUnused \subseteq Req
    BY DEF FirstUnused, Unused
  <2>2. ASSUME NEW p \in FirstUnused, NEW q \in FirstUnused PROVE p = q
    <3>1. p <= q /\ q <= p
      BY DEF FirstUnused
    <3>2. p \in Nat /\ q \in Nat
      BY <2>1, ReqAssumption
    <3> QED BY <3>1, <3>2
  <2> QED BY <2>1, <2>2
<1>2. ASSUME NEW p \in Req, NEW q \in Req, flight'[p].op # "none", flight'[q].op = "none"
      PROVE  p < q
  <2>1. flight[q].op = "none"
    BY <1>2 DEF Numbered
  <2>2. CASE flight[p].op # "none"
    BY <2>1, <2>2 DEF LastLoad
  <2>3. CASE flight[p].op = "none"
    <3>1. p \in FirstUnused
      BY <1>2, <2>3 DEF Numbered
    <3>2. p <= q /\ p # q
      BY <1>2, <2>1, <3>1 DEF FirstUnused, Unused
    <3> QED BY <3>2, ReqAssumption
  <2> QED BY <2>2, <2>3
<1>3. ASSUME form'.party # 0, Loads' # {}
      PROVE  \E q \in Loads' : flight'[q].arg = FormArg' /\ \A p \in Loads' : p <= q
  <2>1. CASE \E q \in FirstUnused : flight'[q].op = "tables" /\ flight'[q].arg = FormArg'
    <3>1. PICK q \in FirstUnused : flight'[q].op = "tables" /\ flight'[q].arg = FormArg'
      BY <2>1
    <3>2. q \in Loads' /\ q \in Req /\ flight[q].op = "none"
      BY <1>1, <3>1 DEF Loads, FirstUnused, Unused
    <3>3. ASSUME NEW p \in Loads' PROVE p <= q
      <4>1. p \in Req /\ flight'[p].op = "tables"
        BY DEF Loads
      <4>2. CASE p \in FirstUnused
        BY <1>1, <3>1, <4>2, <4>1, ReqAssumption
      <4>3. CASE p \notin FirstUnused
        <5>1. flight[p].op # "none"
          BY <4>1, <4>3 DEF Numbered
        <5>2. p < q
          BY <4>1, <5>1, <3>2 DEF LastLoad
        <5> QED BY <5>2, <4>1, <3>2, ReqAssumption
      <4> QED BY <4>2, <4>3
    <3> QED BY <3>1, <3>2, <3>3
  <2>2. CASE Loads' = Loads /\ FormArg' = FormArg /\ form'.party = form.party
    <3>1. PICK q \in Loads : flight[q].arg = FormArg /\ \A p \in Loads : p <= q
      BY <1>3, <2>2 DEF LastLoad, FormArg
    <3>2. flight'[q].arg = flight[q].arg
      <4>1. q \in Req /\ flight[q].op = "tables"
        BY DEF Loads
      <4>2. q \notin FirstUnused
        BY <4>1 DEF FirstUnused, Unused
      <4> QED BY <4>1, <4>2 DEF Numbered
    <3> QED BY <3>1, <3>2, <2>2
  <2> QED BY <1>3, <2>1, <2>2
<1> QED BY <1>2, <1>3 DEF LastLoad, FormArg

\* A step that asks for no tables leaves the requests for them.
LEMMA LoadsStay ==
    ASSUME TypeOK, Numbered,
           \A q \in FirstUnused : flight'[q].op = "tables" => flight[q].op = "tables"
    PROVE  Loads' = Loads
<1>1. \A q \in Req : flight'[q].op = "tables" <=> flight[q].op = "tables"
  BY DEF Numbered, FirstUnused, Unused
<1> QED BY <1>1 DEF Loads

\* The list of tables keeps answering a request for tables.
LEMMA ListedStays ==
    ASSUME TypeOK, LastLoad, Numbered, tables' = tables, tables # None
    PROVE  tables'.of \in Loads'
BY DEF LastLoad, Loads, Numbered, FirstUnused, Unused

-----------------------------------------------------------------------------
(* What the pages know of the reservations.                                *)

LEMMA WasSeenStays ==
    ASSUME NEW r, NEW s, WasSeen(r, s), book' = book, Pending' = Pending
    PROVE  WasSeen(r, s)'
BY DEF WasSeen

\* A step of the pages or of the network keeps what they know.
LEMMA VersionsStay ==
    ASSUME TypeOK, VersionsTell, Moves, book' = book,
           \A r \in DOMAIN bookings' : WasSeen(r, bookings'[r]),
           \A q \in Req : Sent(q) /\ flight'[q].op = "cancel" =>
               WasSeen(flight'[q].arg.row, flight'[q].arg.saw)
    PROVE  VersionsTell'
<1>1. Pending' = Pending
  BY MovesKeeps
<1>2. \A q \in Pending' : book'[q] = None
  BY <1>1 DEF VersionsTell
<1>3. \A r \in Row : book'[r] # None => book'[r].version \notin Pending'
  BY <1>1 DEF VersionsTell
<1>4. ASSUME NEW r \in DOMAIN bookings' PROVE WasSeen(r, bookings[r])'
  <2>1. WasSeen(r, bookings'[r])
    OBVIOUS
  <2> QED BY <2>1, <1>1 DEF WasSeen
<1>5. ASSUME NEW q \in Req, flight'[q].op = "list", Answered(flight'[q]),
             NEW r \in DOMAIN flight'[q].answer.body
      PROVE  WasSeen(r, flight[q].answer.body[r])'
  <2>1. ~Sent(q)
    BY <1>5 DEF Sent, Answered
  <2>2. Grown(flight[q], flight'[q])
    BY <2>1 DEF Moves
  <2>3. /\ flight[q].op = "list" /\ Answered(flight[q])
        /\ flight'[q].answer = flight[q].answer
    BY <1>5, <2>2 DEF Grown
  <2>4. WasSeen(r, flight'[q].answer.body[r])
    BY <1>5, <2>3 DEF VersionsTell
  <2> QED BY <2>4, <1>1 DEF WasSeen
<1>6. ASSUME NEW q \in Req, flight'[q].op = "cancel"
      PROVE  /\ WasSeen(flight[q].arg.row, flight[q].arg.saw)'
             /\ Answered(flight'[q]) => WasSeen(flight[q].arg.row, flight[q].answer.body)'
  <2>1. CASE Sent(q)
    <3>1. ~Answered(flight'[q])
      BY <2>1 DEF Sent, Answered
    <3>2. WasSeen(flight'[q].arg.row, flight'[q].arg.saw)
      BY <1>6, <2>1
    <3> QED BY <3>1, <3>2, <1>1 DEF WasSeen
  <2>2. CASE Grown(flight[q], flight'[q])
    <3>1. /\ flight[q].op = "cancel" /\ flight'[q].arg = flight[q].arg
          /\ Answered(flight'[q]) =>
               Answered(flight[q]) /\ flight'[q].answer = flight[q].answer
      BY <1>6, <2>2 DEF Grown
    <3>2. WasSeen(flight'[q].arg.row, flight'[q].arg.saw)
      BY <3>1 DEF VersionsTell
    <3>3. Answered(flight'[q]) => WasSeen(flight'[q].arg.row, flight'[q].answer.body)
      BY <3>1 DEF VersionsTell
    <3> QED BY <3>2, <3>3, <1>1 DEF WasSeen
  <2> QED BY <2>1, <2>2 DEF Moves
<1> QED BY <1>2, <1>3, <1>4, <1>5, <1>6 DEF VersionsTell

\* Nothing is cancelled in a step that sends no such request.
LEMMA NoCancelSent ==
    ASSUME NEW op, op # "cancel", NEW q \in Req, flight'[q].op = op,
           \A p \in Req \ {q} : Grown(flight[p], flight'[p])
    PROVE  \A p \in Req : ~(Sent(p) /\ flight'[p].op = "cancel")
BY DEF Sent, Grown, FirstUnused, Unused

-----------------------------------------------------------------------------
(* BookTable.                                                              *)

FormType == [window : Window, party : Party \cup {0}, table : Table \cup {None}]

LEMMA LoadKeeps ==
    ASSUME TypeOK, LastLoad, SelectedIsOffered,
           NEW fl, DOMAIN fl = Req, \A p \in Req : Grown(flight[p], fl[p]),
           NEW f \in FormType, f.table = form.table,
           NEW then \in {None, "submit"}, LoadTables(fl, f, then)
    PROVE  /\ Moves /\ LastLoad' /\ SelectedIsOffered'
           /\ form' \in FormType /\ submitting' \in BOOLEAN
           /\ tables' \in {None} \cup [of : Req, free : SUBSET Table]
           /\ \A q \in Req : ~(Sent(q) /\ flight'[q].op = "cancel")
<1>1. CASE f.party = 0
  <2>1. /\ tables' = None /\ form' = [f EXCEPT !.table = None] /\ flight' = fl
        /\ submitting' = (submitting /\ then = None)
    BY <1>1 DEF LoadTables
  <2>2. Moves /\ \A p \in Req : Grown(flight[p], flight'[p])
    BY <2>1, QuietMoves
  <2>3. form' \in FormType /\ form'.party = 0
    BY <2>1, <1>1 DEF FormType
  <2>4. LastLoad'
    BY <2>1, <2>2, <2>3, MovesKeeps, LastLoadStays
  <2>5. SelectedIsOffered'
    BY <2>1 DEF SelectedIsOffered
  <2>6. submitting' \in BOOLEAN
    BY <2>1 DEF TypeOK
  <2>7. \A q \in Req : ~(Sent(q) /\ flight'[q].op = "cancel")
    BY <2>2 DEF Sent, Grown, FirstUnused, Unused
  <2> QED BY <2>1, <2>2, <2>3, <2>4, <2>5, <2>6, <2>7
<1>2. CASE f.party # 0
  <2> DEFINE arg == [window |-> f.window, party |-> f.party]
  <2>1. /\ form' = f /\ tables' = tables /\ submitting' = submitting
        /\ Send(fl, "tables", arg, then)
    BY <1>2 DEF LoadTables
  <2>2. WellFormed(Request("tables", arg, then))
    <3>1. arg \in [window : Window, party : Party]
      BY <1>2 DEF FormType
    <3> HIDE DEF arg
    <3> QED BY <3>1, RequestFits
  <2> HIDE DEF arg
  <2>3. /\ Moves
        /\ \E q \in Req : /\ Sent(q) /\ flight'[q].op = "tables" /\ flight'[q].arg = arg
                          /\ \A p \in Req \ {q} : Grown(flight[p], flight'[p])
    BY <2>1, <2>2, SendMoves
  <2>4. PICK q \in Req : /\ Sent(q) /\ flight'[q].op = "tables" /\ flight'[q].arg = arg
                         /\ \A p \in Req \ {q} : Grown(flight[p], flight'[p])
    BY <2>3
  <2>5. Numbered
    BY <2>3, MovesKeeps
  <2>6. q \in FirstUnused /\ flight'[q].arg = FormArg'
    BY <2>1, <2>4 DEF Sent, FormArg, arg
  <2>7. tables' # None => tables'.of \in Loads'
    BY <2>1, <2>5, ListedStays
  <2>8. LastLoad'
    BY <2>4, <2>5, <2>6, <2>7, LastLoadStays
  <2>9. SelectedIsOffered'
    BY <2>1 DEF SelectedIsOffered
  <2>10. \A p \in Req : ~(Sent(p) /\ flight'[p].op = "cancel")
    BY <2>4, NoCancelSent
  <2>11. submitting' \in BOOLEAN /\ tables' \in {None} \cup [of : Req, free : SUBSET Table]
    BY <2>1 DEF TypeOK
  <2> QED BY <2>1, <2>3, <2>8, <2>9, <2>10, <2>11
<1> QED BY <1>1, <1>2

\* A step of the booking page, with what it does to the requests.
LEMMA FormStep ==
    ASSUME Inv, Moves, LastLoad', SelectedIsOffered',
           form' \in FormType, submitting' \in BOOLEAN,
           tables' \in {None} \cup [of : Req, free : SUBSET Table],
           \A q \in Req : ~(Sent(q) /\ flight'[q].op = "cancel"),
           place' \in {"closed", "form", "confirmed"},
           book' = book, UNCHANGED account
    PROVE  Inv'
<1>1. bookings' = bookings /\ state' = state /\ cancelling' = cancelling
  BY DEF account
<1>2. TypeOK'
  <2>1. DOMAIN flight' = Req /\ \A q \in Req : WellFormed(flight'[q])
    BY MovesKeeps DEF Inv
  <2>2. form' \in [window : Window, party : Party \cup {0}, table : Table \cup {None}]
    BY DEF FormType
  <2>3. /\ book \in [Row -> Tuple \cup {None}] /\ Rows(bookings)
        /\ state \in {"closed", "loading", "ready", "error"} /\ cancelling \in Row \cup {None}
    BY DEF Inv, TypeOK
  <2>4. Rows(bookings)'
    BY <2>3, <1>1 DEF Rows
  <2> QED BY <1>1, <2>1, <2>2, <2>3, <2>4 DEF TypeOK
<1>3. VersionsTell'
  <2>1. \A r \in DOMAIN bookings' : WasSeen(r, bookings'[r])
    BY <1>1 DEF Inv, VersionsTell
  <2> QED BY <2>1, VersionsStay DEF Inv
<1> QED BY <1>2, <1>3 DEF Inv

LEMMA OpenFormKeeps == ASSUME Inv, OpenForm PROVE Inv'
<1>1. form \in FormType /\ None \in {None, "submit"}
  BY DEF Inv, TypeOK, FormType
<1>2. DOMAIN flight = Req /\ \A p \in Req : Grown(flight[p], flight[p])
  BY GrownSame DEF Inv, TypeOK
<1>3. /\ LoadTables(flight, form, None) /\ place' = "form" /\ book' = book /\ UNCHANGED account
  BY DEF OpenForm
<1>4. /\ Moves /\ LastLoad' /\ SelectedIsOffered'
      /\ form' \in FormType /\ submitting' \in BOOLEAN
      /\ tables' \in {None} \cup [of : Req, free : SUBSET Table]
      /\ \A q \in Req : ~(Sent(q) /\ flight'[q].op = "cancel")
  BY <1>1, <1>2, <1>3, LoadKeeps DEF Inv
<1> QED BY <1>3, <1>4, FormStep

LEMMA ChangeKeeps == ASSUME Inv, Change PROVE Inv'
<1>1. PICK w \in Window, n \in Party \cup {0} :
        LoadTables(flight, [form EXCEPT !.window = w, !.party = n], None)
  BY DEF Change
<1> DEFINE f == [form EXCEPT !.window = w, !.party = n]
<1>2. f \in FormType /\ f.table = form.table /\ None \in {None, "submit"}
  BY DEF Inv, TypeOK, FormType
<1>3. DOMAIN flight = Req /\ \A p \in Req : Grown(flight[p], flight[p])
  BY GrownSame DEF Inv, TypeOK
<1>4. LoadTables(flight, f, None)
  BY <1>1
<1> HIDE DEF f
<1>5. /\ Moves /\ LastLoad' /\ SelectedIsOffered'
      /\ form' \in FormType /\ submitting' \in BOOLEAN
      /\ tables' \in {None} \cup [of : Req, free : SUBSET Table]
      /\ \A q \in Req : ~(Sent(q) /\ flight'[q].op = "cancel")
  BY <1>2, <1>3, <1>4, LoadKeeps DEF Inv
<1>6. book' = book /\ UNCHANGED account /\ place' \in {"closed", "form", "confirmed"}
  BY DEF Change, Inv, TypeOK
<1> QED BY <1>5, <1>6, FormStep

\* A step that asks for no tables and changes neither the time nor the party.
LEMMA LastLoadKept ==
    ASSUME TypeOK, LastLoad, Moves, \A q \in Req : ~(Sent(q) /\ flight'[q].op = "tables"),
           tables' # None => tables' = tables \/ tables'.of \in Loads,
           form'.window = form.window, form'.party = form.party
    PROVE  LastLoad'
<1>1. Numbered
  BY MovesKeeps
<1>2. \A q \in FirstUnused : flight'[q].op = "tables" => flight[q].op = "tables"
  BY DEF Moves, Grown, FirstUnused, Unused
<1>3. Loads' = Loads
  BY <1>1, <1>2, LoadsStay
<1>4. tables' # None => tables'.of \in Loads'
  BY <1>3 DEF LastLoad
<1>5. FormArg' = FormArg
  BY DEF FormArg
<1> QED BY <1>1, <1>3, <1>4, <1>5, LastLoadStays

LEMMA ChooseKeeps == ASSUME Inv, Choose PROVE Inv'
<1>1. PICK t \in tables.free : form' = [form EXCEPT !.table = t]
  BY DEF Choose
<1>2. /\ tables # None /\ flight' = flight /\ tables' = tables /\ submitting' = submitting
      /\ place' = place /\ book' = book /\ UNCHANGED account
  BY DEF Choose
<1>3. t \in Table /\ form \in FormType
  BY <1>2 DEF Inv, TypeOK, FormType
<1>4. /\ form' \in FormType /\ form'.table = t
      /\ form'.window = form.window /\ form'.party = form.party
  BY <1>1, <1>3 DEF FormType
<1>5. Moves /\ \A p \in Req : Grown(flight[p], flight'[p])
  BY <1>2, GrownSame, QuietMoves DEF Inv, TypeOK
<1>6. \A q \in Req : ~Sent(q)
  BY <1>5 DEF Sent, Grown, FirstUnused, Unused
<1>7. LastLoad'
  BY <1>2, <1>4, <1>5, <1>6, LastLoadKept DEF Inv
<1>8. SelectedIsOffered'
  BY <1>2, <1>4 DEF SelectedIsOffered
<1>9. /\ submitting' \in BOOLEAN /\ place' \in {"closed", "form", "confirmed"}
      /\ tables' \in {None} \cup [of : Req, free : SUBSET Table]
  BY <1>2 DEF Inv, TypeOK
<1> QED BY <1>2, <1>4, <1>5, <1>6, <1>7, <1>8, <1>9, FormStep

LEMMA TablesArriveKeeps == ASSUME Inv, NEW q \in Req, TablesArrive(q) PROVE Inv'
<1>1. /\ flight[q].op = "tables" /\ flight[q].answer # None /\ WellFormed(flight[q])
      /\ form \in FormType
  BY DEF TablesArrive, Arrives, Inv, TypeOK, FormType
<1>2. /\ flight' = Closed(q) /\ book' = book /\ UNCHANGED account /\ place' = place
      /\ submitting' = (submitting /\ flight[q].then = None)
  BY DEF TablesArrive
<1>3. Moves /\ \A p \in Req : Grown(flight[p], flight'[p])
  BY <1>2, ClosedFlight, QuietMoves DEF Inv
<1>4. \A p \in Req : ~Sent(p)
  BY <1>3 DEF Sent, Grown, FirstUnused, Unused
<1>5. submitting' \in BOOLEAN /\ place' \in {"closed", "form", "confirmed"}
  BY <1>2 DEF Inv, TypeOK
<1> DEFINE body == flight[q].answer.body
<1>6. Succeeded(q) => body \subseteq Table
  BY <1>1 DEF Succeeded, Answered, WellFormed
<1>7. /\ tables' = IF Succeeded(q) THEN [of |-> q, free |-> body] ELSE None
      /\ form' = IF Succeeded(q) /\ form.table \notin body THEN [form EXCEPT !.table = None]
                 ELSE form
  BY DEF TablesArrive
<1> HIDE DEF body
<1>8. /\ form' \in FormType /\ form'.window = form.window /\ form'.party = form.party
      /\ (Succeeded(q) /\ form'.table # None) => form'.table \in body
  BY <1>1, <1>7 DEF FormType
<1>9. tables' \in {None} \cup [of : Req, free : SUBSET Table]
  BY <1>6, <1>7
<1>10. SelectedIsOffered'
  BY <1>7, <1>8 DEF SelectedIsOffered
<1>11. tables' # None => tables'.of \in Loads
  BY <1>1, <1>7 DEF Loads
<1>12. LastLoad'
  BY <1>3, <1>4, <1>8, <1>11, LastLoadKept DEF Inv
<1> QED BY <1>2, <1>3, <1>4, <1>5, <1>8, <1>9, <1>10, <1>12, FormStep

LEMMA SubmitKeeps == ASSUME Inv, Submit PROVE Inv'
<1>1. /\ form.table # None /\ form.party # 0 /\ submitting' = TRUE
      /\ Send(flight, "book", form, None)
      /\ form' = form /\ tables' = tables /\ place' = place /\ book' = book
      /\ UNCHANGED account
  BY DEF Submit
<1>2. form \in FormType /\ form \in [window : Window, party : Party, table : Table]
  BY <1>1 DEF Inv, TypeOK, FormType
<1>3. WellFormed(Request("book", form, None))
  BY <1>2, RequestFits
<1>4. DOMAIN flight = Req /\ \A p \in Req : Grown(flight[p], flight[p])
  BY GrownSame DEF Inv, TypeOK
<1>5. /\ Moves
      /\ \E q \in Req : /\ Sent(q) /\ flight'[q].op = "book" /\ flight'[q].arg = form
                        /\ \A p \in Req \ {q} : Grown(flight[p], flight'[p])
  BY <1>1, <1>3, <1>4, SendMoves DEF Inv
<1>6. \A q \in Req : Sent(q) => flight'[q].op = "book"
  BY <1>5 DEF Sent, Grown, FirstUnused, Unused
<1>7. LastLoad'
  BY <1>1, <1>5, <1>6, LastLoadKept DEF Inv
<1>8. SelectedIsOffered'
  BY <1>1 DEF Inv, SelectedIsOffered
<1>9. /\ submitting' \in BOOLEAN /\ place' \in {"closed", "form", "confirmed"}
      /\ tables' \in {None} \cup [of : Req, free : SUBSET Table]
  BY <1>1 DEF Inv, TypeOK
<1> QED BY <1>1, <1>2, <1>5, <1>6, <1>7, <1>8, <1>9, FormStep

LEMMA BookedKeeps == ASSUME Inv, NEW q \in Req, Booked(q) PROVE Inv'
<1>1. DOMAIN Closed(q) = Req /\ \A p \in Req : Grown(flight[p], Closed(q)[p])
  BY ClosedFlight DEF Inv
<1>2. form \in FormType /\ book' = book /\ UNCHANGED account
  BY DEF Booked, Inv, TypeOK, FormType
<1>3. CASE Succeeded(q)
  <2>1. /\ place' = "confirmed" /\ submitting' = FALSE /\ flight' = Closed(q)
        /\ form' = form /\ tables' = tables
    BY <1>3 DEF Booked
  <2>2. Moves /\ \A p \in Req : Grown(flight[p], flight'[p])
    BY <1>1, <2>1, QuietMoves
  <2>3. \A p \in Req : ~Sent(p)
    BY <2>2 DEF Sent, Grown, FirstUnused, Unused
  <2>4. LastLoad'
    BY <2>1, <2>2, <2>3, LastLoadKept DEF Inv
  <2>5. SelectedIsOffered'
    BY <2>1 DEF Inv, SelectedIsOffered
  <2>6. submitting' \in BOOLEAN /\ tables' \in {None} \cup [of : Req, free : SUBSET Table]
    BY <2>1 DEF Inv, TypeOK
  <2> QED BY <1>2, <2>1, <2>2, <2>3, <2>4, <2>5, <2>6, FormStep
<1>4. CASE ~Succeeded(q)
  <2>1. LoadTables(Closed(q), form, "submit") /\ place' = place
    BY <1>4 DEF Booked
  <2>2. /\ Moves /\ LastLoad' /\ SelectedIsOffered'
        /\ form' \in FormType /\ submitting' \in BOOLEAN
        /\ tables' \in {None} \cup [of : Req, free : SUBSET Table]
        /\ \A p \in Req : ~(Sent(p) /\ flight'[p].op = "cancel")
    BY <1>1, <1>2, <2>1, LoadKeeps DEF Inv
  <2>3. place' \in {"closed", "form", "confirmed"}
    BY <2>1 DEF Inv, TypeOK
  <2> QED BY <1>2, <2>2, <2>3, FormStep
<1> QED BY <1>3, <1>4

-----------------------------------------------------------------------------
(* AccountPage, and the network.                                           *)

\* A step of the account page or of the network.
LEMMA AccountStep ==
    ASSUME Inv, Moves, book' = book, UNCHANGED booking,
           \A q \in Req : ~(Sent(q) /\ flight'[q].op = "tables"),
           Rows(bookings'), \A r \in DOMAIN bookings' : WasSeen(r, bookings'[r]),
           \A q \in Req : Sent(q) /\ flight'[q].op = "cancel" =>
               WasSeen(flight'[q].arg.row, flight'[q].arg.saw),
           state' \in {"closed", "loading", "ready", "error"}, cancelling' \in Row \cup {None}
    PROVE  Inv'
<1>1. form' = form /\ tables' = tables /\ submitting' = submitting /\ place' = place
  BY DEF booking
<1>2. DOMAIN flight' = Req /\ \A q \in Req : WellFormed(flight'[q])
  BY MovesKeeps DEF Inv
<1>3. TypeOK'
  BY <1>1, <1>2 DEF Inv, TypeOK, Rows
<1>4. VersionsTell'
  BY VersionsStay DEF Inv
<1>5. LastLoad'
  BY <1>1, LastLoadKept DEF Inv
<1>6. SelectedIsOffered'
  BY <1>1 DEF Inv, SelectedIsOffered
<1> QED BY <1>3, <1>4, <1>5, <1>6 DEF Inv

LEMMA FailKeeps == ASSUME Inv, NEW q \in Req, Fail(q) PROVE Inv'
<1>1. /\ flight' = [flight EXCEPT ![q].answer = Lost] /\ book' = book
      /\ UNCHANGED <<booking, account>>
  BY DEF Fail
<1>2. bookings' = bookings /\ state' = state /\ cancelling' = cancelling
  BY <1>1 DEF account
<1> DEFINE g == [flight[q] EXCEPT !.answer = Lost]
<1>3. Grown(flight[q], g)
  BY LostGrows DEF Inv, TypeOK
<1>4. flight' = [flight EXCEPT ![q] = g]
  BY <1>1 DEF Inv, TypeOK
<1> HIDE DEF g
<1>5. Moves /\ \A p \in Req : Grown(flight[p], flight'[p])
  BY <1>3, <1>4, FlightGrows, QuietMoves DEF Inv
<1>6. \A p \in Req : ~Sent(p)
  BY <1>5 DEF Sent, Grown, FirstUnused, Unused
<1>7. /\ Rows(bookings') /\ \A r \in DOMAIN bookings' : WasSeen(r, bookings'[r])
      /\ state' \in {"closed", "loading", "ready", "error"} /\ cancelling' \in Row \cup {None}
  BY <1>2 DEF Inv, TypeOK, VersionsTell
<1> QED BY <1>1, <1>5, <1>6, <1>7, AccountStep

LEMMA OpenAccountKeeps == ASSUME Inv, OpenAccount PROVE Inv'
<1>1. /\ state' = "loading" /\ bookings' = [r \in {} |-> None] /\ cancelling' = None
      /\ Send(flight, "list", None, None) /\ book' = book /\ UNCHANGED booking
  BY DEF OpenAccount
<1>2. WellFormed(Request("list", None, None))
  BY RequestFits
<1>3. DOMAIN flight = Req /\ \A p \in Req : Grown(flight[p], flight[p])
  BY GrownSame DEF Inv, TypeOK
<1>4. /\ Moves
      /\ \E q \in Req : /\ Sent(q) /\ flight'[q].op = "list" /\ flight'[q].arg = None
                        /\ \A p \in Req \ {q} : Grown(flight[p], flight'[p])
  BY <1>1, <1>2, <1>3, SendMoves DEF Inv
<1>5. \A q \in Req : Sent(q) => flight'[q].op = "list"
  BY <1>4 DEF Sent, Grown, FirstUnused, Unused
<1>6. Rows(bookings') /\ \A r \in DOMAIN bookings' : WasSeen(r, bookings'[r])
  <2>1. DOMAIN bookings' = {} /\ {} \in SUBSET Row
    BY <1>1
  <2>2. bookings' \in [{} -> Tuple]
    BY <1>1
  <2> QED BY <2>1, <2>2 DEF Rows
<1> QED BY <1>1, <1>4, <1>5, <1>6, AccountStep

LEMMA ListArrivesKeeps == ASSUME Inv, NEW q \in Req, ListArrives(q) PROVE Inv'
<1>1. /\ flight[q].op = "list" /\ flight[q].answer # None /\ WellFormed(flight[q])
      /\ flight' = Closed(q) /\ book' = book /\ UNCHANGED booking
      /\ cancelling' = IF flight[q].then = None THEN cancelling ELSE None
  BY DEF ListArrives, Arrives, Inv, TypeOK
<1>2. Moves /\ \A p \in Req : Grown(flight[p], flight'[p])
  BY <1>1, ClosedFlight, QuietMoves DEF Inv
<1>3. \A p \in Req : ~Sent(p)
  BY <1>2 DEF Sent, Grown, FirstUnused, Unused
<1>4. cancelling' \in Row \cup {None}
  BY <1>1 DEF Inv, TypeOK
<1>5. /\ state' \in {"closed", "loading", "ready", "error"}
      /\ Rows(bookings') /\ \A r \in DOMAIN bookings' : WasSeen(r, bookings'[r])
  <2>1. CASE Succeeded(q)
    <3>1. bookings' = flight[q].answer.body /\ state' = "ready"
      BY <2>1 DEF ListArrives
    <3>2. Answered(flight[q])
      BY <1>1, <2>1 DEF Succeeded, Answered
    <3>3. Rows(bookings')
      BY <1>1, <3>1, <3>2 DEF WellFormed
    <3>4. \A r \in DOMAIN bookings' : WasSeen(r, bookings'[r])
      BY <1>1, <3>1, <3>2 DEF Inv, VersionsTell
    <3> QED BY <3>1, <3>3, <3>4
  <2>2. CASE ~Succeeded(q)
    <3>1. state' = "error" /\ bookings' = bookings
      BY <2>2 DEF ListArrives
    <3> QED BY <3>1 DEF Inv, TypeOK, VersionsTell
  <2> QED BY <2>1, <2>2
<1> QED BY <1>1, <1>2, <1>3, <1>4, <1>5, AccountStep

\* The rows of a list are reservations as they were.
LEMMA ListedRow ==
    ASSUME Inv, NEW r \in DOMAIN bookings
    PROVE  r \in Row /\ bookings[r] \in Tuple /\ WasSeen(r, bookings[r])
<1>1. PICK S \in SUBSET Row : bookings \in [S -> Tuple]
  BY DEF Inv, TypeOK, Rows
<1> QED BY <1>1 DEF Inv, VersionsTell

LEMMA CancelKeeps == ASSUME Inv, Cancel PROVE Inv'
<1>1. PICK r \in DOMAIN bookings :
        /\ cancelling' = r
        /\ Send(flight, "cancel", [row |-> r, saw |-> bookings[r]], None)
  BY DEF Cancel
<1>2. book' = book /\ UNCHANGED booking /\ bookings' = bookings /\ state' = state
  BY DEF Cancel
<1>3. r \in Row /\ bookings[r] \in Tuple /\ WasSeen(r, bookings[r])
  BY ListedRow
<1> DEFINE arg == [row |-> r, saw |-> bookings[r]]
<1>4. arg \in [row : Row, saw : Tuple] /\ arg.row = r /\ arg.saw = bookings[r]
  BY <1>3
<1>5. Send(flight, "cancel", arg, None)
  BY <1>1
<1> HIDE DEF arg
<1>6. WellFormed(Request("cancel", arg, None))
  BY <1>4, RequestFits
<1>7. DOMAIN flight = Req /\ \A p \in Req : Grown(flight[p], flight[p])
  BY GrownSame DEF Inv, TypeOK
<1>8. /\ Moves
      /\ \E q \in Req : /\ Sent(q) /\ flight'[q].op = "cancel" /\ flight'[q].arg = arg
                        /\ \A p \in Req \ {q} : Grown(flight[p], flight'[p])
  BY <1>5, <1>6, <1>7, SendMoves DEF Inv
<1>9. \A q \in Req : Sent(q) => flight'[q].op = "cancel" /\ flight'[q].arg = arg
  BY <1>8 DEF Sent, Grown, FirstUnused, Unused
<1>10. /\ Rows(bookings') /\ \A s \in DOMAIN bookings' : WasSeen(s, bookings'[s])
       /\ state' \in {"closed", "loading", "ready", "error"}
  BY <1>2 DEF Inv, TypeOK, VersionsTell
<1>12. cancelling' \in Row \cup {None}
  BY <1>1, <1>3
<1>11. \A q \in Req : Sent(q) /\ flight'[q].op = "cancel" =>
          WasSeen(flight'[q].arg.row, flight'[q].arg.saw)
  BY <1>3, <1>4, <1>9
<1> QED BY <1>2, <1>8, <1>9, <1>10, <1>11, <1>12, AccountStep

LEMMA CancelArrivesKeeps == ASSUME Inv, NEW q \in Req, CancelArrives(q) PROVE Inv'
<1>1. /\ flight[q].op = "cancel" /\ flight[q].answer # None /\ WellFormed(flight[q])
      /\ book' = book /\ UNCHANGED booking
  BY DEF CancelArrives, Arrives, Inv, TypeOK
<1>2. DOMAIN Closed(q) = Req /\ \A p \in Req : Grown(flight[p], Closed(q)[p])
  BY ClosedFlight DEF Inv
<1>3. CASE Succeeded(q)
  <2> DEFINE body == flight[q].answer.body
             row == flight[q].arg.row
  <2>1. Answered(flight[q])
    BY <1>1, <1>3 DEF Succeeded, Answered
  <2>2. body \in Tuple /\ WasSeen(row, body)
    BY <1>1, <2>1 DEF WellFormed, Inv, VersionsTell
  <2>3. /\ bookings' = [r \in DOMAIN bookings |-> IF r = row THEN body ELSE bookings[r]]
        /\ cancelling' = None /\ flight' = Closed(q) /\ state' = state
    BY <1>3 DEF CancelArrives
  <2> HIDE DEF body, row
  <2>4. Moves /\ \A p \in Req : Grown(flight[p], flight'[p])
    BY <1>2, <2>3, QuietMoves
  <2>5. \A p \in Req : ~Sent(p)
    BY <2>4 DEF Sent, Grown, FirstUnused, Unused
  <2>6. Rows(bookings')
    <3>1. DOMAIN bookings \subseteq Row /\ \A r \in DOMAIN bookings : bookings[r] \in Tuple
      BY ListedRow
    <3>2. bookings' \in [DOMAIN bookings -> Tuple]
      BY <2>2, <2>3, <3>1
    <3> QED BY <3>1, <3>2 DEF Rows
  <2>7. \A r \in DOMAIN bookings' : WasSeen(r, bookings'[r])
    BY <2>2, <2>3 DEF Inv, VersionsTell
  <2>8. state' \in {"closed", "loading", "ready", "error"} /\ cancelling' \in Row \cup {None}
    BY <2>3 DEF Inv, TypeOK
  <2> QED BY <1>1, <2>4, <2>5, <2>6, <2>7, <2>8, AccountStep
<1>4. CASE ~Succeeded(q) /\ flight[q].answer # Lost
  <2>1. /\ state' = "loading" /\ Send(Closed(q), "list", None, "cancel")
        /\ bookings' = bookings /\ cancelling' = cancelling
    BY <1>4 DEF CancelArrives
  <2>2. WellFormed(Request("list", None, "cancel"))
    BY RequestFits
  <2>3. /\ Moves
        /\ \E s \in Req : /\ Sent(s) /\ flight'[s].op = "list" /\ flight'[s].arg = None
                          /\ \A p \in Req \ {s} : Grown(flight[p], flight'[p])
    BY <1>2, <2>1, <2>2, SendMoves DEF Inv
  <2>4. \A s \in Req : Sent(s) => flight'[s].op = "list"
    BY <2>3 DEF Sent, Grown, FirstUnused, Unused
  <2>5. /\ Rows(bookings') /\ \A r \in DOMAIN bookings' : WasSeen(r, bookings'[r])
        /\ state' \in {"closed", "loading", "ready", "error"} /\ cancelling' \in Row \cup {None}
    BY <2>1 DEF Inv, TypeOK, VersionsTell
  <2> QED BY <1>1, <2>3, <2>4, <2>5, AccountStep
<1>5. CASE ~Succeeded(q) /\ flight[q].answer = Lost
  <2>1. cancelling' = None /\ flight' = Closed(q) /\ bookings' = bookings /\ state' = state
    BY <1>5 DEF CancelArrives
  <2>2. Moves /\ \A p \in Req : Grown(flight[p], flight'[p])
    BY <1>2, <2>1, QuietMoves
  <2>3. \A p \in Req : ~Sent(p)
    BY <2>2 DEF Sent, Grown, FirstUnused, Unused
  <2>4. /\ Rows(bookings') /\ \A r \in DOMAIN bookings' : WasSeen(r, bookings'[r])
        /\ state' \in {"closed", "loading", "ready", "error"} /\ cancelling' \in Row \cup {None}
    BY <2>1 DEF Inv, TypeOK, VersionsTell
  <2> QED BY <1>1, <2>2, <2>3, <2>4, AccountStep
<1> QED BY <1>3, <1>4, <1>5

-----------------------------------------------------------------------------
(* The endpoints and the other clients.                                    *)

\* What WasSeen says of the state after the step.
WillBeSeen(r, s) ==
    /\ r \in Row /\ book'[r] # None /\ s.version \notin Pending'
    /\ s.version = book'[r].version => s = book'[r]

\* The request q changes at most one reservation, which gets its version.
Written(q) ==
    \/ book' = book
    \/ \E x \in Row, t \in Tuple : /\ book' = [book EXCEPT ![x] = t]
                                 /\ t.version = q /\ (x = q \/ book[x] # None)

\* The request q is served in this step, and no other request changes.
ServedAlone(q) ==
    /\ DOMAIN flight' = Req /\ \A p \in Req \ {q} : flight'[p] = flight[p]
    /\ WellFormed(flight'[q]) /\ flight'[q].served /\ ~flight[q].served
    /\ \/ flight'[q].op = flight[q].op /\ flight'[q].arg = flight[q].arg
       \/ q \in FirstUnused /\ flight'[q].op = "other"

LEMMA ServedPending ==
    ASSUME NEW q \in Req, ServedAlone(q)
    PROVE  q \in Pending /\ Pending' = Pending \ {q}
BY DEF ServedAlone, Pending

\* What was seen stays a state that the reservation had.
LEMMA SeenAgain ==
    ASSUME TypeOK, NEW q \in Req, ServedAlone(q), Written(q), NEW r, NEW s, WasSeen(r, s)
    PROVE  WillBeSeen(r, s)
<1>1. q \in Pending /\ Pending' = Pending \ {q}
  BY ServedPending
<1>2. r \in Row /\ book[r] # None /\ s.version \notin Pending'
  BY <1>1 DEF WasSeen
<1>3. CASE book' = book
  BY <1>2, <1>3 DEF WasSeen, WillBeSeen
<1>4. ASSUME NEW x \in Row, NEW t \in Tuple, book' = [book EXCEPT ![x] = t], t.version = q
      PROVE  WillBeSeen(r, s)
  <2>1. s.version # q
    BY <1>1 DEF WasSeen
  <2>2. CASE r = x
    <3>1. book'[r] = t /\ t # None
      BY <1>4, <2>2, NoneAssumption DEF TypeOK
    <3> QED BY <1>2, <1>4, <2>1, <3>1 DEF WillBeSeen
  <2>3. CASE r # x
    <3>1. book'[r] = book[r]
      BY <1>4, <2>3, <1>2 DEF TypeOK
    <3> QED BY <1>2, <3>1 DEF WasSeen, WillBeSeen
  <2> QED BY <2>2, <2>3
<1> QED BY <1>3, <1>4 DEF Written

\* A served request keeps the invariant if its answer, when it has one of its own,
\* shows reservations as they are.
LEMMA ServedKeeps ==
    ASSUME Inv, NEW q \in Req, ServedAlone(q), Written(q), UNCHANGED <<booking, account>>,
           \/ ~Answered(flight'[q])
           \/ /\ Answered(flight[q]) /\ flight'[q].answer = flight[q].answer
              /\ flight'[q].op = flight[q].op
           \/ /\ flight'[q].op = "list" =>
                   \A r \in DOMAIN flight'[q].answer.body :
                       WillBeSeen(r, flight'[q].answer.body[r])
              /\ flight'[q].op = "cancel" =>
                   WillBeSeen(flight'[q].arg.row, flight'[q].answer.body)
    PROVE  Inv'
<1>1. /\ form' = form /\ tables' = tables /\ submitting' = submitting /\ place' = place
      /\ bookings' = bookings /\ state' = state /\ cancelling' = cancelling
  BY DEF booking, account
<1>2. DOMAIN flight' = Req /\ \A p \in Req : WellFormed(flight'[p])
  BY DEF ServedAlone, Inv, TypeOK
<1>3. book' \in [Row -> Tuple \cup {None}]
  BY DEF Written, Inv, TypeOK
<1>4. TypeOK'
  BY <1>1, <1>2, <1>3 DEF Inv, TypeOK, Rows
<1>5. SelectedIsOffered'
  BY <1>1 DEF Inv, SelectedIsOffered
<1>6. Numbered
  <2>1. \A p \in Req \ {q} : flight'[p].op = flight[p].op /\ flight'[p].arg = flight[p].arg
    BY DEF ServedAlone
  <2> QED BY <2>1 DEF ServedAlone, Numbered
<1>7. Loads' = Loads
  <2>1. \A p \in FirstUnused : flight'[p].op = "tables" => flight[p].op = "tables"
    BY DEF ServedAlone, FirstUnused, Unused
  <2> QED BY <2>1, <1>6, LoadsStay DEF Inv
<1>8. LastLoad'
  <2>1. tables' # None => tables'.of \in Loads'
    BY <1>1, <1>7 DEF Inv, LastLoad
  <2>2. FormArg' = FormArg /\ form'.party = form.party
    BY <1>1 DEF FormArg
  <2> QED BY <1>6, <1>7, <2>1, <2>2, LastLoadStays DEF Inv
<1>9. VersionsTell'
  <2>1. q \in Pending /\ Pending' = Pending \ {q} /\ Pending \subseteq Req
    BY ServedPending DEF Pending
  <2>2. \A r, s : WasSeen(r, s) => WillBeSeen(r, s)
    BY SeenAgain DEF Inv
  <2>3. ASSUME NEW p \in Pending' PROVE book'[p] = None
    <3>1. p \in Pending /\ p # q /\ p \in Row /\ book[p] = None
      BY <2>1 DEF Inv, VersionsTell, Row
    <3> QED BY <3>1 DEF Written, Inv, TypeOK
  <2>4. ASSUME NEW r \in Row, book'[r] # None PROVE book'[r].version \notin Pending'
    <3>1. CASE book'[r] = book[r]
      BY <3>1, <2>1, <2>4 DEF Inv, VersionsTell
    <3>2. CASE book'[r] # book[r]
      <4>1. book'[r].version = q
        BY <3>2, <2>4 DEF Written, Inv, TypeOK
      <4> QED BY <4>1, <2>1
    <3> QED BY <3>1, <3>2
  <2>5. \A r \in DOMAIN bookings' : WillBeSeen(r, bookings'[r])
    BY <1>1, <2>2 DEF Inv, VersionsTell
  <2>6. ASSUME NEW p \in Req, flight'[p].op = "list", Answered(flight'[p]),
               NEW r \in DOMAIN flight'[p].answer.body
        PROVE  WillBeSeen(r, flight'[p].answer.body[r])
    <3>1. CASE p # q
      <4>1. flight'[p] = flight[p]
        BY <3>1 DEF ServedAlone
      <4> QED BY <4>1, <2>2, <2>6 DEF Inv, VersionsTell
    <3>2. CASE p = q /\ Answered(flight[q]) /\ flight'[q].answer = flight[q].answer
                   /\ flight'[q].op = flight[q].op
      BY <3>2, <2>2, <2>6 DEF Inv, VersionsTell
    <3> QED BY <3>1, <3>2, <2>6
  <2>7. ASSUME NEW p \in Req, flight'[p].op = "cancel"
        PROVE  /\ WillBeSeen(flight'[p].arg.row, flight'[p].arg.saw)
               /\ Answered(flight'[p]) => WillBeSeen(flight'[p].arg.row, flight'[p].answer.body)
    <3>1. flight[p].op = "cancel" /\ flight'[p].arg = flight[p].arg
      BY <2>7 DEF ServedAlone
    <3>2. WillBeSeen(flight'[p].arg.row, flight'[p].arg.saw)
      BY <3>1, <2>2 DEF Inv, VersionsTell
    <3>3. ASSUME Answered(flight'[p]), Answered(flight[p]),
                 flight'[p].answer = flight[p].answer
          PROVE  WillBeSeen(flight'[p].arg.row, flight'[p].answer.body)
      BY <3>1, <3>3, <2>2 DEF Inv, VersionsTell
    <3>4. ASSUME Answered(flight'[p])
          PROVE  WillBeSeen(flight'[p].arg.row, flight'[p].answer.body)
      <4>1. CASE p # q
        <5>1. flight'[p] = flight[p]
          BY <4>1 DEF ServedAlone
        <5> QED BY <5>1, <3>3, <3>4
      <4>2. CASE p = q
        BY <4>2, <3>3, <3>4, <2>7
      <4> QED BY <4>1, <4>2
    <3> QED BY <3>2, <3>4
  <2>8. \A r \in DOMAIN bookings' : WasSeen(r, bookings[r])'
    BY <2>5 DEF WillBeSeen, WasSeen
  <2>9. \A p \in Req : (flight'[p].op = "list" /\ Answered(flight'[p])) =>
          \A r \in DOMAIN flight'[p].answer.body : WasSeen(r, flight[p].answer.body[r])'
    BY <2>6 DEF WillBeSeen, WasSeen
  <2>10. \A p \in Req : flight'[p].op = "cancel" =>
           /\ WasSeen(flight[p].arg.row, flight[p].arg.saw)'
           /\ Answered(flight'[p]) => WasSeen(flight[p].arg.row, flight[p].answer.body)'
    BY <2>7 DEF WillBeSeen, WasSeen
  <2> QED BY <2>3, <2>4, <2>8, <2>9, <2>10 DEF VersionsTell
<1> QED BY <1>4, <1>5, <1>8, <1>9 DEF Inv

\* g is the request f, served with an answer of the right kind.
Fits(f, g) ==
    /\ WellFormed(f) /\ DOMAIN g = DOMAIN f
    /\ g.op = f.op /\ g.arg = f.arg /\ g.then = f.then /\ g.over = f.over
    /\ f.op # "none" /\ g.served = TRUE
    /\ g.answer # None => g.answer.code \in {0, 200, 201, 400, 409, 412}
    /\ Answered(g) => /\ f.op = "tables" => g.answer.body \subseteq Table
                      /\ f.op = "list" => Rows(g.answer.body)
                      /\ f.op = "cancel" => g.answer.body \in Tuple

\* A request stays well formed when it gets an answer that fits it.
LEMMA FitsStill == ASSUME NEW f, NEW g, Fits(f, g) PROVE WellFormed(g)
<1> USE DEF Fits
<1>1. /\ DOMAIN g = DOMAIN Unsent
      /\ g.op \in {"none", "tables", "list", "book", "cancel", "other"}
      /\ g.then \in {None, "submit", "cancel"}
      /\ g.op # "none"
  BY DEF WellFormed
<1>2. g.served \in BOOLEAN /\ g.over \in BOOLEAN
  <2>1. f.over \in BOOLEAN
    BY DEF WellFormed
  <2>2. g.over \in BOOLEAN
    BY <2>1
  <2> QED BY <2>2
<1>3. /\ g.op = "tables" => g.arg \in [window : Window, party : Party]
      /\ g.op = "book" => g.arg \in [window : Window, party : Party, table : Table]
      /\ g.op = "cancel" => g.arg \in [row : Row, saw : Tuple]
  BY DEF WellFormed
<1>4. /\ g.op = "tables" /\ Answered(g) => g.answer.body \subseteq Table
      /\ g.op = "list" /\ Answered(g) => Rows(g.answer.body)
      /\ g.op = "cancel" /\ Answered(g) => g.answer.body \in Tuple
  OBVIOUS
<1> QED BY <1>1, <1>2, <1>3, <1>4 DEF WellFormed

\* An endpoint answers q with that code and a body of the right kind.
Answers(q, code, body) ==
    /\ ~flight[q].served /\ flight[q].op # "none"
    /\ code \in {200, 201, 400, 409, 412} /\ Answer(q, code, body)
    /\ code \in {200, 201} => /\ flight[q].op = "tables" => body \subseteq Table
                              /\ flight[q].op = "list" => Rows(body)
                              /\ flight[q].op = "cancel" => body \in Tuple

\* What an endpoint answers is well formed, and nothing else of the requests
\* changes.
LEMMA AnswerServes ==
    ASSUME TypeOK, NEW q \in Req, NEW code, NEW body, Answers(q, code, body)
    PROVE  /\ ServedAlone(q) /\ flight'[q].op = flight[q].op /\ flight'[q].arg = flight[q].arg
           /\ flight'[q].answer = IF flight[q].answer = None THEN [code |-> code, body |-> body]
                                  ELSE flight[q].answer
<1> USE DEF Answers
<1> DEFINE g == [flight[q] EXCEPT !.served = TRUE,
                   !.answer = IF @ = None THEN [code |-> code, body |-> body] ELSE @]
           a == IF flight[q].answer = None THEN [code |-> code, body |-> body]
                ELSE flight[q].answer
<1>1. WellFormed(flight[q])
  BY DEF TypeOK
<1>2. DOMAIN flight[q] = {"op", "arg", "then", "served", "answer", "over"}
  BY <1>1 DEF WellFormed, Unsent, Request
<1>3. /\ DOMAIN g = DOMAIN flight[q] /\ g.op = flight[q].op /\ g.arg = flight[q].arg
      /\ g.then = flight[q].then /\ g.over = flight[q].over /\ g.served = TRUE /\ g.answer = a
  BY <1>2
<1>4. DOMAIN flight' = Req /\ flight'[q] = g /\ \A p \in Req \ {q} : flight'[p] = flight[p]
  BY DEF Answer, TypeOK
<1> HIDE DEF g
<1>5. /\ a # None => a.code \in {0, 200, 201, 400, 409, 412}
      /\ flight[q].answer # None => a = flight[q].answer
      /\ flight[q].answer = None => a.code = code /\ a.body = body
  BY <1>1 DEF WellFormed
<1> HIDE DEF a
<1>6. WellFormed(g)
  <2>1. g.answer # None => g.answer.code \in {0, 200, 201, 400, 409, 412}
    BY <1>3, <1>5
  <2>2. Answered(g) => /\ flight[q].op = "tables" => g.answer.body \subseteq Table
                       /\ flight[q].op = "list" => Rows(g.answer.body)
                       /\ flight[q].op = "cancel" => g.answer.body \in Tuple
    <3>1. CASE flight[q].answer # None
      <4>1. g.answer = flight[q].answer
        BY <1>3, <1>5, <3>1
      <4>2. Answered(g) => Answered(flight[q])
        BY <4>1 DEF Answered
      <4> QED BY <1>1, <4>1, <4>2 DEF WellFormed
    <3>2. CASE flight[q].answer = None
      <4>1. Answered(g) => code \in {200, 201}
        BY <1>3, <1>5, <3>2 DEF Answered
      <4>2. g.answer.body = body
        BY <1>3, <1>5, <3>2
      <4> QED BY <4>1, <4>2
    <3> QED BY <3>1, <3>2
  <2> DEFINE f == flight[q]
  <2>3. /\ WellFormed(f) /\ DOMAIN g = DOMAIN f /\ f.op # "none" /\ g.served = TRUE
        /\ g.op = f.op /\ g.arg = f.arg /\ g.then = f.then /\ g.over = f.over
    BY <1>1, <1>3
  <2>4. Answered(g) => /\ f.op = "tables" => g.answer.body \subseteq Table
                       /\ f.op = "list" => Rows(g.answer.body)
                       /\ f.op = "cancel" => g.answer.body \in Tuple
    BY <2>2
  <2> HIDE DEF f
  <2>5. Fits(f, g)
    BY <2>1, <2>3, <2>4 DEF Fits
  <2> QED BY <2>5, FitsStill
<1> QED BY <1>3, <1>4, <1>6 DEF ServedAlone, a

LEMMA ServeTablesKeeps ==
    ASSUME Inv, NEW q \in Req, ~flight[q].served, ServeTables(q), UNCHANGED <<booking, account>>
    PROVE  Inv'
<1> DEFINE body == Available(flight[q].arg.window, flight[q].arg.party)
<1>1. flight[q].op = "tables" /\ Answer(q, 200, body) /\ book' = book
  BY DEF ServeTables
<1>2. body \subseteq Table
  BY DEF Available
<1> DEFINE code == 200
<1>3. Answers(q, code, body)
  BY <1>1, <1>2 DEF Answers
<1> HIDE DEF body, code
<1>4. ServedAlone(q) /\ flight'[q].op = flight[q].op
  BY <1>3, AnswerServes DEF Inv
<1>5. flight'[q].op = "tables"
  BY <1>1, <1>4
<1> QED BY <1>1, <1>4, <1>5, ServedKeeps DEF Written

LEMMA ServeListKeeps ==
    ASSUME Inv, NEW q \in Req, ~flight[q].served, ServeList(q), UNCHANGED <<booking, account>>
    PROVE  Inv'
<1> DEFINE body == [r \in Mine |-> book[r]]
<1>1. flight[q].op = "list" /\ Answer(q, 200, body) /\ book' = book
  BY DEF ServeList
<1>2. Mine \subseteq Row /\ \A r \in Mine : book[r] \in Tuple /\ book[r] # None
  BY DEF Mine, Inv, TypeOK
<1>3. DOMAIN body = Mine /\ \A r \in Mine : body[r] = book[r]
  OBVIOUS
<1>4. Rows(body)
  <2>1. body \in [Mine -> Tuple]
    BY <1>2
  <2> QED BY <2>1, <1>2 DEF Rows
<1> DEFINE code == 200
<1>11. Answers(q, code, body)
  BY <1>1, <1>4 DEF Answers
<1>12. code = 200
  OBVIOUS
<1> HIDE DEF body, code
<1>5. /\ ServedAlone(q) /\ flight'[q].op = flight[q].op
      /\ flight'[q].answer = IF flight[q].answer = None THEN [code |-> 200, body |-> body]
                             ELSE flight[q].answer
  BY <1>11, <1>12, AnswerServes DEF Inv
<1>6. q \in Pending /\ Pending' = Pending \ {q}
  BY <1>5, ServedPending
<1>7. ASSUME NEW r \in Mine PROVE WillBeSeen(r, book[r])
  BY <1>1, <1>2, <1>6 DEF WillBeSeen, Inv, VersionsTell
<1>8. CASE flight[q].answer = None
  <2>1. \A r \in DOMAIN flight'[q].answer.body : WillBeSeen(r, flight'[q].answer.body[r])
    BY <1>3, <1>5, <1>7, <1>8
  <2> QED BY <1>1, <1>5, <2>1, ServedKeeps DEF Written
<1>9. CASE flight[q].answer # None
  <2>1. flight'[q].answer = flight[q].answer
    BY <1>5, <1>9
  <2>2. ~Answered(flight'[q]) \/ Answered(flight[q])
    BY <2>1 DEF Answered
  <2> QED BY <1>1, <1>5, <2>1, <2>2, ServedKeeps DEF Written
<1> QED BY <1>8, <1>9

\* What a booking or a reservation of another client writes is a reservation.
LEMMA NewTuple ==
    ASSUME NEW q \in Req, NEW a \in [window : Window, party : Party, table : Table]
    PROVE  New(q, a) \in Tuple /\ New(q, a).version = q
BY StoredAssumption DEF New, Tuple, Status, Version, Row

LEMMA ServeBookKeeps ==
    ASSUME Inv, NEW q \in Req, ~flight[q].served, ServeBook(q), UNCHANGED <<booking, account>>
    PROVE  Inv'
<1> DEFINE t == New(q, flight[q].arg)
           code == BookCode(t)
<1>1. /\ flight[q].op = "book" /\ Answer(q, code, None)
      /\ book' = IF code = 201 THEN [book EXCEPT ![q] = t] ELSE book
  BY DEF ServeBook
<1>2. flight[q].arg \in [window : Window, party : Party, table : Table]
  BY <1>1 DEF Inv, TypeOK, WellFormed
<1>3. t \in Tuple /\ t.version = q /\ q \in Row
  BY <1>2, NewTuple DEF Row
<1>4. code \in {201, 400, 409}
  BY DEF BookCode
<1> DEFINE body == None
<1>7. Answers(q, code, body)
  BY <1>1, <1>4 DEF Answers
<1> HIDE DEF t, code, body
<1>8. ServedAlone(q) /\ flight'[q].op = flight[q].op
  BY <1>7, AnswerServes DEF Inv
<1>5. ServedAlone(q) /\ flight'[q].op = "book"
  BY <1>1, <1>8
<1>6. Written(q)
  <2>1. book' = book \/ book' = [book EXCEPT ![q] = t]
    BY <1>1
  <2> QED BY <1>3, <2>1 DEF Written
<1> QED BY <1>5, <1>6, ServedKeeps

LEMMA ServeCancelKeeps ==
    ASSUME Inv, NEW q \in Req, ~flight[q].served, ServeCancel(q), UNCHANGED <<booking, account>>
    PROVE  Inv'
<1> DEFINE r == flight[q].arg.row
           t == IF Active(book[r])
                THEN [book[r] EXCEPT !.status = "cancelled", !.version = q] ELSE book[r]
           code == CancelCode(flight[q].arg)
           body == IF code = 200 THEN t ELSE None
<1>1. /\ flight[q].op = "cancel" /\ Answer(q, code, body)
      /\ book' = IF code = 200 THEN [book EXCEPT ![r] = t] ELSE book
  BY DEF ServeCancel
<1>2. code \in {200, 412}
  BY DEF CancelCode
<1>3. r \in Row /\ book[r] # None /\ book[r] \in Tuple
  <2>1. r \in Row /\ book[r] # None
    BY <1>1 DEF Inv, VersionsTell, WasSeen
  <2> QED BY <2>1 DEF Inv, TypeOK
<1>4. /\ t \in Tuple
      /\ Active(book[r]) => t.version = q
      /\ ~Active(book[r]) => t = book[r]
  BY <1>3 DEF Tuple, Status, Version, Row
<1> HIDE DEF r, t, code
<1>11. Answers(q, code, body)
  BY <1>1, <1>2, <1>4 DEF Answers
<1> HIDE DEF body
<1>5. /\ ServedAlone(q) /\ flight'[q].op = flight[q].op /\ flight'[q].arg = flight[q].arg
      /\ flight'[q].answer = IF flight[q].answer = None THEN [code |-> code, body |-> body]
                             ELSE flight[q].answer
  BY <1>11, AnswerServes DEF Inv
<1>6. q \in Pending /\ Pending' = Pending \ {q}
  BY <1>5, ServedPending
<1>7. Written(q)
  <2>1. CASE code = 200 /\ Active(book[r])
    BY <1>1, <1>3, <1>4, <2>1 DEF Written
  <2>2. CASE ~(code = 200 /\ Active(book[r]))
    <3>1. book' = book
      BY <1>1, <1>3, <1>4, <2>2 DEF Inv, TypeOK
    <3> QED BY <3>1 DEF Written
  <2> QED BY <2>1, <2>2
<1>8. CASE flight[q].answer # None
  <2>1. flight'[q].answer = flight[q].answer
    BY <1>5, <1>8
  <2>2. ~Answered(flight'[q]) \/ Answered(flight[q])
    BY <2>1 DEF Answered
  <2> QED BY <1>5, <1>7, <2>1, <2>2, ServedKeeps
<1>9. CASE flight[q].answer = None /\ code # 200
  <2>1. flight'[q].answer.code = 412
    BY <1>2, <1>5, <1>9
  <2>2. ~Answered(flight'[q])
    BY <2>1 DEF Answered
  <2> QED BY <1>5, <1>7, <2>2, ServedKeeps
<1>10. CASE flight[q].answer = None /\ code = 200
  <2>1. flight'[q].answer.body = t /\ flight'[q].arg.row = r
    BY <1>5, <1>10 DEF r, body
  <2>2. book'[r] = t /\ t # None
    BY <1>1, <1>3, <1>4, <1>10, NoneAssumption DEF Inv, TypeOK
  <2>3. t.version \notin Pending'
    BY <1>3, <1>4, <1>6 DEF Inv, VersionsTell
  <2>4. WillBeSeen(flight'[q].arg.row, flight'[q].answer.body)
    BY <1>3, <2>1, <2>2, <2>3 DEF WillBeSeen
  <2> QED BY <1>1, <1>5, <1>7, <2>4, ServedKeeps
<1> QED BY <1>8, <1>9, <1>10

LEMMA ServeKeeps == ASSUME Inv, NEW q \in Req, Serve(q) PROVE Inv'
BY ServeTablesKeeps, ServeListKeeps, ServeBookKeeps, ServeCancelKeeps DEF Serve

LEMMA OthersKeeps == ASSUME Inv, Others PROVE Inv'
<1> DEFINE other == [Request("other", None, None) EXCEPT !.served = TRUE, !.over = TRUE]
<1>1. PICK q \in FirstUnused :
        /\ flight' = [flight EXCEPT ![q] = other]
        /\ \/ \E s \in Foreign :
                BookCode(s) = 201 /\ book' = [book EXCEPT ![q] = [s EXCEPT !.version = q]]
           \/ \E r \in Row, n \in Party, s \in Given :
                LET t == [book[r] EXCEPT !.party = n, !.status = s, !.version = q]
                IN  /\ book[r] # None /\ <<n, s>> # <<book[r].party, book[r].status>>
                    /\ \A o \in Row \ {r} : ~Clash(book[o], t)
                    /\ book' = [book EXCEPT ![r] = t]
  BY Zenon DEF Others
<1>2. UNCHANGED <<booking, account>>
  BY DEF Others
<1>3. q \in Req /\ q \in Row /\ flight[q].op = "none" /\ ~flight[q].served
  <2>1. q \in Req /\ flight[q].op = "none"
    BY <1>1 DEF FirstUnused, Unused
  <2>2. WellFormed(flight[q])
    BY <2>1 DEF Inv, TypeOK
  <2> QED
    BY <2>1, <2>2 DEF Row, WellFormed
<1>4. /\ DOMAIN other = DOMAIN Unsent /\ other.op = "other" /\ other.served = TRUE
      /\ other.over = TRUE /\ other.then = None /\ other.answer = None
  BY DEF Request, Unsent
<1> HIDE DEF other
<1>5. WellFormed(other) /\ ~Answered(other)
  BY <1>4 DEF WellFormed, Answered
<1>6. DOMAIN flight' = Req /\ flight'[q] = other /\ \A p \in Req \ {q} : flight'[p] = flight[p]
  BY <1>1, <1>3 DEF Inv, TypeOK
<1>7. ServedAlone(q) /\ ~Answered(flight'[q])
  BY <1>1, <1>3, <1>4, <1>5, <1>6 DEF ServedAlone
<1>8. Written(q)
  <2>1. ASSUME NEW s \in Foreign, book' = [book EXCEPT ![q] = [s EXCEPT !.version = q]]
        PROVE  Written(q)
    <3>1. [s EXCEPT !.version = q] \in Tuple /\ [s EXCEPT !.version = q].version = q
      BY <1>3, FormAssumption DEF Tuple, Version
    <3> QED BY <1>3, <2>1, <3>1 DEF Written
  <2>2. ASSUME NEW r \in Row, NEW n \in Party, NEW s \in Given, book[r] # None,
               book' = [book EXCEPT ![r] =
                          [book[r] EXCEPT !.party = n, !.status = s, !.version = q]]
        PROVE  Written(q)
    <3> DEFINE t == [book[r] EXCEPT !.party = n, !.status = s, !.version = q]
    <3>1. book[r] \in Tuple /\ s \in Status
      BY <2>2, FormAssumption DEF Inv, TypeOK
    <3>2. t \in Tuple /\ t.version = q
      BY <1>3, <3>1 DEF Tuple, Version
    <3> QED BY <2>2, <3>1, <3>2 DEF Written
  <2> QED BY <1>1, <2>1, <2>2
<1> QED BY <1>2, <1>3, <1>7, <1>8, ServedKeeps

-----------------------------------------------------------------------------
(* The theorems.                                                           *)

LEMMA InitInv == ASSUME Init PROVE Inv
<1>1. \A q \in Req : /\ flight[q] = Unsent /\ WellFormed(flight[q]) /\ ~Answered(flight[q])
                    /\ flight[q].op = "none" /\ flight[q].served = FALSE
  <2>1. /\ Unsent.op = "none" /\ Unsent.served = FALSE /\ Unsent.over = FALSE
        /\ Unsent.then = None /\ Unsent.answer = None
    BY DEF Unsent, Request
  <2>2. WellFormed(Unsent) /\ ~Answered(Unsent)
    BY <2>1 DEF WellFormed, Answered
  <2> QED BY <2>1, <2>2 DEF Init
<1>2. Rows(bookings) /\ DOMAIN bookings = {}
  <2>1. DOMAIN bookings = {} /\ {} \in SUBSET Row /\ bookings \in [{} -> Tuple]
    BY DEF Init
  <2> QED BY <2>1 DEF Rows
<1>3. book \in [Row -> Tuple \cup {None}]
  BY StoredAssumption DEF Init
<1>4. TypeOK
  BY <1>1, <1>2, <1>3, FormAssumption DEF TypeOK, Init
<1>5. VersionsTell
  <2>1. \A q \in Pending : book[q] = None
    BY SeedAssumption DEF Init, Pending, Row
  <2>2. ASSUME NEW r \in Row, book[r] # None PROVE book[r].version \notin Pending
    BY <2>2, StoredAssumption DEF Init, Pending
  <2> QED BY <1>1, <1>2, <2>1, <2>2 DEF VersionsTell
<1>6. LastLoad
  BY <1>1 DEF LastLoad, Loads, Init
<1>7. SelectedIsOffered
  BY DEF SelectedIsOffered, Init
<1> QED BY <1>4, <1>5, <1>6, <1>7 DEF Inv

LEMMA NextKeeps == ASSUME Inv, [Next]_vars PROVE Inv'
<1>1. CASE OpenForm
  BY <1>1, OpenFormKeeps
<1>2. CASE Change
  BY <1>2, ChangeKeeps
<1>3. CASE Choose
  BY <1>3, ChooseKeeps
<1>4. CASE Submit
  BY <1>4, SubmitKeeps
<1>5. CASE OpenAccount
  BY <1>5, OpenAccountKeeps
<1>6. CASE Cancel
  BY <1>6, CancelKeeps
<1>7. CASE Others
  BY <1>7, OthersKeeps
<1>8. ASSUME NEW q \in Req, Serve(q) PROVE Inv'
  BY <1>8, ServeKeeps
<1>9. ASSUME NEW q \in Req, Fail(q) PROVE Inv'
  BY <1>9, FailKeeps
<1>10. ASSUME NEW q \in Req, Arrive(q) PROVE Inv'
  BY <1>10, TablesArriveKeeps, BookedKeeps, ListArrivesKeeps, CancelArrivesKeeps DEF Arrive
<1>11. CASE UNCHANGED vars
  <2>1. TypeOK'
    BY <1>11 DEF vars, Inv, TypeOK, Rows
  <2>2. SelectedIsOffered' /\ LastLoad'
    BY <1>11 DEF vars, Inv, SelectedIsOffered, LastLoad, Loads
  <2>3. VersionsTell'
    BY <1>11 DEF vars, Inv, VersionsTell, WasSeen, Pending
  <2> QED BY <2>1, <2>2, <2>3 DEF Inv
<1> QED BY <1>1, <1>2, <1>3, <1>4, <1>5, <1>6, <1>7, <1>8, <1>9, <1>10, <1>11 DEF Next

\* The inductive invariant of the pages holds in every reachable state.
THEOREM InvHolds == Spec => []Inv
BY InitInv, NextKeeps, PTL DEF Spec

\* The availability and the booking endpoint agree, in every reachable state.
THEOREM OffersAreBookableHolds == Spec => []OffersAreBookable
<1>1. ASSUME TypeOK PROVE OffersAreBookable
  <2> SUFFICES ASSUME NEW w \in Window, NEW n \in Party, NEW t \in Table
               PROVE  t \in Available(w, n) <=>
                        \A q \in Req :
                          BookCode(New(q, [table |-> t, window |-> w, party |-> n])) = 201
    BY DEF OffersAreBookable
  <2> DEFINE Free == ~\E r \in Row : Active(book[r]) /\ book[r].table = t
                                   /\ Overlap(book[r].window, w)
             Seats == Info[t].active /\ Info[t].capacity >= n
             arg == [table |-> t, window |-> w, party |-> n]
  <2>1. ASSUME NEW q \in Req PROVE BookCode(New(q, arg)) = 201 <=> Seats /\ Free
    <3> DEFINE s == New(q, arg)
    <3>1. /\ arg \in [window : Window, party : Party, table : Table]
          /\ arg.table = t /\ arg.window = w /\ arg.party = n
      OBVIOUS
    <3> HIDE DEF arg
    <3>2. /\ s \in Tuple /\ s.table = arg.table /\ s.window = arg.window
          /\ s.party = arg.party /\ s.status = "confirmed"
      BY <3>1, NewTuple DEF New
    <3> HIDE DEF s
    <3>3. Active(s) /\ s.table = t /\ s.window = w /\ s.party = n
      BY <3>1, <3>2, NoneAssumption DEF Active
    <3>4. \A r \in Row : Clash(book[r], s) <=> /\ Active(book[r]) /\ book[r].table = t
                                            /\ Overlap(book[r].window, w)
      BY <3>3 DEF Clash
    <3>5. ~(n > Info[t].capacity) <=> Info[t].capacity >= n
      BY InfoAssumption, PartyAssumption
    <3>6. BookCode(s) = 201 <=> Seats /\ Free
      BY <3>3, <3>4, <3>5 DEF BookCode
    <3> QED BY <3>6 DEF s
  <2>2. t \in Available(w, n) <=> Seats /\ Free
    BY DEF Available
  <2> HIDE DEF Seats, Free
  <2> QED BY <2>1, <2>2, ReqAssumption
<1> QED BY <1>1, InvHolds, PTL DEF Inv

\* While tables are listed, the selected one is among them.
THEOREM SelectedIsOfferedHolds == Spec => []SelectedIsOffered
BY InvHolds, PTL DEF Inv

\* What the account page cancels is what it showed when the button was pressed.
THEOREM CancelsWhatWasSeenHolds == Spec => CancelsWhatWasSeen
<1>1. ASSUME Inv, NEW q \in Req, Serve(q), flight[q].op = "cancel", book' # book
      PROVE  book[flight[q].arg.row] = flight[q].arg.saw
  <2>1. ServeCancel(q)
    BY <1>1 DEF Serve, ServeTables, ServeList, ServeBook
  <2>2. CancelCode(flight[q].arg) = 200
    BY <1>1, <2>1 DEF ServeCancel
  <2>3. book[flight[q].arg.row].version = flight[q].arg.saw.version
    BY <2>2 DEF CancelCode
  <2> QED BY <1>1, <2>3 DEF Inv, VersionsTell, WasSeen
<1>2. Inv => [\A q \in Req : (Serve(q) /\ flight[q].op = "cancel" /\ book' # book)
                => book[flight[q].arg.row] = flight[q].arg.saw]_vars
  BY <1>1
<1> QED BY <1>2, InvHolds, PTL DEF Spec, CancelsWhatWasSeen
=============================================================================
