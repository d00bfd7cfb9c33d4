------------------------- MODULE ReservationsProofs -------------------------
(***************************************************************************)
(* Theorems about Reservations, for every set of requests, tables, windows *)
(* and plans: the invariant Inv, the absence of double bookings, that an   *)
(* edit replaces exactly what it read, and that the endpoints implement    *)
(* the ledger.                                                             *)
(***************************************************************************)
EXTENDS Reservations, TLAPS

-----------------------------------------------------------------------------
(* The operators the model is built from.                                  *)

\* Two windows that share an instant overlap, as the constraint sees them.
LEMMA OverlapComplete ==
    ASSUME NEW v \in Window, NEW w \in Window, Instants(v) \cap Instants(w) # {}
    PROVE  Overlap(v, w)
<1>1. /\ v[1] \in Int /\ v[2] \in Int /\ w[1] \in Int /\ w[2] \in Int
  BY WindowAssumption
<1>2. PICK i \in Instants(v) : i \in Instants(w)
  OBVIOUS
<1> QED BY <1>1, <1>2 DEF Instants, Overlap

\* So the constraint excludes every double booking.
LEMMA DoubleBookedClash ==
    ASSUME NEW s \in Tuple \cup {None}, NEW t \in Tuple \cup {None}, DoubleBooked(s, t)
    PROVE  Clash(s, t)
BY OverlapComplete DEF DoubleBooked, Clash, Active, Tuple

LEMMA ClashSymmetric ==
    ASSUME NEW s, NEW t, Clash(s, t)
    PROVE  Clash(t, s)
BY DEF Clash, Overlap

\* What a request asks for has the fields its operation needs.
LEMMA PostFields ==
    ASSUME TypeOK, NEW q \in Req, call[q] # None, IsPost(q)
    PROVE  /\ call[q] \in Booking
           /\ call[q].window \in Window /\ call[q].user \in User
           /\ call[q].party \in Party /\ Target(q) = q /\ q \in Row
BY DEF TypeOK, Call, Booking, Patch, Cancel, IsPost, Target, Row

LEMMA EditFields ==
    ASSUME TypeOK, NEW q \in Req, call[q] # None, ~IsPost(q)
    PROVE  /\ call[q] \in Patch \cup Cancel
           /\ Target(q) = call[q].row /\ Target(q) \in Row
           /\ call[q].op = "PATCH" => /\ call[q].status \in Status \cup {None}
                                      /\ call[q].party \in Party \cup {None}
BY DEF TypeOK, Call, Booking, Patch, Cancel, IsPost, Target

\* Editing keeps a row a row, at its table, time and owner.
LEMMA EditedType ==
    ASSUME TypeOK, NEW q \in Req, call[q] # None, ~IsPost(q), NEW r \in Tuple
    PROVE  /\ Edited(q, r) \in Tuple
           /\ Edited(q, r).table = r.table /\ Edited(q, r).window = r.window
           /\ Edited(q, r).user = r.user /\ Edited(q, r).version = r.version
BY EditFields DEF Edited, Tuple, Patch, Cancel, Status

-----------------------------------------------------------------------------
(* Inv is inductive: one lemma per action.                                 *)

\* A transaction that ends in an exception gives up what it wrote.
LEMMA FailKeepsInv ==
    ASSUME Inv, NEW q \in Req, NEW code \in Codes, Fail(q, code),
           pc[q] \in {"lock", "load", "update", "check", "wait"}
    PROVE  Inv'
<1> USE DEF Inv
<1>0. /\ rows' = rows /\ call' = call /\ named' = named /\ read' = read /\ waits' = waits
      /\ pc' = [pc EXCEPT ![q] = "done"]
      /\ tuple' = [tuple EXCEPT ![q] = None]
      /\ reply' = [reply EXCEPT ![q] = [code |-> code, row |-> None]]
  BY DEF Fail, Send, Goto
<1>1. TypeOK'
  BY <1>0 DEF TypeOK, States, Response
<1>2. \A p \in Req : /\ p # q => /\ pc'[p] = pc[p] /\ tuple'[p] = tuple[p]
                                 /\ reply'[p] = reply[p]
                     /\ Target(p)' = Target(p) /\ IsPost(p)' = IsPost(p)
  BY <1>0 DEF TypeOK, Target, IsPost
<1>3. /\ pc'[q] = "done" /\ tuple'[q] = None /\ reply'[q] # None
  BY <1>0, NoneIsNothingElse DEF TypeOK, Response
<1>4. Shape'
  BY <1>0, <1>2, <1>3 DEF Shape, IsPost, TypeOK
<1>5. OwnVersion'
  BY <1>0, <1>2, <1>3 DEF OwnVersion, IsPost
<1>6. \A p \in Req : /\ Wrote(p)' <=> Wrote(p)
                     /\ Writing(p)' => Writing(p) /\ p # q
  BY <1>2, <1>3 DEF Wrote, Writing, Shape
<1>7. Entered'
  BY <1>0, <1>2, <1>6 DEF Entered
<1>12. \A p \in Req : Edited(p, read[p])' = Edited(p, read[p])
  BY <1>0 DEF Edited
<1>8. Anchored'
  BY <1>0, <1>2, <1>3, <1>6, <1>12 DEF Anchored
<1>9. VersionsTell'
  BY <1>0, <1>2, <1>6 DEF VersionsTell, Committed
<1>10. RowLocked'
  BY <1>2, <1>6 DEF RowLocked
<1>11. NoClash'
  BY <1>0, <1>2, <1>3 DEF NoClash
<1> QED BY <1>1, <1>4, <1>5, <1>7, <1>8, <1>9, <1>10, <1>11

\* A statement that only moves a request on, inside its transaction.
LEMMA MoveKeepsMost ==
    ASSUME Inv, NEW q \in Req, NEW s \in States,
           UNCHANGED <<rows, call, named, read, tuple, reply>>,
           waits' \in [Req -> Req \cup {None}],
           pc' = [pc EXCEPT ![q] = s],
           \/ pc[q] = "lock" /\ s = "insert"
           \/ pc[q] = "check" /\ s \in {"commit", "wait"}
           \/ pc[q] = "wait" /\ s = "check"
    PROVE  TypeOK' /\ OwnVersion' /\ Entered' /\ Anchored' /\ VersionsTell' /\ RowLocked'
<1> USE DEF Inv
<1>1. TypeOK'
  BY DEF TypeOK
<1>2. pc \in [Req -> States]
  BY DEF TypeOK
<1>3. \A p \in Req : /\ Wrote(p)' <=> Wrote(p)
                     /\ Writing(p)' <=> Writing(p)
                     /\ Target(p)' = Target(p) /\ IsPost(p)' = IsPost(p)
                     /\ p # q => pc'[p] = pc[p]
  BY <1>2 DEF Wrote, Writing, Target, IsPost, Shape
<1>4. OwnVersion'
  BY <1>3 DEF OwnVersion
<1>5. Entered'
  BY <1>3 DEF Entered
<1>6. \A p \in Req : Edited(p, read[p])' = Edited(p, read[p])
  BY DEF Edited
<1>7. Anchored'
  <2> SUFFICES ASSUME NEW p \in Req, call[p] # None, ~IsPost(p)
               PROVE  /\ pc'[p] \in {"update", "check", "wait", "commit", "reload"}
                           => read[p] # None
                      /\ (pc'[p] \in {"commit", "reload"} /\ tuple[p] = None)
                           => Edited(p, read[p]) = read[p]
                      /\ read[p] # None => rows[Target(p)] # None
                      /\ Writing(p) => /\ rows[Target(p)] = read[p]
                                       /\ tuple[p] = [Edited(p, read[p]) EXCEPT !.version = p]
    BY <1>3, <1>6 DEF Anchored
  <2>1. CASE p = q
    BY <2>1, <1>2 DEF Anchored, Shape
  <2>2. CASE p # q
    BY <2>2, <1>3 DEF Anchored
  <2> QED BY <2>1, <2>2
<1>8. VersionsTell'
  BY <1>3 DEF VersionsTell, Committed
<1>9. RowLocked'
  BY <1>3 DEF RowLocked
<1> QED BY <1>1, <1>4, <1>5, <1>7, <1>8, <1>9

LEMMA LockTableKeepsInv ==
    ASSUME Inv, NEW q \in Req, LockTable(q)
    PROVE  Inv'
<1>1. CASE BookingRefusal(call[q]) # 0
  <2>1. BookingRefusal(call[q]) \in {0, 400, 404}
    BY DEF BookingRefusal
  <2>2. pc[q] = "lock" /\ Fail(q, BookingRefusal(call[q]))
    BY <1>1 DEF LockTable
  <2>3. BookingRefusal(call[q]) \in Codes
    BY <1>1, <2>1 DEF Codes
  <2> QED BY <2>2, <2>3, FailKeepsInv
<1>2. CASE BookingRefusal(call[q]) = 0
  <2>1. /\ pc[q] = "lock" /\ pc' = [pc EXCEPT ![q] = "insert"]
        /\ UNCHANGED <<rows, call, named, read, tuple, waits, reply>>
    BY <1>2 DEF LockTable, Goto
  <2>2. call[q].table \in Table
    BY <1>2 DEF BookingRefusal
  <2>3. TypeOK' /\ OwnVersion' /\ Entered' /\ Anchored' /\ VersionsTell' /\ RowLocked'
    BY <2>1, MoveKeepsMost DEF States, Inv, TypeOK
  <2>4. Shape'
    BY <2>1, <2>2 DEF Inv, Shape, IsPost, TypeOK
  <2>5. NoClash'
    BY <2>1 DEF Inv, NoClash, Target, IsPost, TypeOK
  <2> QED BY <2>3, <2>4, <2>5 DEF Inv
<1> QED BY <1>1, <1>2

\* No one else writes a row that a booking is about to insert.
LEMMA InsertKeepsInv ==
    ASSUME Inv, NEW q \in Req, Insert(q)
    PROVE  Inv'
<1> USE DEF Inv
<1> DEFINE new == [table |-> call[q].table, window |-> call[q].window,
                   user |-> call[q].user, party |-> call[q].party,
                   status |-> "confirmed", version |-> q]
<1>1. /\ pc[q] = "insert" /\ pc' = [pc EXCEPT ![q] = "check"]
      /\ tuple' = [tuple EXCEPT ![q] = new]
      /\ UNCHANGED <<rows, call, named, read, waits, reply>>
  BY DEF Insert, Goto
<1>2. call[q] # None /\ IsPost(q) /\ call[q].table \in Table
  BY <1>1 DEF Shape
<1>3. new \in Tuple
  BY <1>2, PostFields DEF Tuple, Status, Version
<1>4. new # None
  BY <1>3, NoneAssumption
<1> HIDE DEF new
<1>5. TypeOK'
  BY <1>1, <1>3 DEF TypeOK, States
<1>6. \A p \in Req : /\ Target(p)' = Target(p) /\ IsPost(p)' = IsPost(p)
                     /\ Wrote(p)' <=> Wrote(p)
                     /\ p # q => /\ Writing(p)' <=> Writing(p)
                                 /\ pc'[p] = pc[p] /\ tuple'[p] = tuple[p]
  BY <1>1 DEF Target, IsPost, Wrote, Writing, TypeOK
<1>7. pc'[q] = "check" /\ tuple'[q] = new
  BY <1>1 DEF TypeOK
<1>8. Shape'
  BY <1>1, <1>2, <1>4, <1>6, <1>7 DEF Shape
<1>9. OwnVersion'
  <2>1. /\ new.version = q /\ new.status = "confirmed"
        /\ new.table = call[q].table /\ new.window = call[q].window
    BY DEF new
  <2> QED BY <2>1, <1>1, <1>6, <1>7 DEF OwnVersion
<1>10. Entered'
  BY <1>1, <1>6 DEF Entered
<1>11. Anchored'
  <2>1. \A p \in Req : Edited(p, read[p])' = Edited(p, read[p])
    BY <1>1 DEF Edited
  <2> QED BY <1>1, <1>2, <1>6, <2>1 DEF Anchored
<1>12. VersionsTell'
  BY <1>1, <1>6 DEF VersionsTell, Committed
<1>13. RowLocked'
  <2>1. Target(q) = q
    BY <1>2 DEF Target
  <2>2. rows[q] = None
    BY <1>1 DEF Entered, Wrote
  <2>3. ASSUME NEW p \in Req \ {q}, Writing(p)
        PROVE  Target(p) # q
    <3>1. CASE IsPost(p)
      BY <3>1 DEF Target
    <3>2. CASE ~IsPost(p)
      <4>1. call[p] # None /\ rows[Target(p)] = read[p] /\ read[p] # None
        BY <2>3, <3>2 DEF Anchored, Shape, Writing
      <4> QED BY <4>1, <2>2
    <3> QED BY <3>1, <3>2
  <2> QED BY <1>6, <2>1, <2>3 DEF RowLocked
<1>14. NoClash'
  BY <1>1, <1>6, <1>7 DEF NoClash
<1> QED BY <1>5, <1>8, <1>9, <1>10, <1>11, <1>12, <1>13, <1>14

LEMMA CheckFailsKeepsInv ==
    ASSUME Inv, NEW q \in Req, CheckFails(q)
    PROVE  Inv'
<1>1. Fail(q, IF IsPost(q) THEN 409 ELSE 500) /\ pc[q] = "check"
  BY DEF CheckFails
<1> QED BY <1>1, FailKeepsInv DEF Codes

LEMMA AbortDeadlockKeepsInv ==
    ASSUME Inv, NEW q \in Req, AbortDeadlock(q)
    PROVE  Inv'
<1>1. Blockers(q) # {}
  BY DEF AbortDeadlock, Deadlocked
<1>2. pc[q] \in {"lock", "update", "wait"}
  BY <1>1 DEF Blockers
<1> QED BY <1>2, FailKeepsInv DEF AbortDeadlock, Codes

LEMMA CheckWaitsKeepsInv ==
    ASSUME Inv, NEW q \in Req, CheckWaits(q)
    PROVE  Inv'
<1>1. /\ pc[q] = "check" /\ pc' = [pc EXCEPT ![q] = "wait"]
      /\ UNCHANGED <<rows, call, named, read, tuple, reply>>
      /\ waits' \in [Req -> Req \cup {None}] /\ waits'[q] \in Req
      /\ \A p \in Req \ {q} : waits'[p] = waits[p]
  BY DEF CheckWaits, Goto, Undecided, Inv, TypeOK
<1>2. TypeOK' /\ OwnVersion' /\ Entered' /\ Anchored' /\ VersionsTell' /\ RowLocked'
  BY <1>1, MoveKeepsMost DEF States
<1>3. Shape'
  BY <1>1 DEF Inv, Shape, IsPost, TypeOK
<1>4. NoClash'
  BY <1>1 DEF Inv, NoClash, Target, IsPost, TypeOK
<1> QED BY <1>2, <1>3, <1>4 DEF Inv

LEMMA ResumeKeepsInv ==
    ASSUME Inv, NEW q \in Req, Resume(q)
    PROVE  Inv'
<1>1. /\ pc[q] = "wait" /\ pc' = [pc EXCEPT ![q] = "check"]
      /\ UNCHANGED <<rows, call, named, read, tuple, reply>>
      /\ waits' \in [Req -> Req \cup {None}]
      /\ \A p \in Req \ {q} : waits'[p] = waits[p]
  BY DEF Resume, Goto, Inv, TypeOK
<1>2. TypeOK' /\ OwnVersion' /\ Entered' /\ Anchored' /\ VersionsTell' /\ RowLocked'
  BY <1>1, MoveKeepsMost DEF States
<1>3. Shape'
  BY <1>1 DEF Inv, Shape, IsPost, TypeOK
<1>4. NoClash'
  BY <1>1 DEF Inv, NoClash, Target, IsPost, TypeOK
<1> QED BY <1>2, <1>3, <1>4 DEF Inv

\* The heart of it: a check that passes has seen every row version, committed
\* or not, that could clash with the one it is about.
LEMMA CheckPassesKeepsInv ==
    ASSUME Inv, NEW q \in Req, CheckPasses(q)
    PROVE  Inv'
<1>1. /\ pc[q] = "check" /\ pc' = [pc EXCEPT ![q] = "commit"]
      /\ UNCHANGED <<rows, call, named, read, tuple, waits, reply>>
      /\ Standing(q) = {} /\ Undecided(q) = {}
  BY DEF CheckPasses, Goto
<1>2. TypeOK' /\ OwnVersion' /\ Entered' /\ Anchored' /\ VersionsTell' /\ RowLocked'
  BY <1>1, MoveKeepsMost DEF States, Inv, TypeOK
<1>3. Shape'
  BY <1>1 DEF Inv, Shape, IsPost, TypeOK
<1>4. Writing(q)
  BY <1>1 DEF Inv, Shape, Writing
<1>5. ASSUME NEW r \in Row \ {Target(q)}
      PROVE  ~Clash(rows[r], tuple[q])
  <2>1. SUFFICES ASSUME Clash(rows[r], tuple[q])  PROVE FALSE
    OBVIOUS
  <2>2. PICK p \in Req \ {q} : Writing(p) /\ Target(p) = r
    BY <1>1, <2>1 DEF Standing
  <2>3. p \in Undecided(q)
    BY <2>1, <2>2 DEF Undecided
  <2> QED BY <1>1, <2>3
<1>6. ASSUME NEW p \in Req \ {q}, pc[p] = "commit", tuple[p] # None
      PROVE  ~Clash(tuple[p], tuple[q]) /\ ~Clash(tuple[q], tuple[p])
  <2>1. Writing(p)
    BY <1>6 DEF Writing
  <2>2. Target(p) # Target(q)
    BY <1>4, <2>1 DEF Inv, RowLocked
  <2>3. ~Clash(tuple[p], tuple[q])
    BY <1>1, <2>1, <2>2 DEF Undecided
  <2> QED BY <2>3, ClashSymmetric
<1>7. \A p \in Req : /\ Target(p)' = Target(p)
                     /\ p # q => pc'[p] = pc[p]
  BY <1>1 DEF Target, IsPost, Inv, TypeOK
<1>8. NoClash'
  BY <1>1, <1>5, <1>6, <1>7 DEF Inv, NoClash
<1> QED BY <1>2, <1>3, <1>8 DEF Inv

LEMMA ArriveKeepsInv ==
    ASSUME Inv, NEW q \in Req, Arrive(q)
    PROVE  Inv'
<1> USE DEF Inv
<1>1. PICK c \in Plan[q] :
        /\ call' = [call EXCEPT ![q] = c]
        /\ \/ c.op = "POST" /\ pc' = [pc EXCEPT ![q] = "lock"] /\ named' = named
           \/ /\ c.op # "POST" /\ pc' = [pc EXCEPT ![q] = "load"]
              /\ \E h \in Headers(c.row) : named' = [named EXCEPT ![q] = h]
  BY DEF Arrive, Goto
<1>2. pc[q] = "idle" /\ UNCHANGED <<rows, read, tuple, waits, reply>>
  BY DEF Arrive
<1>3. c \in Call /\ c # None
  BY PlanAssumption
<1>4. call[q] = None /\ tuple[q] = None /\ read[q] = None /\ reply[q] = None
  BY <1>2 DEF Shape
<1>5. TypeOK'
  <2>1. \A r : Headers(r) \subseteq {None} \cup SUBSET (Version \cup {Star})
    BY DEF Headers, Carried, Version, Row
  <2>2. named' \in [Req -> {None} \cup SUBSET (Version \cup {Star})]
    BY <1>1, <2>1 DEF TypeOK
  <2> QED BY <1>1, <1>2, <1>3, <2>2 DEF TypeOK, States
<1>6. \A p \in Req \ {q} : /\ pc'[p] = pc[p] /\ call'[p] = call[p]
                           /\ Target(p)' = Target(p) /\ IsPost(p)' = IsPost(p)
  BY <1>1 DEF Target, IsPost, TypeOK
<1>7. \A p \in Req : /\ Writing(p)' => Writing(p) /\ p # q
                     /\ Wrote(p)' <=> Wrote(p)
                     /\ Wrote(p) => p # q
  BY <1>2, <1>4, <1>6 DEF Writing, Wrote
<1>8. /\ call'[q] = c /\ pc'[q] \in {"lock", "load"}
      /\ pc'[q] = "lock" <=> IsPost(q)'
  BY <1>1 DEF IsPost, TypeOK
<1>9. Shape'
  BY <1>2, <1>3, <1>4, <1>6, <1>8 DEF Shape
<1>10. OwnVersion'
  BY <1>2, <1>4, <1>6 DEF OwnVersion
<1>11. Entered'
  BY <1>2, <1>6, <1>7 DEF Entered
<1>12. Anchored'
  <2>1. \A p \in Req \ {q} : Edited(p, read[p])' = Edited(p, read[p])
    BY <1>2, <1>6 DEF Edited
  <2> QED BY <1>2, <1>4, <1>6, <1>7, <1>8, <2>1 DEF Anchored
<1>13. VersionsTell'
  BY <1>2, <1>4, <1>6, <1>7 DEF VersionsTell, Committed
<1>14. RowLocked'
  BY <1>6, <1>7 DEF RowLocked
<1>15. NoClash'
  BY <1>2, <1>4, <1>6 DEF NoClash
<1> QED BY <1>5, <1>9, <1>10, <1>11, <1>12, <1>13, <1>14, <1>15

LEMMA LoadKeepsInv ==
    ASSUME Inv, NEW q \in Req, Load(q)
    PROVE  Inv'
<1> USE DEF Inv
<1> DEFINE r == rows[Target(q)]
<1>1. CASE EditRefusal(q, r) # 0
  <2>1. EditRefusal(q, r) \in Codes
    BY <1>1 DEF EditRefusal, HeaderRefusal, Codes
  <2> QED BY <1>1, <2>1, FailKeepsInv DEF Load
<1>2. CASE EditRefusal(q, r) = 0
  <2>1. /\ pc[q] = "load" /\ read' = [read EXCEPT ![q] = r]
        /\ pc' = [pc EXCEPT ![q] = IF Edited(q, r) = r THEN "commit" ELSE "update"]
        /\ UNCHANGED <<rows, call, named, tuple, waits, reply>>
    BY <1>2 DEF Load, Goto
  <2>2. call[q] # None /\ ~IsPost(q) /\ tuple[q] = None
    BY <2>1 DEF Shape
  <2>3. Target(q) \in Row /\ r # None /\ r \in Tuple
    BY <1>2, <2>2, EditFields DEF EditRefusal, TypeOK
  <2>4. TypeOK'
    BY <2>1, <2>3 DEF TypeOK, States
  <2>5. \A p \in Req : /\ Target(p)' = Target(p) /\ IsPost(p)' = IsPost(p)
                       /\ Writing(p)' <=> Writing(p)
                       /\ Wrote(p)' <=> Wrote(p)
                       /\ p # q => pc'[p] = pc[p] /\ read'[p] = read[p]
    BY <2>1, <2>2 DEF Target, IsPost, Writing, Wrote, TypeOK
  <2>6. /\ read'[q] = r /\ pc'[q] \in {"commit", "update"}
        /\ pc'[q] = "commit" => Edited(q, r) = r
    BY <2>1 DEF TypeOK
  <2>7. ~Writing(q)
    BY <2>2 DEF Writing
  <2>8. Shape'
    BY <2>1, <2>2, <2>5, <2>6 DEF Shape
  <2>9. OwnVersion'
    BY <2>1, <2>5 DEF OwnVersion
  <2>10. Entered'
    BY <2>1, <2>5 DEF Entered
  <2>11. Anchored'
    <3>1. \A p \in Req \ {q} : Edited(p, read[p])' = Edited(p, read[p])
      BY <2>1, <2>5 DEF Edited
    <3>2. Edited(q, read[q])' = Edited(q, r)
      <4>1. call' = call /\ read'[q] = r
        BY <2>1, <2>6
      <4> HIDE DEF r
      <4> QED BY <4>1 DEF Edited
    <3> QED BY <2>1, <2>2, <2>3, <2>5, <2>6, <2>7, <3>1, <3>2 DEF Anchored
  <2>12. VersionsTell'
    BY <2>1, <2>3, <2>5, <2>6 DEF VersionsTell, Committed
  <2>13. RowLocked'
    BY <2>5 DEF RowLocked
  <2>14. NoClash'
    BY <2>1, <2>2, <2>5 DEF NoClash
  <2> QED BY <2>4, <2>8, <2>9, <2>10, <2>11, <2>12, <2>13, <2>14
<1> QED BY <1>1, <1>2

\* The version in the WHERE clause makes an UPDATE start from the very row
\* that was read; when no index is touched, the row already held its slot.
LEMMA UpdateKeepsInv ==
    ASSUME Inv, NEW q \in Req, Update(q)
    PROVE  Inv'
<1> USE DEF Inv
<1> DEFINE new == [Edited(q, rows[Target(q)]) EXCEPT !.version = q]
<1>1. pc[q] = "update" /\ RowHolders(q) = {}
  BY DEF Update
<1>2. CASE ~VersionMatches(q)
  <2>1. Fail(q, 409)
    BY <1>2 DEF Update
  <2> QED BY <1>1, <2>1, FailKeepsInv DEF Codes
<1>3. CASE VersionMatches(q)
  <2>1. PICK i \in Indexed(q, new) :
          /\ pc' = [pc EXCEPT ![q] = IF i THEN "check" ELSE "commit"]
          /\ tuple' = [tuple EXCEPT ![q] = new]
          /\ UNCHANGED <<rows, call, named, read, waits, reply>>
    BY <1>3 DEF Update, Goto
  <2>2. call[q] # None /\ ~IsPost(q) /\ tuple[q] = None
    BY <1>1 DEF Shape
  <2>3. read[q] # None /\ rows[Target(q)] # None /\ Target(q) \in Row
    BY <1>1, <2>2, EditFields DEF Anchored
  <2>4. rows[Target(q)] = read[q] /\ rows[Target(q)] \in Tuple
    BY <1>3, <2>3 DEF VersionsTell, VersionMatches, TypeOK
  <2>5. /\ Edited(q, rows[Target(q)]) \in Tuple
        /\ Edited(q, rows[Target(q)]).table = rows[Target(q)].table
        /\ Edited(q, rows[Target(q)]).window = rows[Target(q)].window
    BY <2>2, <2>4, EditedType
  <2>6. /\ new \in Tuple /\ new # None /\ new.version = q
        /\ new.table = rows[Target(q)].table
        /\ new.window = rows[Target(q)].window
    <3> DEFINE e == Edited(q, rows[Target(q)])
    <3>1. e \in Tuple /\ e.table = rows[Target(q)].table /\ e.window = rows[Target(q)].window
      BY <2>5
    <3> HIDE DEF e
    <3>2. [e EXCEPT !.version = q] \in Tuple
      BY <3>1 DEF Tuple, Version, Row
    <3>3. /\ [e EXCEPT !.version = q].version = q
          /\ [e EXCEPT !.version = q].table = e.table
          /\ [e EXCEPT !.version = q].window = e.window
      BY <3>1 DEF Tuple
    <3> QED BY <3>1, <3>2, <3>3, NoneAssumption DEF e
  <2>7. i = FALSE => (~Active(new) \/ new.status = rows[Target(q)].status)
    BY DEF Indexed
  <2>8. new = [Edited(q, read[q]) EXCEPT !.version = q]
    BY <2>4
  <2> HIDE DEF new
  <2>9. TypeOK'
    BY <2>1, <2>6 DEF TypeOK, States
  <2>10. \A p \in Req : /\ Target(p)' = Target(p) /\ IsPost(p)' = IsPost(p)
                        /\ Wrote(p)' <=> Wrote(p)
                        /\ p # q => /\ Writing(p)' <=> Writing(p)
                                    /\ pc'[p] = pc[p] /\ tuple'[p] = tuple[p]
    BY <1>1, <2>1 DEF Target, IsPost, Writing, Wrote, TypeOK
  <2>11. /\ pc'[q] \in {"check", "commit"} /\ tuple'[q] = new
         /\ pc'[q] = "commit" => i = FALSE
    BY <2>1 DEF TypeOK, Indexed
  <2>12. Shape'
    BY <2>1, <2>2, <2>6, <2>10, <2>11, <1>1 DEF Shape
  <2>13. OwnVersion'
    BY <2>1, <2>2, <2>6, <2>10, <2>11 DEF OwnVersion
  <2>14. Entered'
    BY <2>1, <2>10 DEF Entered
  <2>15. \A p \in Req : Edited(p, read[p])' = Edited(p, read[p])
    BY <2>1 DEF Edited
  <2>16. Anchored'
    BY <1>1, <2>1, <2>2, <2>3, <2>4, <2>6, <2>8, <2>10, <2>11, <2>15 DEF Anchored
  <2>17. VersionsTell'
    BY <2>1, <2>10 DEF VersionsTell, Committed
  <2>18. RowLocked'
    <3>1. \A p \in Req \ {q} : Writing(p) => Target(p) # Target(q)
      BY <1>1 DEF RowHolders
    <3> QED BY <2>10, <3>1 DEF RowLocked
  <2>19. ASSUME pc'[q] = "commit"
         PROVE  /\ \A r \in Row \ {Target(q)} : ~Clash(rows[r], new)
                /\ \A p \in Req \ {q} :
                      (pc[p] = "commit" /\ tuple[p] # None) =>
                         ~Clash(tuple[p], new) /\ ~Clash(new, tuple[p])
    <3>1. \A t : Clash(t, new) => Clash(t, rows[Target(q)])
      BY <2>3, <2>6, <2>7, <2>11, <2>19 DEF Clash, Active
    <3>2. ASSUME NEW r \in Row \ {Target(q)}  PROVE ~Clash(rows[r], new)
      BY <2>3, <3>1 DEF NoClash
    <3>3. ASSUME NEW p \in Req \ {q}, pc[p] = "commit", tuple[p] # None
          PROVE  ~Clash(tuple[p], new)
      <4>1. Writing(p)
        BY <3>3 DEF Writing
      <4>2. Target(q) \in Row \ {Target(p)}
        BY <1>1, <2>3, <4>1 DEF RowHolders
      <4>3. ~Clash(rows[Target(q)], tuple[p])
        BY <3>3, <4>2 DEF NoClash
      <4> QED BY <3>1, <4>3, ClashSymmetric
    <3> QED BY <3>2, <3>3, ClashSymmetric
  <2>20. NoClash'
    BY <2>1, <2>10, <2>11, <2>19 DEF NoClash
  <2> QED BY <2>9, <2>12, <2>13, <2>14, <2>16, <2>17, <2>18, <2>20
<1> QED BY <1>2, <1>3

LEMMA DieKeepsInv ==
    ASSUME Inv, NEW q \in Req, Die(q)
    PROVE  Inv'
<1> USE DEF Inv
<1>1. /\ UNCHANGED <<rows, call, named, read, waits, reply>>
      /\ pc[q] \in States \ {"idle", "done", "lost", "unheard"}
      /\ \/ /\ pc[q] = "reload" /\ pc' = [pc EXCEPT ![q] = "unheard"]
            /\ tuple' = tuple
         \/ /\ pc[q] # "reload" /\ pc' = [pc EXCEPT ![q] = "lost"]
            /\ tuple' = [tuple EXCEPT ![q] = None]
  BY DEF Die, Goto
<1>2. TypeOK'
  BY <1>1 DEF TypeOK, States
<1>3. \A p \in Req : /\ Target(p)' = Target(p) /\ IsPost(p)' = IsPost(p)
                     /\ p # q => pc'[p] = pc[p] /\ tuple'[p] = tuple[p]
  BY <1>1 DEF Target, IsPost, TypeOK
<1>4. /\ pc'[q] \in {"unheard", "lost"}
      /\ tuple'[q] \in {tuple[q], None}
      /\ pc'[q] = "lost" => tuple'[q] = None
      /\ pc'[q] = "unheard" => pc[q] = "reload" /\ tuple'[q] = tuple[q]
      /\ pc'[q] = "lost" => pc[q] # "reload"
  BY <1>1 DEF TypeOK
<1>5. \A p \in Req : /\ Wrote(p)' <=> Wrote(p)
                     /\ Writing(p)' => Writing(p) /\ p # q
  BY <1>1, <1>3, <1>4 DEF Wrote, Writing, Shape
<1>6. Shape'
  BY <1>1, <1>3, <1>4 DEF Shape
<1>7. OwnVersion'
  BY <1>1, <1>3, <1>4 DEF OwnVersion
<1>8. Entered'
  BY <1>1, <1>3, <1>5 DEF Entered
<1>9. Anchored'
  <2>1. \A p \in Req : Edited(p, read[p])' = Edited(p, read[p])
    BY <1>1 DEF Edited
  <2> QED BY <1>1, <1>3, <1>4, <1>5, <2>1 DEF Anchored
<1>10. VersionsTell'
  BY <1>1, <1>3, <1>5 DEF VersionsTell, Committed
<1>11. RowLocked'
  BY <1>3, <1>5 DEF RowLocked
<1>12. NoClash'
  BY <1>1, <1>3, <1>4 DEF NoClash
<1> QED BY <1>2, <1>6, <1>7, <1>8, <1>9, <1>10, <1>11, <1>12

LEMMA ReloadKeepsInv ==
    ASSUME Inv, NEW q \in Req, Reload(q)
    PROVE  Inv'
<1> USE DEF Inv
<1> DEFINE body == [code |-> IF IsPost(q) THEN 201 ELSE 200, row |-> rows[Target(q)]]
<1>1. /\ pc[q] = "reload" /\ pc' = [pc EXCEPT ![q] = "done"]
      /\ reply' = [reply EXCEPT ![q] = body]
      /\ UNCHANGED <<rows, call, named, read, tuple, waits>>
  BY DEF Reload, Send, Goto
<1>2. call[q] # None
  BY <1>1 DEF Shape
<1>3. Target(q) \in Row
  BY <1>2, PostFields, EditFields
<1>4. body \in Response /\ body # None
  BY <1>3, NoneIsNothingElse DEF Response, Codes, TypeOK
<1> HIDE DEF body
<1>5. TypeOK'
  BY <1>1, <1>4 DEF TypeOK, States
<1>6. \A p \in Req : /\ Target(p)' = Target(p) /\ IsPost(p)' = IsPost(p)
                     /\ Writing(p)' <=> Writing(p)
                     /\ Wrote(p)' <=> Wrote(p)
                     /\ p # q => pc'[p] = pc[p] /\ reply'[p] = reply[p]
  BY <1>1 DEF Target, IsPost, Writing, Wrote, TypeOK
<1>7. pc'[q] = "done" /\ reply'[q] # None
  BY <1>1, <1>4 DEF TypeOK
<1>8. Shape'
  BY <1>1, <1>6, <1>7 DEF Shape
<1>9. OwnVersion'
  BY <1>1, <1>6 DEF OwnVersion
<1>10. Entered'
  BY <1>1, <1>6 DEF Entered
<1>11. Anchored'
  <2>1. \A p \in Req : Edited(p, read[p])' = Edited(p, read[p])
    BY <1>1 DEF Edited
  <2> QED BY <1>1, <1>6, <1>7, <2>1 DEF Anchored
<1>12. VersionsTell'
  BY <1>1, <1>6 DEF VersionsTell, Committed
<1>13. RowLocked'
  BY <1>6 DEF RowLocked
<1>14. NoClash'
  BY <1>1, <1>6, <1>7 DEF NoClash
<1> QED BY <1>5, <1>8, <1>9, <1>10, <1>11, <1>12, <1>13, <1>14

\* What a commit makes visible has already been compared with all the rest.
LEMMA CommitKeepsInv ==
    ASSUME Inv, NEW q \in Req, Commit(q)
    PROVE  Inv'
<1> USE DEF Inv
<1> DEFINE T == Target(q)
<1>1. /\ pc[q] = "commit" /\ pc' = [pc EXCEPT ![q] = "reload"]
      /\ UNCHANGED <<call, named, read, tuple, waits, reply>>
      /\ rows' = IF tuple[q] = None THEN rows ELSE [rows EXCEPT ![T] = tuple[q]]
  BY DEF Commit, Goto
<1>2. call[q] # None
  BY <1>1 DEF Shape
<1>3. T \in Row
  BY <1>2, PostFields, EditFields
<1>4. \A p \in Req : /\ Target(p)' = Target(p) /\ IsPost(p)' = IsPost(p)
                     /\ p # q => pc'[p] = pc[p]
  BY <1>1 DEF Target, IsPost, TypeOK
<1>5. pc'[q] = "reload"
  BY <1>1 DEF TypeOK
<1>6. \A p \in Req : /\ Writing(p)' <=> (Writing(p) /\ p # q)
                     /\ Wrote(p)' <=> (Wrote(p) \/ (p = q /\ tuple[q] # None))
  BY <1>1, <1>4, <1>5 DEF Writing, Wrote
<1> HIDE DEF T
<1>7. TypeOK'
  BY <1>1, <1>3 DEF TypeOK, States
<1>8. Shape'
  BY <1>1, <1>4, <1>5 DEF Shape
<1>9. OwnVersion'
  BY <1>1, <1>4 DEF OwnVersion
<1>10. \A r \in Row : /\ (r # T \/ tuple[q] = None) => rows'[r] = rows[r]
                      /\ (r = T /\ tuple[q] # None) => rows'[r] = tuple[q]
  BY <1>1, <1>3 DEF TypeOK
<1>11. Entered'
  <2> SUFFICES ASSUME NEW p \in Req
               PROVE  rows'[p] # None <=> (call[p] # None /\ IsPost(p) /\ Wrote(p)')
    BY <1>1, <1>4 DEF Entered
  <2>0. p \in Row
    BY DEF Row
  <2>1. CASE T # p \/ tuple[q] = None
    <3>1. (p = q /\ IsPost(q)) => tuple[q] = None
      BY <2>1, <1>2 DEF T, Target
    <3> QED BY <2>0, <2>1, <3>1, <1>6, <1>10 DEF Entered
  <2>2. CASE T = p /\ tuple[q] # None
    <3>1. CASE IsPost(q)
      <4>1. p = q
        BY <2>2, <3>1 DEF T, Target
      <4> QED BY <2>0, <2>2, <3>1, <4>1, <1>2, <1>6, <1>10
    <3>2. CASE ~IsPost(q)
      <4>1. rows[p] # None
        BY <1>1, <1>2, <2>2, <3>2 DEF Anchored, T
      <4> QED BY <2>0, <2>2, <4>1, <1>6, <1>10 DEF Entered
    <3> QED BY <3>1, <3>2
  <2> QED BY <2>1, <2>2
<1>12. \A p \in Req : p # q /\ Writing(p) /\ tuple[q] # None => Target(p) # T
  BY <1>1 DEF RowLocked, Writing, T
<1>13. Anchored'
  <2> SUFFICES ASSUME NEW p \in Req, call[p] # None, ~IsPost(p)
               PROVE  /\ pc'[p] \in {"update", "check", "wait", "commit", "reload"}
                           => read[p] # None
                      /\ (pc'[p] \in {"commit", "reload"} /\ tuple[p] = None)
                           => Edited(p, read[p]) = read[p]
                      /\ read[p] # None => rows'[Target(p)] # None
                      /\ Writing(p)' => /\ rows'[Target(p)] = read[p]
                                        /\ tuple[p] = [Edited(p, read[p]) EXCEPT !.version = p]
    <3>1. \A p \in Req : Edited(p, read[p])' = Edited(p, read[p])
      BY <1>1 DEF Edited
    <3> QED BY <1>1, <1>4, <3>1 DEF Anchored
  <2>1. Target(p) \in Row
    BY EditFields
  <2>2. read[p] # None => rows'[Target(p)] # None
    BY <2>1, <1>10 DEF Anchored
  <2>3. Writing(p)' => /\ rows'[Target(p)] = read[p]
                       /\ tuple[p] = [Edited(p, read[p]) EXCEPT !.version = p]
    BY <2>1, <1>6, <1>10, <1>12 DEF Anchored
  <2>4. pc'[p] \in {"update", "check", "wait", "commit", "reload"}
           => pc[p] \in {"update", "check", "wait", "commit", "reload"}
    BY <1>1, <1>4
  <2>5. pc'[p] \in {"commit", "reload"} => pc[p] \in {"commit", "reload"}
    BY <1>1, <1>4
  <2> QED BY <2>2, <2>3, <2>4, <2>5 DEF Anchored
<1>14. VersionsTell'
  <2>1. q \notin Committed
    BY <1>1, SeedAssumption DEF Committed, Wrote
  <2>2. /\ Committed \subseteq Committed'
        /\ tuple[q] # None => q \in Committed'
    BY <1>6 DEF Committed
  <2>3. tuple[q] # None => tuple[q].version = q
    BY DEF OwnVersion
  <2>4. \A r \in Row : rows'[r] # None => rows'[r].version \in Committed'
    BY <1>10, <2>2, <2>3 DEF VersionsTell
  <2>5. ASSUME NEW p \in Req, read[p] # None
        PROVE  /\ read[p].version \in Committed'
               /\ (rows'[Target(p)] # None /\ rows'[Target(p)].version = read[p].version)
                     => rows'[Target(p)] = read[p]
    <3>1. read[p].version \in Committed /\ read[p].version # q
      BY <2>1, <2>5 DEF VersionsTell
    <3>2. call[p] # None
      BY <2>5 DEF Shape
    <3>3. Target(p) \in Row
      BY <3>2, PostFields, EditFields
    <3> QED BY <3>1, <3>3, <2>2, <2>3, <2>5, <1>10 DEF VersionsTell
  <2> QED BY <1>1, <1>4, <2>4, <2>5 DEF VersionsTell
<1>15. RowLocked'
  BY <1>4, <1>6 DEF RowLocked
<1>16. NoClash'
  <2>1. ASSUME NEW r1 \in Row, NEW r2 \in Row, r1 # r2
        PROVE  ~Clash(rows'[r1], rows'[r2])
    <3>1. CASE tuple[q] = None
      BY <2>1, <3>1, <1>10 DEF NoClash
    <3>2. CASE tuple[q] # None
      <4>1. \A r \in Row \ {T} : ~Clash(rows[r], tuple[q]) /\ ~Clash(tuple[q], rows[r])
        BY <1>1, <3>2, ClashSymmetric DEF NoClash, T
      <4> QED BY <2>1, <3>2, <4>1, <1>10 DEF NoClash
    <3> QED BY <3>1, <3>2
  <2>2. ASSUME NEW p \in Req, pc'[p] = "commit", tuple[p] # None
        PROVE  /\ \A r \in Row \ {Target(p)} : ~Clash(rows'[r], tuple[p])
               /\ \A o \in Req \ {p} :
                     (pc'[o] = "commit" /\ tuple[o] # None) => ~Clash(tuple[o], tuple[p])
    <3>1. p # q /\ pc[p] = "commit"
      BY <1>4, <1>5, <2>2
    <3>2. ASSUME NEW r \in Row \ {Target(p)}  PROVE ~Clash(rows'[r], tuple[p])
      <4>1. tuple[q] # None => ~Clash(tuple[q], tuple[p])
        BY <1>1, <2>2, <3>1 DEF NoClash
      <4>2. ~Clash(rows[r], tuple[p])
        BY <2>2, <3>1 DEF NoClash
      <4> QED BY <1>10, <4>1, <4>2
    <3>3. ASSUME NEW o \in Req \ {p}, pc'[o] = "commit", tuple[o] # None
          PROVE  ~Clash(tuple[o], tuple[p])
      BY <1>4, <1>5, <2>2, <3>1, <3>3 DEF NoClash
    <3> QED BY <3>2, <3>3
  <2> QED BY <1>1, <1>4, <2>1, <2>2 DEF NoClash
<1> QED BY <1>7, <1>8, <1>9, <1>11, <1>13, <1>14, <1>15, <1>16

LEMMA InitInv == Init => Inv
<1> SUFFICES ASSUME Init PROVE Inv
  OBVIOUS
<1>1. \A s \in Seed : Stored[s] \in Tuple /\ Stored[s] # None
  BY StoredAssumption, NoneAssumption
<1>2. TypeOK
  BY <1>1 DEF Init, TypeOK, States
<1>3. \A q \in Req : /\ call[q] = None /\ pc[q] = "idle" /\ read[q] = None
                     /\ tuple[q] = None /\ reply[q] = None /\ rows[q] = None
                     /\ ~Writing(q) /\ ~Wrote(q)
  BY SeedAssumption DEF Init, Row, Writing, Wrote
<1>4. Shape /\ OwnVersion /\ Entered /\ Anchored /\ RowLocked
  BY <1>3 DEF Shape, OwnVersion, Entered, Anchored, RowLocked
<1>5. VersionsTell
  BY <1>3, StoredAssumption DEF VersionsTell, Init, Row, Committed
<1>6. NoClash
  BY <1>3, StoredAssumption DEF NoClash, Init, Row, Clash, Active
<1> QED BY <1>2, <1>4, <1>5, <1>6 DEF Inv

\* Nothing happens: nothing changes.
LEMMA StutterKeepsInv ==
    ASSUME Inv, UNCHANGED vars
    PROVE  Inv'
<1> USE DEF vars
<1>1. TypeOK' /\ Shape' /\ OwnVersion'
  BY DEF Inv, TypeOK, Shape, OwnVersion, IsPost
<1>2. \A p \in Req : /\ Target(p)' = Target(p) /\ IsPost(p)' = IsPost(p)
                     /\ Writing(p)' <=> Writing(p)
                     /\ Wrote(p)' <=> Wrote(p)
  BY DEF Target, IsPost, Writing, Wrote
<1>3. \A p \in Req : Edited(p, read[p])' = Edited(p, read[p])
  BY DEF Edited
<1>4. Entered' /\ VersionsTell' /\ RowLocked' /\ NoClash'
  BY <1>2 DEF Inv, Entered, VersionsTell, Committed, RowLocked, NoClash
<1>5. Anchored'
  BY <1>2, <1>3 DEF Inv, Anchored
<1> QED BY <1>1, <1>4, <1>5 DEF Inv

LEMMA NextKeepsInv ==
    ASSUME Inv, [Next]_vars
    PROVE  Inv'
<1>1. ASSUME NEW q \in Req, Step(q)
      PROVE  Inv'
  BY <1>1, LockTableKeepsInv, InsertKeepsInv, LoadKeepsInv, UpdateKeepsInv,
     CheckPassesKeepsInv, CheckWaitsKeepsInv, ResumeKeepsInv, CheckFailsKeepsInv,
     AbortDeadlockKeepsInv, CommitKeepsInv, ReloadKeepsInv DEF Step
<1>2. CASE UNCHANGED vars
  BY <1>2, StutterKeepsInv
<1>3. CASE Rest
  BY <1>3, StutterKeepsInv DEF Rest
<1> QED BY <1>1, <1>2, <1>3, ArriveKeepsInv, DieKeepsInv DEF Next

\* The inductive invariant holds in every reachable state.
THEOREM InvHolds == Spec => []Inv
BY InitInv, NextKeepsInv, PTL DEF Spec

\* Every variable keeps its type.
THEOREM TypeCorrect == Spec => []TypeOK
<1>1. Inv => TypeOK
  BY DEF Inv
<1> QED BY <1>1, InvHolds, PTL

\* No table is ever held by two reservations at one instant, for any number of
\* concurrent bookings, edits, cancellations and dying workers.
THEOREM NeverDoubleBooked == Spec => []NoDoubleBooking
<1>1. Inv => NoDoubleBooking
  BY DoubleBookedClash DEF Inv, NoClash, NoDoubleBooking, Exclusive, TypeOK
<1> QED BY <1>1, InvHolds, PTL

-----------------------------------------------------------------------------
(* No lost update.                                                         *)

\* Only a request that waits for a lock is ever the victim of a deadlock.
LEMMA DeadlockedWaits ==
    ASSUME NEW q \in Req, Deadlocked(q)
    PROVE  pc[q] \in {"lock", "update", "wait"}
<1>1. Blockers(q) # {}
  BY DEF Deadlocked
<1> QED BY <1>1 DEF Blockers

\* A request whose transaction is complete can only commit or lose its worker.
LEMMA StepAtCommit ==
    ASSUME NEW q \in Req, pc[q] = "commit", Arrive(q) \/ Step(q) \/ Die(q)
    PROVE  Commit(q) \/ Die(q)
<1>1. ~AbortDeadlock(q)
  BY DeadlockedWaits DEF AbortDeadlock
<1>2. ~(\/ LockTable(q) \/ Insert(q) \/ Load(q) \/ Update(q) \/ CheckPasses(q)
        \/ CheckWaits(q) \/ Resume(q) \/ CheckFails(q) \/ Reload(q))
  BY DEF LockTable, Insert, Load, Update, CheckPasses, CheckWaits, Resume, CheckFails, Reload
<1> QED BY <1>1, <1>2 DEF Step, Arrive

\* What a step of one request does to the variables of its own.
LEMMA StepChangesItself ==
    ASSUME Inv, NEW q \in Req, Arrive(q) \/ Step(q) \/ Die(q)
    PROVE  /\ \A p \in Req \ {q} : /\ pc'[p] = pc[p] /\ call'[p] = call[p]
                                   /\ named'[p] = named[p] /\ read'[p] = read[p]
                                   /\ tuple'[p] = tuple[p] /\ reply'[p] = reply[p]
           /\ pc[q] # "idle" => call'[q] = call[q] /\ named'[q] = named[q]
           /\ read[q] # None => read'[q] = read[q]
           /\ pc[q] # "reload" => ~Wrote(q)
           /\ reply[q] = None
           /\ pc[q] # "commit" => rows' = rows
<1>1. reply[q] = None /\ (pc[q] # "reload" => ~Wrote(q))
  <2>1. pc[q] \notin {"done", "unheard", "lost"}
    <3>1. CASE Arrive(q) \/ Die(q)
      BY <3>1 DEF Arrive, Die
    <3>2. CASE LockTable(q) \/ Insert(q) \/ Load(q) \/ Update(q) \/ CheckPasses(q)
               \/ CheckWaits(q) \/ Resume(q) \/ CheckFails(q) \/ Commit(q) \/ Reload(q)
      BY <3>2 DEF LockTable, Insert, Load, Update, CheckPasses, CheckWaits, Resume,
                  CheckFails, Commit, Reload
    <3>3. CASE AbortDeadlock(q)
      BY <3>3, DeadlockedWaits DEF AbortDeadlock
    <3> QED BY <3>1, <3>2, <3>3 DEF Step
  <2> QED BY <2>1 DEF Inv, Shape, Wrote
<1> USE DEF Inv, TypeOK, Goto, Fail, Send
<1>2. CASE Arrive(q)
  BY <1>1, <1>2 DEF Arrive, Shape
<1>3. CASE LockTable(q)
  BY <1>1, <1>3 DEF LockTable
<1>4. CASE Insert(q)
  BY <1>1, <1>4 DEF Insert
<1>5. CASE Load(q)
  BY <1>1, <1>5 DEF Load, Shape
<1>6. CASE Update(q)
  BY <1>1, <1>6 DEF Update
<1>7. CASE CheckPasses(q) \/ CheckWaits(q) \/ Resume(q) \/ CheckFails(q) \/ AbortDeadlock(q)
  BY <1>1, <1>7 DEF CheckPasses, CheckWaits, Resume, CheckFails, AbortDeadlock
<1>8. CASE Commit(q)
  BY <1>1, <1>8 DEF Commit
<1>9. CASE Reload(q)
  BY <1>1, <1>9 DEF Reload
<1>10. CASE Die(q)
  BY <1>1, <1>10 DEF Die
<1> QED BY <1>2, <1>3, <1>4, <1>5, <1>6, <1>7, <1>8, <1>9, <1>10 DEF Step

\* Only a commit changes a row, and only the row its transaction wrote.
LEMMA OnlyCommitsChangeRows ==
    ASSUME Inv, [Next]_vars, NEW r \in Row, rows[r] # None, rows'[r] # rows[r]
    PROVE  \E q \in Req : /\ Commit(q) /\ tuple[q] # None
                          /\ Target(q) = r /\ rows'[r] = tuple[q]
<1>1. PICK q \in Req : Commit(q)
  <2>1. PICK q \in Req : Arrive(q) \/ Step(q) \/ Die(q)
    BY DEF Next, Rest, vars
  <2>2. pc[q] = "commit"
    BY <2>1, StepChangesItself
  <2>3. ~Die(q)
    BY DEF Die
  <2> QED BY <2>1, <2>2, <2>3, StepAtCommit
<1>2. /\ pc[q] = "commit"
      /\ rows' = IF tuple[q] = None THEN rows ELSE [rows EXCEPT ![Target(q)] = tuple[q]]
  BY <1>1 DEF Commit
<1>3. tuple[q] # None /\ Target(q) = r
  BY <1>2 DEF Inv, TypeOK
<1>4. rows'[r] = tuple[q]
  BY <1>2, <1>3 DEF Inv, TypeOK
<1> QED BY <1>1, <1>3, <1>4

\* How a row version comes to count as written, and how an answer comes about.
LEMMA StepEffects ==
    ASSUME Inv, NEW q \in Req, Arrive(q) \/ Step(q) \/ Die(q)
    PROVE  /\ Wrote(q) => Wrote(q)' /\ tuple'[q] = tuple[q]
           /\ (Wrote(q)' /\ ~Wrote(q)) => Commit(q) /\ tuple[q] # None /\ tuple'[q] = tuple[q]
           /\ (read'[q] # None /\ read[q] = None) =>
                 /\ call[q] # None /\ call'[q] = call[q] /\ named'[q] = named[q]
                 /\ read'[q] = rows[Target(q)]
                 /\ HeaderRefusal(q, rows[Target(q)]) = 0
           /\ reply'[q] # None =>
                 \/ reply'[q].code >= 400 /\ tuple'[q] = None
                 \/ Reload(q) /\ reply'[q].code < 400
<1> USE DEF Inv, TypeOK, Goto, Send, Wrote
<1>1. reply[q] = None
  BY StepChangesItself
<1>2. CASE Arrive(q)
  BY <1>1, <1>2 DEF Arrive, Shape
<1>3. CASE LockTable(q)
  <2>1. BookingRefusal(call[q]) \in {0, 404, 400}
    BY DEF BookingRefusal
  <2> QED BY <1>1, <1>3, <2>1 DEF LockTable, Fail
<1>4. CASE Insert(q)
  BY <1>1, <1>4 DEF Insert
<1>5. CASE Load(q)
  <2> DEFINE r == rows[Target(q)]
  <2>1. EditRefusal(q, r) \in {0, 403, 404, 412, 428}
    BY DEF EditRefusal, HeaderRefusal
  <2>2. EditRefusal(q, r) = 0 => HeaderRefusal(q, r) = 0
    BY DEF EditRefusal
  <2>3. call[q] # None
    BY <1>5 DEF Load, Shape
  <2>4. CASE EditRefusal(q, r) # 0
    BY <1>1, <1>5, <2>1, <2>4 DEF Load, Fail
  <2>5. CASE EditRefusal(q, r) = 0
    <3>1. /\ pc'[q] \in {"commit", "update"} /\ read'[q] = r /\ pc[q] = "load"
          /\ UNCHANGED <<call, named, tuple, reply>>
      BY <1>5, <2>5 DEF Load
    <3> QED BY <1>1, <2>2, <2>3, <2>5, <3>1
  <2> QED BY <2>4, <2>5
<1>6. CASE Update(q)
  BY <1>1, <1>6 DEF Update, Fail
<1>7. CASE CheckPasses(q) \/ CheckWaits(q) \/ Resume(q)
  BY <1>1, <1>7 DEF CheckPasses, CheckWaits, Resume
<1>8. CASE CheckFails(q) \/ AbortDeadlock(q)
  <2>1. PICK c \in {409, 500} : Fail(q, c)
    BY <1>8 DEF CheckFails, AbortDeadlock
  <2>2. pc[q] \in {"lock", "update", "check", "wait"}
    BY <1>8, DeadlockedWaits DEF CheckFails, AbortDeadlock
  <2> QED BY <2>1, <2>2 DEF Fail
<1>9. CASE Commit(q)
  BY <1>1, <1>9 DEF Commit
<1>10. CASE Reload(q)
  BY <1>1, <1>10 DEF Reload
<1>11. CASE Die(q)
  BY <1>1, <1>11 DEF Die, Shape
<1> QED BY <1>2, <1>3, <1>4, <1>5, <1>6, <1>7, <1>8, <1>9, <1>10, <1>11 DEF Step

LEMMA StepKeepsHistory ==
    ASSUME Inv, Inv', History, NEW q \in Req, Arrive(q) \/ Step(q) \/ Die(q)
    PROVE  History'
<1> USE DEF Inv, History
<1>1. \A p \in Req \ {q} : /\ pc'[p] = pc[p] /\ call'[p] = call[p]
                           /\ named'[p] = named[p] /\ read'[p] = read[p]
                           /\ tuple'[p] = tuple[p] /\ reply'[p] = reply[p]
  BY StepChangesItself
<1>2. \A p \in Req : call[p] # None =>
        /\ call'[p] = call[p] /\ named'[p] = named[p]
        /\ Target(p)' = Target(p) /\ IsPost(p)' = IsPost(p)
  BY <1>1, StepChangesItself DEF Shape, Target, IsPost
<1>3. \A p \in Req : /\ Wrote(p) \/ Writing(p) => call[p] # None
                     /\ Wrote(p)' => call[p] # None
                     /\ read[p] # None => call[p] # None /\ read'[p] = read[p]
  BY <1>1, StepChangesItself, StepEffects DEF Wrote, Writing, Shape, Commit
<1>4. \A p \in Req : Wrote(p)' =>
        \/ Wrote(p) /\ tuple'[p] = tuple[p]
        \/ p = q /\ Commit(q) /\ tuple[q] # None /\ tuple'[q] = tuple[q]
  BY <1>1, StepEffects DEF Wrote
<1>5. \/ rows' = rows
      \/ /\ Commit(q) /\ tuple[q] # None /\ Target(q) \in Row
         /\ pc[q] = "commit" /\ call[q] # None /\ ~Wrote(q)
         /\ rows'[Target(q)] = tuple[q] /\ tuple[q].version = q
         /\ \A r \in Row \ {Target(q)} : rows'[r] = rows[r]
  <2>1. CASE pc[q] # "commit"
    BY <2>1, StepChangesItself
  <2>2. CASE pc[q] = "commit"
    <3>1. Commit(q) \/ Die(q)
      BY <2>2, StepAtCommit
    <3>2. call[q] # None /\ Target(q) \in Row
      BY <2>2, PostFields, EditFields DEF Shape
    <3> QED BY <2>2, <3>1, <3>2 DEF Commit, Die, TypeOK, OwnVersion, Wrote
  <2> QED BY <2>1, <2>2
<1>6. q \notin Committed \/ Wrote(q)
  BY SeedAssumption DEF Committed
<1>7. \A p \in Req : call[p] # None => Target(p) \in Row
  BY PostFields, EditFields
<1>8. Honoured'
  <2> SUFFICES ASSUME NEW p \in Req, read'[p] # None
               PROVE  /\ call'[p].op = "PATCH" => named'[p] # None
                      /\ (named'[p] # None /\ Star \notin named'[p])
                            => read'[p].version \in named'[p]
    BY DEF Honoured
  <2>1. CASE read[p] # None
    BY <2>1, <1>2, <1>3 DEF Honoured
  <2>2. CASE read[p] = None
    <3>1. p = q
      BY <1>1, <2>2
    <3> QED BY <3>1, <2>2, StepEffects DEF HeaderRefusal
  <2> QED BY <2>1, <2>2
<1>9. \A p \in Req : read[p] # None => read[p].version \in Committed
  BY DEF VersionsTell
<1>10. Retired'
  <2> SUFFICES ASSUME NEW p \in Req, Wrote(p)', ~IsPost(p), call[p] # None,
                      Target(p) \in Row
               PROVE  read'[p] # None /\ rows'[Target(p)].version # read'[p].version
    BY <1>2, <1>3, <1>7 DEF Retired
  <2>1. CASE Wrote(p)
    <3>1. /\ read[p] # None /\ read'[p] = read[p]
          /\ rows[Target(p)].version # read[p].version
      BY <2>1, <1>3 DEF Retired
    <3>2. CASE rows' = rows
      BY <3>1, <3>2
    <3>3. CASE rows' # rows
      <4>1. read[p].version # q
        BY <1>5, <1>6, <1>9, <3>1, <3>3
      <4> QED BY <1>5, <3>1, <3>3, <4>1
    <3> QED BY <3>2, <3>3
  <2>2. CASE ~Wrote(p)
    <3>1. p = q /\ Commit(q) /\ tuple[q] # None /\ pc[q] = "commit"
      BY <1>4, <2>2 DEF Commit
    <3>2. read[q] # None /\ read'[q] = read[q]
      BY <1>3, <3>1 DEF Anchored
    <3>3. rows'[Target(q)] = tuple[q] /\ tuple[q].version = q
      BY <3>1 DEF Commit, OwnVersion, TypeOK
    <3> QED BY <1>6, <1>9, <2>2, <3>1, <3>2, <3>3
  <2> QED BY <2>1, <2>2
<1>11. OneEditPerRead'
  <2>1. ASSUME NEW p1 \in Req, NEW p2 \in Req, p1 # p2, Wrote(p1)', Wrote(p2)',
               ~IsPost(p1), ~IsPost(p2), Target(p1) = Target(p2)
        PROVE  read'[p1].version # read'[p2].version
    <3>1. ASSUME NEW o \in Req \ {q}, Wrote(o), ~IsPost(o), ~IsPost(q),
                 Target(o) = Target(q), Commit(q), tuple[q] # None
          PROVE  read[o].version # read[q].version
      <4>1. pc[q] = "commit" /\ call[q] # None
        BY <3>1 DEF Commit, Shape
      <4>2. rows[Target(q)] = read[q]
        BY <3>1, <4>1 DEF Anchored, Writing
      <4> QED BY <3>1, <4>2 DEF Retired
    <3>2. \A o \in Req : (Wrote(o)' /\ ~IsPost(o)) => read'[o] = read[o]
      <4>1. \A o \in Req : (Wrote(o)' /\ ~Wrote(o)) => Commit(o)
        BY <1>4
      <4> QED BY <1>1, <1>3, <4>1 DEF Commit, Retired
    <3>3. CASE Wrote(p1) /\ Wrote(p2)
      BY <2>1, <3>2, <3>3 DEF OneEditPerRead
    <3>4. CASE ~Wrote(p1)
      BY <1>4, <2>1, <3>1, <3>2, <3>4
    <3>5. CASE ~Wrote(p2)
      BY <1>4, <2>1, <3>1, <3>2, <3>5
    <3> QED BY <3>3, <3>4, <3>5
  <2> QED BY <1>2, <1>3, <2>1 DEF OneEditPerRead
<1>12. Placed'
  <2> SUFFICES ASSUME NEW p \in Req, rows'[p] # None
               PROVE  rows'[p].table = call'[p].table /\ rows'[p].window = call'[p].window
    BY DEF Placed
  <2>1. p \in Row
    BY DEF Row
  <2>2. CASE rows'[p] = rows[p]
    BY <1>2, <2>2 DEF Placed, Entered
  <2>3. CASE rows'[p] # rows[p]
    <3>1. /\ Commit(q) /\ tuple[q] # None /\ pc[q] = "commit" /\ call[q] # None
          /\ p = Target(q) /\ rows'[p] = tuple[q]
      BY <1>5, <2>1, <2>3
    <3>2. CASE IsPost(q)
      BY <1>2, <3>1, <3>2 DEF OwnVersion, Target
    <3>3. CASE ~IsPost(q)
      <4>1. rows[p] = read[q] /\ read[q] # None /\ read[q] \in Tuple
        BY <2>1, <3>1, <3>3 DEF Anchored, Writing, TypeOK
      <4>2. tuple[q] = [Edited(q, rows[p]) EXCEPT !.version = q]
        BY <3>1, <3>3, <4>1 DEF Anchored, Writing
      <4> DEFINE e == Edited(q, rows[p])
      <4>3. e \in Tuple /\ e.table = rows[p].table /\ e.window = rows[p].window
        BY <3>1, <3>3, <4>1, EditedType
      <4> HIDE DEF e
      <4>4. /\ [e EXCEPT !.version = q].table = e.table
            /\ [e EXCEPT !.version = q].window = e.window
        BY <4>3 DEF Tuple
      <4>5. tuple[q].table = rows[p].table /\ tuple[q].window = rows[p].window
        BY <4>2, <4>3, <4>4 DEF e
      <4>6. call[p] # None
        BY <4>1 DEF Entered
      <4> QED BY <1>2, <3>1, <4>1, <4>5, <4>6 DEF Placed
    <3> QED BY <3>2, <3>3
  <2> QED BY <2>2, <2>3
<1>13. Truthful'
  <2>1. \A p \in Req \ {q} : /\ Edited(p, read[p])' = Edited(p, read[p])
                             /\ IsPost(p)' = IsPost(p)
    BY <1>1 DEF Edited, IsPost
  <2>2. ASSUME Reload(q)
        PROVE  /\ IsPost(q)' => tuple'[q] # None
               /\ (~IsPost(q)' /\ tuple'[q] = None) => (Edited(q, read[q]) = read[q])'
    <3>1. pc[q] = "reload" /\ call[q] # None /\ UNCHANGED <<call, read, tuple>>
      BY <2>2 DEF Reload, Shape
    <3>2. Edited(q, read[q])' = Edited(q, read[q]) /\ IsPost(q)' = IsPost(q)
      BY <3>1 DEF Edited, IsPost
    <3> QED BY <3>1, <3>2 DEF Shape, Anchored
  <2>3. ASSUME reply'[q] # None
        PROVE  \/ reply'[q].code >= 400 /\ tuple'[q] = None
               \/ ~(reply'[q].code >= 400) /\ Reload(q)
    <3>1. reply'[q] \in Response
      BY <2>3 DEF TypeOK
    <3>2. reply'[q].code \in Codes
      BY <3>1 DEF Response
    <3>3. reply'[q].code \in Int
      BY <3>2 DEF Codes
    <3> QED BY <2>3, <3>3, StepEffects
  <2>4. SUFFICES ASSUME NEW p \in Req, reply'[p] # None
                 PROVE  IF reply'[p].code >= 400 THEN tuple'[p] = None
                        ELSE /\ IsPost(p)' => tuple'[p] # None
                             /\ (~IsPost(p)' /\ tuple'[p] = None)
                                   => (Edited(p, read[p]) = read[p])'
    BY DEF Truthful
  <2>5. CASE p = q
    BY <2>2, <2>3, <2>4, <2>5
  <2>6. CASE p # q
    BY <1>1, <2>1, <2>4, <2>6 DEF Truthful
  <2> QED BY <2>5, <2>6
<1> QED BY <1>8, <1>10, <1>11, <1>12, <1>13

LEMMA NextKeepsHistory ==
    ASSUME Inv, Inv', History, [Next]_vars
    PROVE  History'
<1>1. CASE UNCHANGED vars
  <2>1. \A p \in Req : /\ Edited(p, read[p])' = Edited(p, read[p])
                       /\ Target(p)' = Target(p) /\ IsPost(p)' = IsPost(p)
                       /\ Wrote(p)' <=> Wrote(p)
    BY <1>1 DEF vars, Edited, Target, IsPost, Wrote
  <2> QED BY <1>1, <2>1 DEF vars, History, Honoured, Retired, OneEditPerRead, Placed, Truthful
<1>2. CASE Rest
  <2>1. UNCHANGED vars
    BY <1>2 DEF Rest
  <2>2. \A p \in Req : /\ Edited(p, read[p])' = Edited(p, read[p])
                       /\ Target(p)' = Target(p) /\ IsPost(p)' = IsPost(p)
                       /\ Wrote(p)' <=> Wrote(p)
    BY <2>1 DEF vars, Edited, Target, IsPost, Wrote
  <2> QED BY <2>1, <2>2 DEF vars, History, Honoured, Retired, OneEditPerRead, Placed, Truthful
<1> QED BY <1>1, <1>2, StepKeepsHistory DEF Next

LEMMA InitHistory == Init => History
<1> SUFFICES ASSUME Init PROVE History
  OBVIOUS
<1>1. \A q \in Req : /\ read[q] = None /\ tuple[q] = None /\ reply[q] = None
                     /\ rows[q] = None /\ ~Wrote(q)
  BY SeedAssumption DEF Init, Row, Wrote
<1> QED BY <1>1 DEF History, Honoured, Retired, OneEditPerRead, Placed, Truthful

\* What the requests leave behind, in every reachable state.
THEOREM HistoryHolds == Spec => []History
BY InvHolds, InitHistory, NextKeepsHistory, PTL DEF Spec

\* Of the edits that read one version at most one is ever written.
THEOREM NoLostUpdate == Spec => []OneEditPerRead
<1>1. History => OneEditPerRead
  BY DEF History
<1> QED BY <1>1, HistoryHolds, PTL

\* Every answer tells what happened: what was refused or lost left nothing,
\* what was accepted is stored as asked.
THEOREM AnswersTrue == Spec => []AnswersMatchEffects
<1>1. ASSUME Inv, History, NEW q \in Req, Over(q)
      PROVE  IF reply[q] = None \/ reply[q].code >= 400
             THEN pc[q] # "unheard" =>
                    \A r \in Row : rows[r] # None => rows[r].version # q
             ELSE IF IsPost(q)
             THEN /\ rows[q] # None
                  /\ rows[q].table = call[q].table /\ rows[q].window = call[q].window
             ELSE Wrote(q) \/ Edited(q, read[q]) = read[q]
  <2> USE <1>1 DEF Inv, History
  <2>1. call[q] # None
    BY DEF Shape, Over
  <2>2. CASE reply[q] = None \/ reply[q].code >= 400
    <3>1. pc[q] # "unheard" => tuple[q] = None
      BY <2>2 DEF Over, Shape, Truthful
    <3>2. pc[q] # "unheard" => ~Wrote(q)
      BY <3>1 DEF Wrote
    <3>3. pc[q] # "unheard" => q \notin Committed
      BY <3>2, SeedAssumption DEF Committed
    <3> QED BY <2>2, <3>3 DEF VersionsTell
  <2>3. CASE reply[q] # None /\ ~(reply[q].code >= 400)
    <3>1. pc[q] = "done"
      BY <2>3 DEF Shape
    <3>2. CASE IsPost(q)
      <4>1. Wrote(q)
        BY <2>3, <3>1, <3>2 DEF Truthful, Wrote
      <4>2. rows[q] # None
        BY <2>1, <3>2, <4>1 DEF Entered
      <4> QED BY <2>3, <3>2, <4>2 DEF Placed
    <3>3. CASE ~IsPost(q)
      BY <2>3, <3>1, <3>3 DEF Truthful, Wrote
    <3> QED BY <3>2, <3>3
  <2> QED BY <2>2, <2>3
<1>2. Inv /\ History => AnswersMatchEffects
  BY <1>1 DEF AnswersMatchEffects
<1> QED BY <1>2, InvHolds, HistoryHolds, PTL

\* A reservation is only replaced by a request that had read exactly that
\* state of it and whose If-Match header, when it has one, allowed it.
THEOREM EditsReplaceWhatTheyRead == Spec => ReplacesWhatItRead
<1>1. ASSUME Inv, History, [Next]_vars, NEW r \in Row, rows[r] # None, rows'[r] # rows[r]
      PROVE  LET q == rows'[r].version
             IN  /\ rows[r] = read[q]
                 /\ call[q].op = "PATCH" => named[q] # None
                 /\ (named[q] # None /\ Star \notin named[q]) =>
                        rows[r].version \in named[q]
  <2>1. PICK q \in Req : /\ Commit(q) /\ tuple[q] # None
                         /\ Target(q) = r /\ rows'[r] = tuple[q]
    BY <1>1, OnlyCommitsChangeRows
  <2>2. rows'[r].version = q
    BY <1>1, <2>1 DEF Inv, OwnVersion
  <2>3. call[q] # None /\ Writing(q) /\ ~Wrote(q)
    BY <1>1, <2>1 DEF Inv, Shape, Commit, Writing, Wrote
  <2>4. ~IsPost(q)
    BY <1>1, <2>1, <2>3 DEF Inv, Entered, Target
  <2>5. rows[r] = read[q] /\ read[q] # None
    BY <1>1, <2>1, <2>3, <2>4 DEF Inv, Anchored
  <2> QED BY <1>1, <2>2, <2>5 DEF History, Honoured
<1>2. Inv /\ History /\ [Next]_vars =>
        [\A r \in Row :
          (rows[r] # None /\ rows'[r] # rows[r]) =>
             LET q == rows'[r].version
             IN  /\ rows[r] = read[q]
                 /\ call[q].op = "PATCH" => named[q] # None
                 /\ (named[q] # None /\ Star \notin named[q]) =>
                        rows[r].version \in named[q]]_vars
  BY <1>1
<1> QED BY <1>2, InvHolds, HistoryHolds, PTL DEF Spec, ReplacesWhatItRead

-----------------------------------------------------------------------------
(* Refusals: what a 409 of a booking means.                                *)

\* Windows that the constraint sees overlap do share an instant.
LEMMA OverlapSound ==
    ASSUME NEW v \in Window, NEW w \in Window, Overlap(v, w)
    PROVE  Instants(v) \cap Instants(w) # {}
<1> DEFINE i == IF v[1] < w[1] THEN w[1] ELSE v[1]
<1>1. /\ v[1] \in Int /\ v[2] \in Int /\ w[1] \in Int /\ w[2] \in Int
      /\ v[1] < v[2] /\ w[1] < w[2]
  BY WindowAssumption
<1>2. i \in v[1] .. (v[2] - 1) /\ i \in w[1] .. (w[2] - 1)
  BY <1>1 DEF Overlap
<1> QED BY <1>2 DEF Instants

\* Only the constraint refuses a booking with a 409.
LEMMA OnlyTheConstraintSaysTaken ==
    ASSUME Inv, NEW q \in Req, Arrive(q) \/ Step(q) \/ Die(q),
           reply'[q] # None, reply'[q].code = 409, IsPost(q)
    PROVE  CheckFails(q)
<1> USE DEF Inv
<1>1. reply \in [Req -> Response \cup {None}] /\ reply[q] = None
  BY StepChangesItself DEF TypeOK
<1>2. ASSUME reply' = reply PROVE FALSE
  BY <1>1, <1>2
<1>3. ASSUME NEW c \in Codes \ {409}, NEW r, Send(q, c, r) PROVE FALSE
  BY <1>1, <1>3 DEF Send
<1>4. CASE Arrive(q) \/ Insert(q) \/ CheckPasses(q) \/ CheckWaits(q) \/ Resume(q)
           \/ Commit(q) \/ Die(q)
  BY <1>2, <1>4 DEF Arrive, Insert, CheckPasses, CheckWaits, Resume, Commit, Die
<1>5. CASE LockTable(q)
  <2>1. BookingRefusal(call[q]) \in {0, 400, 404}
    BY DEF BookingRefusal
  <2> QED BY <1>2, <1>3, <1>5, <2>1 DEF LockTable, Fail, Codes
<1>6. ~Load(q) /\ ~Update(q)
  BY DEF Load, Update, Shape
<1>7. CASE AbortDeadlock(q)
  BY <1>3, <1>7 DEF AbortDeadlock, Fail, Codes
<1>8. CASE Reload(q)
  BY <1>3, <1>8 DEF Reload, Codes
<1> QED BY <1>4, <1>5, <1>6, <1>7, <1>8 DEF Step

\* A row version an edit wrote differs from the row only where it may.
LEMMA EditIsReplacement ==
    ASSUME Inv, NEW q \in Req, call[q] # None, ~IsPost(q), Writing(q)
    PROVE  tuple[q] = [rows[Target(q)] EXCEPT !.status = tuple[q].status,
                                              !.party = tuple[q].party, !.version = q]
<1> USE DEF Inv
<1> DEFINE r == rows[Target(q)]
           e == Edited(q, r)
<1>1. r = read[q] /\ r \in Tuple /\ tuple[q] = [Edited(q, read[q]) EXCEPT !.version = q]
  BY DEF Anchored, Writing, TypeOK
<1>2. /\ e \in Tuple /\ e.table = r.table /\ e.window = r.window /\ e.user = r.user
  BY <1>1, EditedType
<1>3. tuple[q] = [e EXCEPT !.version = q]
  BY <1>1
<1> HIDE DEF e, r
<1>4. /\ tuple[q].table = r.table /\ tuple[q].window = r.window /\ tuple[q].user = r.user
      /\ tuple[q].version = q /\ tuple[q] \in Tuple
  BY <1>2, <1>3 DEF Tuple, Version, Row
<1>5. tuple[q] = [r EXCEPT !.status = tuple[q].status,
                           !.party = tuple[q].party, !.version = q]
  BY <1>1, <1>4 DEF Tuple
<1> QED BY <1>5 DEF r

\* A reservation that another transaction changes stays at its table and time,
\* and the version that cancels it is not its first.
LEMMA ChangedRowsStay ==
    ASSUME Inv, NEW q \in Req, Arrive(q) \/ Step(q) \/ Die(q), NEW r \in Row,
           rows[r] # None, rows'[r] # rows[r]
    PROVE  /\ rows'[r] # None /\ rows'[r].version # r
           /\ rows'[r].table = rows[r].table /\ rows'[r].window = rows[r].window
<1> USE DEF Inv
<1>1. PICK o \in Req : /\ Commit(o) /\ tuple[o] # None
                       /\ Target(o) = r /\ rows'[r] = tuple[o]
  <2>1. [Next]_vars
    BY DEF Next
  <2> QED BY <2>1, OnlyCommitsChangeRows
<1>2. call[o] # None /\ Writing(o) /\ ~Wrote(o)
  BY <1>1 DEF Commit, Shape, Writing, Wrote
<1>3. ~IsPost(o) /\ o # r
  BY <1>1, <1>2 DEF Entered, Target
<1>4. rows[r] \in Tuple
  BY DEF TypeOK
<1>5. tuple[o] = [rows[r] EXCEPT !.status = tuple[o].status,
                                 !.party = tuple[o].party, !.version = o]
  BY <1>1, <1>2, <1>3, EditIsReplacement
<1>6. tuple[o].version = o
  BY <1>1 DEF OwnVersion
<1>7. tuple[o].table = rows[r].table /\ tuple[o].window = rows[r].window
  BY <1>4, <1>5 DEF Tuple
<1> QED BY <1>1, <1>3, <1>6, <1>7

LEMMA LosersStay ==
    ASSUME Inv, LosersLoseToABooking, NEW q \in Req, Arrive(q) \/ Step(q) \/ Die(q)
    PROVE  LosersLoseToABooking'
<1> USE DEF Inv
<1> DEFINE Taken(p, r) == /\ rows[r] # None
                          /\ rows[r].table = call[p].table
                          /\ Instants(rows[r].window) \cap Instants(call[p].window) # {}
                          /\ rows[r].status = "cancelled" => rows[r].version # r
<1>1. SUFFICES ASSUME NEW p \in Req, reply'[p] # None, reply'[p].code = 409, IsPost(p)'
               PROVE  \E r \in Row \ {p} : Taken(p, r)'
  BY DEF LosersLoseToABooking
<1>2. call'[p] = call[p] /\ call[p] # None /\ IsPost(p)
  <2>1. CASE p # q
    <3>1. call'[p] = call[p] /\ reply'[p] = reply[p]
      BY <2>1, StepChangesItself
    <3> QED BY <1>1, <3>1 DEF Shape, IsPost
  <2>2. CASE p = q
    <3>1. ~Arrive(q)
      BY <1>1, <2>2, StepChangesItself DEF Arrive
    <3>2. pc[q] # "idle"
      BY <3>1, DeadlockedWaits DEF Step, LockTable, Insert, Load, Update, CheckPasses, CheckWaits,
                  Resume, CheckFails, AbortDeadlock, Commit, Reload, Die
    <3> QED BY <1>1, <2>2, <3>2, StepChangesItself DEF Shape, IsPost
  <2> QED BY <2>1, <2>2
<1>3. CASE p # q
  <2>1. reply'[p] = reply[p]
    BY <1>3, StepChangesItself
  <2>2. PICK r \in Row \ {p} : Taken(p, r)
    BY <1>1, <1>2, <2>1 DEF LosersLoseToABooking
  <2>3. CASE rows'[r] = rows[r]
    BY <1>2, <2>2, <2>3
  <2>4. CASE rows'[r] # rows[r]
    <3>1. /\ rows'[r] # None /\ rows'[r].version # r
          /\ rows'[r].table = rows[r].table /\ rows'[r].window = rows[r].window
      BY <2>2, <2>4, ChangedRowsStay
    <3> QED BY <1>2, <2>2, <3>1
  <2> QED BY <2>3, <2>4
<1>4. CASE p = q
  <2>1. CheckFails(q)
    BY <1>1, <1>2, <1>4, OnlyTheConstraintSaysTaken
  <2>2. PICK r \in Row \ {Target(q)} : Clash(rows[r], tuple[q])
    BY <2>1 DEF CheckFails, Standing
  <2>3. r # q /\ rows' = rows
    BY <1>2, <1>4, <2>1, <2>2 DEF Target, CheckFails, Fail
  <2>4. /\ rows[r] # None /\ rows[r].status # "cancelled"
        /\ tuple[q] # None /\ rows[r].table = tuple[q].table
        /\ Overlap(rows[r].window, tuple[q].window)
    BY <2>2 DEF Clash, Active
  <2>5. tuple[q].table = call[q].table /\ tuple[q].window = call[q].window
    BY <1>2, <1>4, <2>4 DEF OwnVersion
  <2>6. rows[r].window \in Window /\ tuple[q].window \in Window
    BY <2>4 DEF TypeOK, Tuple
  <2>7. Instants(rows[r].window) \cap Instants(tuple[q].window) # {}
    BY <2>4, <2>6, OverlapSound
  <2>8. Taken(q, r)'
    BY <1>2, <1>4, <2>3, <2>4, <2>5, <2>7
  <2> QED BY <1>4, <2>3, <2>8
<1> QED BY <1>3, <1>4

\* A booking is only refused as taken because of a reservation that was really
\* committed for that table and an instant of that window.
THEOREM LosersLost == Spec => []LosersLoseToABooking
<1>1. Init => LosersLoseToABooking
  BY DEF Init, LosersLoseToABooking
<1>2. ASSUME Inv, LosersLoseToABooking, UNCHANGED vars PROVE LosersLoseToABooking'
  BY <1>2 DEF LosersLoseToABooking, IsPost, vars
<1>3. ASSUME Inv, LosersLoseToABooking, [Next]_vars PROVE LosersLoseToABooking'
  BY <1>2, <1>3, LosersStay DEF Next, Rest
<1> QED BY <1>1, <1>3, InvHolds, PTL DEF Spec

-----------------------------------------------------------------------------
(* The answer to a request that wrote.                                     *)

\* The row in the answer is newer than the one the request replaced.
THEOREM ServesWhatItWrote == Spec => []ServesPastItsWrite
<1>1. Init => ServesPastItsWrite
  BY DEF Init, ServesPastItsWrite
<1>2. ASSUME Inv, History, ServesPastItsWrite, NEW q \in Req, Arrive(q) \/ Step(q) \/ Die(q)
      PROVE  ServesPastItsWrite'
  <2> USE <1>2 DEF Inv, History
  <2>1. SUFFICES ASSUME NEW p \in Req, reply'[p] # None, tuple'[p] # None
                 PROVE  /\ reply'[p].row # None
                        /\ ~IsPost(p)' => reply'[p].row.version # read'[p].version
    BY DEF ServesPastItsWrite
  <2>2. CASE p # q
    <3>1. /\ reply'[p] = reply[p] /\ tuple'[p] = tuple[p] /\ read'[p] = read[p]
          /\ call'[p] = call[p]
      BY <2>2, StepChangesItself
    <3> QED BY <2>1, <3>1 DEF ServesPastItsWrite, IsPost
  <2>3. CASE p = q
    <3>1. Reload(q)
      BY <2>1, <2>3, StepEffects
    <3>2. /\ pc[q] = "reload" /\ UNCHANGED <<call, read, tuple>>
          /\ reply'[q].row = rows[Target(q)]
      BY <3>1 DEF Reload, Send, TypeOK
    <3>3. Wrote(q) /\ call[q] # None /\ (IsPost(q)' <=> IsPost(q))
      BY <2>1, <2>3, <3>2 DEF Wrote, Shape, IsPost
    <3>4. CASE IsPost(q)
      BY <2>3, <3>2, <3>3, <3>4 DEF Entered, Target
    <3>5. CASE ~IsPost(q)
      <4>1. read[q] # None /\ rows[Target(q)].version # read[q].version
        BY <3>3, <3>5 DEF Retired
      <4>2. rows[Target(q)] # None
        BY <3>3, <3>5, <4>1 DEF Anchored
      <4> QED BY <2>3, <3>2, <4>1, <4>2
    <3> QED BY <3>4, <3>5
  <2> QED BY <2>2, <2>3
<1>3. ASSUME ServesPastItsWrite, UNCHANGED vars PROVE ServesPastItsWrite'
  BY <1>3 DEF ServesPastItsWrite, IsPost, vars
<1>4. ASSUME Inv, History, ServesPastItsWrite, [Next]_vars PROVE ServesPastItsWrite'
  BY <1>2, <1>3, <1>4 DEF Next, Rest
<1> QED BY <1>1, <1>4, InvHolds, HistoryHolds, PTL DEF Spec

-----------------------------------------------------------------------------
(* Server errors: who can wait in a circle.                                *)

\* Some PATCH has arrived that leaves its reservation active.
LivePatch == \E r \in Req : call[r] # None /\ call[r].op = "PATCH" /\ call[r].status # "cancelled"

\* What changes in a step of q, as far as Circles can see.
LEMMA CallsStay ==
    ASSUME Inv, NEW q \in Req, Arrive(q) \/ Step(q) \/ Die(q)
    PROVE  /\ \A p \in Req : call[p] # None => call'[p] = call[p] /\ (IsPost(p)' <=> IsPost(p))
           /\ LivePatch => LivePatch'
<1>1. \A p \in Req : call[p] # None => call'[p] = call[p]
  BY StepChangesItself DEF Inv, Shape
<1> QED BY <1>1 DEF LivePatch, IsPost

\* A booking comes past the lock of its table only when no other is there.
LEMMA TableLockedStays ==
    ASSUME Inv, TableLocked, NEW q \in Req, Arrive(q) \/ Step(q) \/ Die(q)
    PROVE  TableLocked'
<1> USE DEF Inv
<1> DEFINE Past == {"insert", "check", "wait", "commit"}
<1>1. SUFFICES ASSUME NEW o \in Req, NEW p \in Req, o # p, IsPost(o)', IsPost(p)',
                      pc'[o] \in Past, pc'[p] \in Past
               PROVE  call'[o].table # call'[p].table
  BY DEF TableLocked
<1>2. \A r \in Req : r # q => pc'[r] = pc[r] /\ call'[r] = call[r] /\ (IsPost(r)' <=> IsPost(r))
  BY StepChangesItself DEF IsPost
<1>3. ASSUME pc'[q] \in Past, IsPost(q)'
      PROVE  /\ call'[q] = call[q] /\ IsPost(q)
             /\ pc[q] \in Past \/ TableHolders(q) = {}
  <2>1. pc \in [Req -> States]
    BY DEF TypeOK
  <2>2. ~Arrive(q) /\ ~Die(q) /\ ~AbortDeadlock(q) /\ ~CheckFails(q) /\ ~Reload(q)
    BY <1>3, <2>1 DEF Arrive, Die, AbortDeadlock, CheckFails, Reload, Fail, Send, Goto
  <2>3. call' = call
    BY <2>2 DEF Step, LockTable, Insert, Load, Update, CheckPasses, CheckWaits, Resume, Commit,
                Fail
  <2>4. IsPost(q)
    BY <1>3, <2>3 DEF IsPost
  <2>5. CASE LockTable(q)
    BY <2>3, <2>4, <2>5 DEF LockTable
  <2>6. ~Load(q) /\ ~Update(q)
    BY <2>4 DEF Load, Update, Shape
  <2>7. CASE Insert(q) \/ CheckPasses(q) \/ CheckWaits(q) \/ Resume(q) \/ Commit(q)
    BY <2>3, <2>4, <2>7 DEF Insert, CheckPasses, CheckWaits, Resume, Commit
  <2> QED BY <2>2, <2>5, <2>6, <2>7 DEF Step
<1>4. ASSUME NEW r \in Req, r # q, pc[r] \in Past, IsPost(r), pc'[q] \in Past, IsPost(q)'
      PROVE  call[r].table # call'[q].table
  BY <1>3, <1>4 DEF TableLocked, TableHolders
<1>5. CASE o # q /\ p # q
  BY <1>1, <1>2, <1>5 DEF TableLocked
<1>6. CASE o = q
  BY <1>1, <1>2, <1>4, <1>6
<1>7. CASE p = q
  BY <1>1, <1>2, <1>4, <1>7
<1> QED BY <1>5, <1>6, <1>7

\* What an edit has the constraint check is active, so the edit is a PATCH that
\* does not cancel.
LEMMA OnlyActiveIsChecked ==
    ASSUME Inv, NEW q \in Req, Update(q), pc'[q] = "check"
    PROVE  call[q].op = "PATCH" /\ call[q].status # "cancelled"
<1> USE DEF Inv
<1> DEFINE e == Edited(q, rows[Target(q)])
           new == [e EXCEPT !.version = q]
<1>1. pc[q] = "update" /\ pc \in [Req -> States] /\ ~IsPost(q) /\ call[q] # None
  BY DEF Update, TypeOK, Shape
<1>2. VersionMatches(q)
  BY <1>1 DEF Update, Fail, Send, Goto
<1>3. \E i \in Indexed(q, new) : pc' = [pc EXCEPT ![q] = IF i THEN "check" ELSE "commit"]
  BY <1>2 DEF Update, Goto
<1>4. rows[Target(q)] \in Tuple
  BY <1>1, EditFields DEF Anchored, TypeOK
<1> HIDE DEF new
<1>5. Active(new)
  <2>1. CASE ~Active(new)
    <3>1. Indexed(q, new) = {FALSE}
      BY <2>1 DEF Indexed
    <3> QED BY <1>1, <1>3, <3>1
  <2> QED BY <2>1
<1>6. e.status # "cancelled"
  <2>1. e \in Tuple
    BY <1>1, <1>4, EditedType
  <2> HIDE DEF e
  <2>2. new.status = e.status
    BY <2>1 DEF new, Tuple
  <2> QED BY <1>5, <2>2 DEF Active
<1>7. call[q] \in Patch \cup Cancel
  BY <1>1, EditFields
<1>8. call[q].op # "DELETE"
  BY <1>4, <1>6 DEF Edited, Tuple
<1>9. call[q].op = "PATCH" /\ call[q].status \in Status \cup {None}
  BY <1>7, <1>8 DEF Patch, Cancel
<1>10. call[q].status # "cancelled"
  <2>1. ASSUME call[q].status = "cancelled" PROVE FALSE
    <3>1. call[q].status # None
      BY <2>1, NoneIsNothingElse DEF Status
    <3>2. e = [rows[Target(q)] EXCEPT !.status = "cancelled",
                                      !.party = IF call[q].party = None THEN @ ELSE call[q].party]
      BY <1>9, <2>1, <3>1 DEF Edited
    <3>3. e.status = "cancelled"
      BY <1>4, <3>2 DEF Tuple
    <3> QED BY <1>6, <3>3
  <2> QED BY <2>1
<1> QED BY <1>9, <1>10

LEMMA EditsCheckedStays ==
    ASSUME Inv, EditsChecked, NEW q \in Req, Arrive(q) \/ Step(q) \/ Die(q)
    PROVE  EditsChecked'
<1> USE DEF Inv
<1>1. SUFFICES ASSUME NEW p \in Req, pc'[p] \in {"check", "wait"}, ~IsPost(p)'
               PROVE  call'[p].op = "PATCH" /\ call'[p].status # "cancelled"
  BY DEF EditsChecked
<1>2. CASE p # q
  <2>1. pc'[p] = pc[p] /\ call'[p] = call[p] /\ (IsPost(p)' <=> IsPost(p))
    BY <1>2, StepChangesItself DEF IsPost
  <2> QED BY <1>1, <2>1 DEF EditsChecked
<1>3. CASE p = q
  <2>1. pc \in [Req -> States]
    BY DEF TypeOK
  <2>2. ~Arrive(q) /\ ~Die(q) /\ ~AbortDeadlock(q) /\ ~CheckFails(q) /\ ~Reload(q)
    BY <1>1, <1>3, <2>1 DEF Arrive, Die, AbortDeadlock, CheckFails, Reload, Fail, Send, Goto
  <2>3. ~LockTable(q) /\ ~Load(q) /\ ~CheckPasses(q) /\ ~Commit(q)
    BY <1>1, <1>3, <2>1 DEF LockTable, Load, CheckPasses, Commit, Fail, Send, Goto
  <2>4. call' = call
    BY <2>2, <2>3 DEF Step, Insert, Update, CheckWaits, Resume, Fail
  <2>5. ~IsPost(q)
    BY <1>1, <1>3, <2>4 DEF IsPost
  <2>6. ~Insert(q)
    BY <2>5 DEF Insert, Shape
  <2>7. CASE Update(q)
    <3>1. pc'[q] = "check"
      BY <1>1, <1>3, <2>1, <2>7 DEF Update, Fail, Send, Goto
    <3> QED BY <1>3, <2>4, <2>7, <3>1, OnlyActiveIsChecked
  <2>8. CASE CheckWaits(q) \/ Resume(q)
    BY <1>3, <2>4, <2>5, <2>8 DEF CheckWaits, Resume, EditsChecked
  <2> QED BY <2>2, <2>3, <2>6, <2>7, <2>8 DEF Step
<1> QED BY <1>2, <1>3

\* Two bookings that conflict are for one table, and one of them at most is past
\* its lock: what a booking's check waits for is an edit.
LEMMA BookingsWaitForEditsStays ==
    ASSUME Inv, TableLocked, BookingsWaitForEdits, NEW q \in Req,
           Arrive(q) \/ Step(q) \/ Die(q)
    PROVE  BookingsWaitForEdits'
<1> USE DEF Inv
<1>1. SUFFICES ASSUME NEW p \in Req, pc'[p] = "wait", IsPost(p)'
               PROVE  call'[waits'[p]] # None /\ call'[waits'[p]].op # "POST"
  BY DEF BookingsWaitForEdits, IsPost
<1>2. ASSUME pc[p] = "wait", waits'[p] = waits[p]
      PROVE  call'[waits'[p]] # None /\ call'[waits'[p]].op # "POST"
  <2>1. waits[p] \in Req /\ call[p] # None
    BY <1>2 DEF Shape
  <2>2. call[waits[p]] # None /\ ~IsPost(waits[p])
    BY <1>1, <1>2, <2>1, CallsStay DEF BookingsWaitForEdits
  <2>3. call'[waits[p]] = call[waits[p]]
    BY <2>1, <2>2, CallsStay
  <2> QED BY <1>2, <2>2, <2>3 DEF IsPost
<1>3. pc \in [Req -> States] /\ waits \in [Req -> Req \cup {None}]
  BY DEF TypeOK
<1>4. CASE ~CheckWaits(q)
  <2>1. waits' = waits \/ Resume(q)
    BY <1>4 DEF Arrive, Step, Die, LockTable, Insert, Load, Update, CheckPasses, CheckFails,
                AbortDeadlock, Commit, Reload, Fail
  <2>2. pc'[q] # "wait"
    <3>1. CASE Arrive(q) \/ Die(q) \/ LockTable(q) \/ Insert(q) \/ Load(q)
      BY <1>3, <3>1 DEF Arrive, Die, LockTable, Insert, Load, Fail, Send, Goto
    <3>2. CASE Update(q) \/ CheckPasses(q) \/ Resume(q) \/ CheckFails(q)
      BY <1>3, <3>2 DEF Update, CheckPasses, Resume, CheckFails, Fail, Send, Goto
    <3>3. CASE AbortDeadlock(q) \/ Commit(q) \/ Reload(q)
      BY <1>3, <3>3 DEF AbortDeadlock, Commit, Reload, Fail, Send, Goto
    <3> QED BY <1>4, <3>1, <3>2, <3>3 DEF Step
  <2>3. p # q /\ pc'[p] = pc[p]
    BY <1>1, <2>2, StepChangesItself
  <2>4. waits'[p] = waits[p]
    BY <1>3, <2>1, <2>3 DEF Resume
  <2> QED BY <1>1, <1>2, <2>3, <2>4
<1>5. CASE CheckWaits(q)
  <2>1. PICK o \in Undecided(q) : waits' = [waits EXCEPT ![q] = o]
    BY <1>5 DEF CheckWaits
  <2>2. pc[q] = "check" /\ pc' = [pc EXCEPT ![q] = "wait"] /\ call' = call
    BY <1>5 DEF CheckWaits, Goto
  <2>3. CASE p # q
    BY <1>1, <1>2, <1>3, <2>1, <2>2, <2>3
  <2>4. CASE p = q
    <3>1. /\ o \in Req \ {q} /\ Writing(o) /\ IsPost(q)
          /\ Clash(tuple[o], tuple[q]) \/ Clash(rows[Target(o)], tuple[q])
      BY <1>1, <2>1, <2>2, <2>4 DEF Undecided, IsPost
    <3>2. call[o] # None /\ ~Wrote(o)
      BY <3>1 DEF Writing, Wrote, Shape
    <3>3. ASSUME IsPost(o) PROVE FALSE
      <4>1. rows[Target(o)] = None
        BY <3>1, <3>2, <3>3 DEF Entered, Target
      <4>2. tuple[o].table = tuple[q].table
        BY <3>1, <4>1 DEF Clash, Active
      <4>3. tuple[q] # None
        BY <2>2 DEF Shape
      <4>4. call[o].table = call[q].table
        BY <3>1, <3>3, <4>2, <4>3 DEF OwnVersion, Writing
      <4> QED BY <2>2, <3>1, <3>3, <4>4 DEF TableLocked, Writing
    <3>4. waits'[q] = o
      BY <1>3, <2>1
    <3> QED BY <2>2, <2>4, <3>2, <3>3, <3>4 DEF IsPost
  <2> QED BY <2>3, <2>4
<1> QED BY <1>4, <1>5

\* Without such a PATCH nobody is on a cycle of waits: a booking that waits for
\* its table waits for one that is past the lock, that one waits for an edit, the
\* edit for a row that a booking is only about to create.
LEMMA CirclesNeedAPatch ==
    ASSUME Inv, Circles, NEW q \in Req, Deadlocked(q)
    PROVE  LivePatch
<1> USE DEF Inv, Circles
<1>1. SUFFICES ASSUME ~LivePatch PROVE FALSE
  OBVIOUS
<1>2. PICK S \in SUBSET Req : q \in S /\ \A p \in S : Blockers(p) \cap S # {}
  BY DEF Deadlocked
<1>3. \A p \in S : pc[p] \in {"lock", "update", "wait"}
  <2>1. \A p \in S : Blockers(p) # {}
    BY <1>2
  <2> QED BY <2>1 DEF Blockers
<1>4. \A p \in S : pc[p] = "wait" => IsPost(p)
  BY <1>1 DEF LivePatch, EditsChecked, Shape
<1>5. ASSUME NEW p \in S PROVE pc[p] # "update"
  <2>1. SUFFICES ASSUME pc[p] = "update" PROVE FALSE
    OBVIOUS
  <2>2. PICK o \in S : o \in RowHolders(p)
    BY <1>2, <2>1 DEF Blockers
  <2>3. pc[o] = "wait" /\ Target(o) = Target(p) /\ Writing(o)
    BY <1>3, <2>2 DEF RowHolders, Writing
  <2>4. IsPost(o) /\ call[o] # None /\ ~Wrote(o)
    BY <1>4, <2>3 DEF Shape, Wrote
  <2>5. rows[Target(p)] = None
    BY <2>3, <2>4 DEF Entered, Target
  <2>6. call[p] # None /\ ~IsPost(p)
    BY <2>1 DEF Shape
  <2> QED BY <2>1, <2>5, <2>6 DEF Anchored
<1>6. ASSUME NEW p \in S PROVE pc[p] # "wait"
  <2>1. SUFFICES ASSUME pc[p] = "wait" PROVE FALSE
    OBVIOUS
  <2>2. waits[p] \in S
    BY <1>2, <2>1 DEF Blockers
  <2>3. call[waits[p]] # None /\ ~IsPost(waits[p])
    BY <1>4, <2>1 DEF BookingsWaitForEdits
  <2> QED BY <1>3, <1>4, <1>5, <2>2, <2>3 DEF Shape
<1>7. pc[q] = "lock"
  BY <1>2, <1>3, <1>5, <1>6
<1>8. PICK o \in S : o \in TableHolders(q)
  BY <1>2, <1>7 DEF Blockers
<1> QED BY <1>3, <1>6, <1>8 DEF TableHolders

\* A 500 is the constraint's to an edit, or the victim's of a circle.
LEMMA ErrorsNeedAPatch ==
    ASSUME Inv, Circles, NEW q \in Req, Arrive(q) \/ Step(q) \/ Die(q),
           reply'[q] # None, reply'[q].code = 500
    PROVE  LivePatch
<1> USE DEF Inv
<1>1. reply \in [Req -> Response \cup {None}] /\ reply[q] = None
  BY StepChangesItself DEF TypeOK
<1>2. ASSUME reply' = reply PROVE FALSE
  BY <1>1, <1>2
<1>3. ASSUME NEW c \in Codes \ {500}, NEW r, Send(q, c, r) PROVE FALSE
  BY <1>1, <1>3 DEF Send
<1>4. CASE Arrive(q) \/ Insert(q) \/ CheckPasses(q) \/ CheckWaits(q) \/ Resume(q)
           \/ Commit(q) \/ Die(q)
  BY <1>2, <1>4 DEF Arrive, Insert, CheckPasses, CheckWaits, Resume, Commit, Die
<1>5. CASE LockTable(q)
  <2>1. BookingRefusal(call[q]) \in {0, 400, 404}
    BY DEF BookingRefusal
  <2> QED BY <1>2, <1>3, <1>5, <2>1 DEF LockTable, Fail, Codes
<1>6. CASE Load(q)
  <2> DEFINE r == rows[Target(q)]
  <2>1. EditRefusal(q, r) \in {0, 403, 404, 412, 428}
    BY DEF EditRefusal, HeaderRefusal
  <2> QED BY <1>2, <1>3, <1>6, <2>1 DEF Load, Fail, Codes
<1>7. CASE Update(q)
  BY <1>2, <1>3, <1>7 DEF Update, Fail, Codes
<1>8. CASE CheckFails(q)
  <2>1. ~IsPost(q)
    BY <1>3, <1>8 DEF CheckFails, Fail, Codes
  <2>2. pc[q] = "check" /\ call[q] # None
    BY <1>8 DEF CheckFails, Shape
  <2> QED BY <2>1, <2>2 DEF Circles, EditsChecked, LivePatch
<1>9. CASE AbortDeadlock(q)
  BY <1>9, CirclesNeedAPatch DEF AbortDeadlock
<1>10. CASE Reload(q)
  BY <1>3, <1>10 DEF Reload, Codes
<1> QED BY <1>4, <1>5, <1>6, <1>7, <1>8, <1>9, <1>10 DEF Step

\* Who can wait for whom, in every reachable state.
THEOREM CirclesHold == Spec => []Circles
<1>1. Init => Circles
  BY DEF Init, Circles, TableLocked, EditsChecked, BookingsWaitForEdits
<1>2. ASSUME Circles, UNCHANGED vars PROVE Circles'
  BY <1>2 DEF Circles, TableLocked, EditsChecked, BookingsWaitForEdits, IsPost, vars
<1>3. ASSUME Inv, Circles, NEW q \in Req, Arrive(q) \/ Step(q) \/ Die(q) PROVE Circles'
  BY <1>3, TableLockedStays, EditsCheckedStays, BookingsWaitForEditsStays DEF Circles
<1>4. ASSUME Inv, Circles, [Next]_vars PROVE Circles'
  BY <1>2, <1>3, <1>4 DEF Next, Rest
<1> QED BY <1>1, <1>4, InvHolds, PTL DEF Spec

\* Bookings and cancellations alone never end in a 500.
THEOREM ErrorsTakeAPatch == Spec => []ServerErrorsNeedAPatch
<1>1. Init => ServerErrorsNeedAPatch
  BY DEF Init, ServerErrorsNeedAPatch
<1>2. ASSUME ServerErrorsNeedAPatch, UNCHANGED vars PROVE ServerErrorsNeedAPatch'
  BY <1>2 DEF ServerErrorsNeedAPatch, vars
<1>3. ASSUME Inv, Circles, ServerErrorsNeedAPatch, NEW q \in Req, Arrive(q) \/ Step(q) \/ Die(q)
      PROVE  ServerErrorsNeedAPatch'
  <2>1. SUFFICES ASSUME NEW p \in Req, reply'[p] # None, reply'[p].code = 500 PROVE LivePatch'
    BY DEF ServerErrorsNeedAPatch, LivePatch
  <2>2. CASE p # q
    <3>1. reply'[p] = reply[p]
      BY <1>3, <2>2, StepChangesItself
    <3>2. LivePatch
      BY <1>3, <2>1, <3>1 DEF ServerErrorsNeedAPatch, LivePatch
    <3> QED BY <1>3, <3>2, CallsStay
  <2>3. CASE p = q
    BY <1>3, <2>1, <2>3, ErrorsNeedAPatch, CallsStay
  <2> QED BY <2>2, <2>3
<1>4. ASSUME Inv, Circles, ServerErrorsNeedAPatch, [Next]_vars PROVE ServerErrorsNeedAPatch'
  BY <1>2, <1>3, <1>4 DEF Next, Rest
<1> QED BY <1>1, <1>4, InvHolds, CirclesHold, PTL DEF Spec

\* The whole inductive invariant that the runs check.
THEOREM InductiveHolds == Spec => []Inductive
BY InvHolds, HistoryHolds, CirclesHold, PTL DEF Inductive

-----------------------------------------------------------------------------
(* The endpoints implement the ledger.                                     *)

\* The ledger speaks of the same rows and the same double bookings.
LEMMA LedgerData ==
    /\ Ledger!Row = Row /\ Ledger!Status = Status
    /\ \A s, t : Ledger!DoubleBooked(s, t) <=> DoubleBooked(s, t)
BY DEF Ledger!Row, Row, Ledger!Status, Status, Ledger!DoubleBooked, DoubleBooked,
       Ledger!Active, Active, Ledger!Instants, Instants

LEMMA LedgerInit == Init => Ledger!Init
<1> SUFFICES ASSUME Init PROVE Ledger!Init
  OBVIOUS
<1>1. [q \in Req |-> Verdict(q)] = [q \in Req |-> "open"]
  BY DEF Init, Verdict
<1> QED BY <1>1, LedgerData DEF Init, Ledger!Init

\* A commit is the one step in which a request is applied.
LEMMA CommitIsLedgerStep ==
    ASSUME Inv, NEW q \in Req, Commit(q)
    PROVE  Ledger!Next
<1> USE DEF Inv
<1>1. /\ pc[q] = "commit" /\ pc' = [pc EXCEPT ![q] = "reload"]
      /\ UNCHANGED <<call, named, read, tuple, waits, reply>>
      /\ rows' = IF tuple[q] = None THEN rows ELSE [rows EXCEPT ![Target(q)] = tuple[q]]
      /\ call[q] # None
  BY DEF Commit, Goto, Shape
<1>2. Ledger!Settle(q, "applied")
  BY <1>1 DEF Ledger!Settle, Verdict, TypeOK
<1>3. CASE tuple[q] = None
  <2>1. ~IsPost(q) /\ read[q] # None
    BY <1>1, <1>3 DEF Shape, Anchored
  <2>2. Ledger!FindNothing(q)
    BY <1>1, <1>2, <1>3, <2>1 DEF Ledger!FindNothing
  <2> QED BY <2>2 DEF Ledger!Next
<1>4. CASE tuple[q] # None /\ IsPost(q)
  <2>1. Target(q) = q /\ rows[q] = None /\ q \in Row
    BY <1>1, <1>4 DEF Target, Entered, Wrote, Row
  <2>2. tuple[q] \in Ledger!Fresh(q)
    BY <1>4 DEF OwnVersion, TypeOK, Tuple, Ledger!Fresh
  <2>3. \A r \in Row : ~DoubleBooked(rows[r], tuple[q])
    <3>1. \A r \in Row \ {q} : ~Clash(rows[r], tuple[q])
      BY <1>1, <1>4, <2>1 DEF NoClash
    <3> QED BY <1>4, <2>1, <3>1, DoubleBookedClash DEF TypeOK, DoubleBooked, Active
  <2>4. Ledger!Enter(q, tuple[q])
    BY <1>1, <1>2, <1>4, <2>1, <2>3, LedgerData DEF Ledger!Enter
  <2> QED BY <2>2, <2>4 DEF Ledger!Next
<1>5. CASE tuple[q] # None /\ ~IsPost(q)
  <2> DEFINE r == Target(q)
  <2>1. Writing(q) /\ r \in Row
    BY <1>1, <1>5, EditFields DEF Writing
  <2>2. rows[r] # None /\ rows[r] = read[q]
    BY <1>1, <1>5, <2>1 DEF Anchored
  <2>3. tuple[q] = [rows[r] EXCEPT !.status = tuple[q].status,
                                   !.party = tuple[q].party, !.version = q]
    BY <1>1, <1>5, <2>1, EditIsReplacement
  <2>4. tuple[q].status \in Status /\ tuple[q].party \in Party
    BY <1>5 DEF TypeOK, Tuple
  <2>5. \A s \in Row \ {r} : ~DoubleBooked(rows[s], tuple[q])
    BY <1>1, <1>5, DoubleBookedClash DEF NoClash, TypeOK
  <2>6. rows' = [rows EXCEPT ![r] = tuple[q]]
    BY <1>1, <1>5
  <2> HIDE DEF r
  <2>7. Ledger!Replace(q, r, tuple[q].status, tuple[q].party)
    BY <1>1, <1>2, <2>2, <2>3, <2>5, <2>6, LedgerData DEF Ledger!Replace
  <2> QED BY <2>1, <2>4, <2>7, LedgerData DEF Ledger!Next
<1> QED BY <1>3, <1>4, <1>5

\* A step that moves no verdict, no row and no copy is invisible.
LEMMA InvisibleStep ==
    ASSUME rows' = rows, read' = read, \A p \in Req : Verdict(p)' = Verdict(p)
    PROVE  UNCHANGED Ledger!vars
BY DEF Ledger!vars

\* A request that is turned away.
LEMMA TurnedAway ==
    ASSUME Inv, NEW q \in Req, rows' = rows, read' = read,
           pc[q] \in States \ {"reload", "unheard", "done", "lost"},
           \A p \in Req \ {q} : pc'[p] = pc[p] /\ reply'[p] = reply[p],
           \/ pc'[q] = "lost"
           \/ pc'[q] = "done" /\ reply'[q].code >= 400 /\ reply'[q].code \in Int
    PROVE  Ledger!Next
<1>1. \A p \in Req \ {q} : Verdict(p)' = Verdict(p)
  BY DEF Verdict
<1>2. Verdict(q) = "open"
  BY DEF Verdict, States
<1>3. Verdict(q)' = "refused"
  BY DEF Verdict
<1>4. [p \in Req |-> Verdict(p)]' = [[p \in Req |-> Verdict(p)] EXCEPT ![q] = "refused"]
  BY <1>1, <1>3
<1>5. Ledger!TurnAway(q)
  BY <1>2, <1>4 DEF Ledger!TurnAway, Ledger!Settle
<1> QED BY <1>5 DEF Ledger!Next

LEMMA FailIsLedgerStep ==
    ASSUME Inv, NEW q \in Req, NEW code \in Codes, code >= 400, Fail(q, code),
           pc[q] \in {"lock", "load", "update", "check", "wait"}
    PROVE  Ledger!Next
<1>1. /\ rows' = rows /\ read' = read /\ pc'[q] = "done"
      /\ reply'[q].code = code /\ code \in Int
      /\ \A p \in Req \ {q} : pc'[p] = pc[p] /\ reply'[p] = reply[p]
  BY DEF Fail, Send, Goto, Inv, TypeOK, Codes
<1> QED BY <1>1, TurnedAway DEF States

LEMMA LedgerStep ==
    ASSUME Inv, [Next]_vars
    PROVE  [Ledger!Next]_(Ledger!vars)
<1> USE DEF Inv
<1>1. ASSUME UNCHANGED vars
      PROVE  UNCHANGED Ledger!vars
  <2>1. \A p \in Req : Verdict(p)' = Verdict(p)
    BY <1>1 DEF vars, Verdict
  <2> QED BY <1>1, <2>1, InvisibleStep DEF vars
<1>2. ASSUME NEW q \in Req, rows' = rows, read' = read, reply' = reply,
             NEW s \in {"idle", "lock", "insert", "load", "update", "check", "wait", "commit"},
             pc' = [pc EXCEPT ![q] = s],
             pc[q] \in {"idle", "lock", "insert", "load", "update", "check", "wait", "commit"}
      PROVE  UNCHANGED Ledger!vars
  <2>1. \A p \in Req : Verdict(p)' = Verdict(p)
    BY <1>2 DEF Verdict, TypeOK
  <2> QED BY <1>2, <2>1, InvisibleStep
<1>3. ASSUME NEW q \in Req, Arrive(q)
      PROVE  UNCHANGED Ledger!vars
  <2>1. PICK s \in {"lock", "load"} : pc' = [pc EXCEPT ![q] = s]
    BY <1>3 DEF Arrive, Goto
  <2> QED BY <1>2, <1>3, <2>1 DEF Arrive
<1>4. ASSUME NEW q \in Req, LockTable(q)
      PROVE  [Ledger!Next]_(Ledger!vars)
  <2>1. CASE BookingRefusal(call[q]) # 0
    <3>1. BookingRefusal(call[q]) \in {400, 404}
      BY <2>1 DEF BookingRefusal
    <3> QED BY <1>4, <2>1, <3>1, FailIsLedgerStep DEF LockTable, Codes
  <2>2. CASE BookingRefusal(call[q]) = 0
    BY <1>2, <1>4, <2>2 DEF LockTable, Goto
  <2> QED BY <2>1, <2>2
<1>5. ASSUME NEW q \in Req, Insert(q) \/ CheckPasses(q) \/ CheckWaits(q) \/ Resume(q)
      PROVE  UNCHANGED Ledger!vars
  <2>1. PICK s \in {"check", "commit", "wait"} : pc' = [pc EXCEPT ![q] = s]
    BY <1>5 DEF Insert, CheckPasses, CheckWaits, Resume, Goto
  <2> QED BY <1>2, <1>5, <2>1 DEF Insert, CheckPasses, CheckWaits, Resume
<1>6. ASSUME NEW q \in Req, Load(q)
      PROVE  [Ledger!Next]_(Ledger!vars)
  <2> DEFINE r == rows[Target(q)]
  <2>1. pc[q] = "load" /\ call[q] # None /\ ~IsPost(q) /\ read[q] = None
    BY <1>6 DEF Load, Shape
  <2>2. CASE EditRefusal(q, r) # 0
    <3>1. EditRefusal(q, r) \in {403, 404, 412, 428}
      BY <2>2 DEF EditRefusal, HeaderRefusal
    <3> QED BY <1>6, <2>1, <2>2, <3>1, FailIsLedgerStep DEF Load, Codes
  <2>3. CASE EditRefusal(q, r) = 0
    <3>1. /\ rows' = rows /\ reply' = reply /\ read' = [read EXCEPT ![q] = r]
          /\ \E s \in {"commit", "update"} : pc' = [pc EXCEPT ![q] = s]
      BY <1>6, <2>3 DEF Load, Goto
    <3>2. Target(q) \in Row /\ r # None
      BY <2>1, <2>3, EditFields DEF EditRefusal
    <3>3. \A p \in Req : Verdict(p)' = Verdict(p)
      BY <2>1, <3>1 DEF Verdict, TypeOK
    <3>4. Verdict(q) = "open"
      BY <2>1 DEF Verdict
    <3>5. Ledger!Show(q)
      BY <2>1, <3>1, <3>2, <3>3, <3>4, LedgerData DEF Ledger!Show
    <3> QED BY <3>5 DEF Ledger!Next
  <2> QED BY <2>2, <2>3
<1>7. ASSUME NEW q \in Req, Update(q)
      PROVE  [Ledger!Next]_(Ledger!vars)
  <2>1. CASE VersionMatches(q)
    <3>1. PICK s \in {"check", "commit"} : pc' = [pc EXCEPT ![q] = s]
      BY <1>7, <2>1 DEF Update, Goto
    <3> QED BY <1>2, <1>7, <2>1, <3>1 DEF Update
  <2>2. CASE ~VersionMatches(q)
    BY <1>7, <2>2, FailIsLedgerStep DEF Update, Codes
  <2> QED BY <2>1, <2>2
<1>8. ASSUME NEW q \in Req, CheckFails(q)
      PROVE  [Ledger!Next]_(Ledger!vars)
  BY <1>8, FailIsLedgerStep DEF CheckFails, Codes
<1>9. ASSUME NEW q \in Req, AbortDeadlock(q)
      PROVE  [Ledger!Next]_(Ledger!vars)
  <2>1. pc[q] \in {"lock", "update", "wait"}
    BY <1>9 DEF AbortDeadlock, Deadlocked, Blockers
  <2> QED BY <1>9, <2>1, FailIsLedgerStep DEF AbortDeadlock, Codes
<1>10. ASSUME NEW q \in Req, Reload(q)
       PROVE  UNCHANGED Ledger!vars
  <2>1. /\ pc[q] = "reload" /\ pc'[q] = "done" /\ rows' = rows /\ read' = read
        /\ reply'[q].code \in {200, 201}
        /\ \A p \in Req \ {q} : pc'[p] = pc[p] /\ reply'[p] = reply[p]
    BY <1>10 DEF Reload, Send, Goto, TypeOK
  <2>2. \A p \in Req : Verdict(p)' = Verdict(p)
    BY <2>1 DEF Verdict
  <2> QED BY <2>1, <2>2, InvisibleStep
<1>11. ASSUME NEW q \in Req, Die(q)
       PROVE  [Ledger!Next]_(Ledger!vars)
  <2>1. /\ rows' = rows /\ read' = read /\ reply' = reply
        /\ \A p \in Req \ {q} : pc'[p] = pc[p]
        /\ pc[q] \in States \ {"unheard", "done", "lost"}
        /\ pc[q] = "reload" => pc'[q] = "unheard"
        /\ pc[q] # "reload" => pc'[q] = "lost"
    BY <1>11 DEF Die, Goto, TypeOK
  <2>2. CASE pc[q] = "reload"
    <3>1. \A p \in Req : Verdict(p)' = Verdict(p)
      BY <2>1, <2>2 DEF Verdict
    <3> QED BY <2>1, <3>1, InvisibleStep
  <2>3. CASE pc[q] # "reload"
    BY <2>1, <2>3, TurnedAway
  <2> QED BY <2>2, <2>3
<1> QED BY <1>1, <1>3, <1>4, <1>5, <1>6, <1>7, <1>8, <1>9, <1>10, <1>11,
           CommitIsLedgerStep DEF Next, Step, Rest

\* Seen from the committed rows, every behaviour is one of single steps on a
\* book without overlaps: an entry, a replacement of what was shown, nothing.
THEOREM ReservationsImplementLedger == Spec => ImplementsLedger
BY InvHolds, LedgerInit, LedgerStep, PTL DEF Spec, ImplementsLedger, Ledger!Spec
=============================================================================
