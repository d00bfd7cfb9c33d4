------------------------ MODULE NameMigrationProofs ------------------------
(***************************************************************************)
(* Theorems about NameMigration, for all rows, requests, names, scripts    *)
(* and batch sizes: its types and locks whatever the operator does, and,   *)
(* for an operator who keeps the rules of the runbook, that no client can  *)
(* tell that the names are migrated, or migrated back.                     *)
(***************************************************************************)
EXTENDS NameMigration, FiniteSetTheorems, TLAPS

-----------------------------------------------------------------------------
(* The largest and the least of some numbers.                              *)

\* A finite set of numbers that is not empty has a largest.
LEMMA MaxIsIn ==
    ASSUME NEW S \in SUBSET Nat, IsFiniteSet(S), S # {}
    PROVE  Max(S) \in S /\ \A y \in S : y <= Max(S)
<1> DEFINE Above(x) == {y \in S : y > x}
           T == {Above(x) : x \in S}
           R == StrictSubsetOrdering(S)
<1>1. IsWellFoundedOn(R, SUBSET S)
  BY FS_StrictSubsetOrderingWellFounded, FS_FiniteSubsetsOfFinite
<1>2. T \subseteq SUBSET S /\ T # {}
  OBVIOUS
<1>3. PICK U \in T : \A V \in T : ~(<<V, U>> \in R)
  <2> HIDE DEF T, R
  <2> QED
    BY <1>1, <1>2, WFMin
<1>4. PICK x \in S : U = Above(x)
  OBVIOUS
<1>5. ASSUME NEW y \in S, y > x PROVE FALSE
  <2> \A z \in S : z \in Nat
    OBVIOUS
  <2>1. \A z \in S : z > y => z > x
    BY <1>5
  <2>2. ~(y > y)
    OBVIOUS
  <2>3. Above(y) \subseteq Above(x) /\ y \in Above(x) /\ y \notin Above(y)
    BY <1>5, <2>1, <2>2
  <2>4. <<Above(y), Above(x)>> \in R
    BY <2>3 DEF StrictSubsetOrdering
  <2> QED
    BY <1>3, <1>4, <2>4
<1>6. \E m \in S : \A y \in S : m >= y
  BY <1>5
<1> QED
  BY <1>6 DEF Max

LEMMA MinIsIn ==
    ASSUME NEW S \in SUBSET (1 .. 4), S # {}
    PROVE  Min(S) \in S
<1>1. \E m \in S : \A y \in S : m <= y
  <2>1. CASE 1 \in S
    BY <2>1
  <2>2. CASE 1 \notin S /\ 2 \in S
    BY <2>2
  <2>3. CASE 1 \notin S /\ 2 \notin S /\ 3 \in S
    BY <2>3
  <2>4. CASE 1 \notin S /\ 2 \notin S /\ 3 \notin S
    <3>1. \A y \in S : y = 4
      <4>1. \A y \in 1 .. 4 : y \in {1, 2, 3, 4}
        OBVIOUS
      <4> QED
        BY <2>4, <4>1
    <3>2. PICK m \in S : TRUE
      OBVIOUS
    <3>3. m = 4 /\ 4 <= 4
      BY <3>1
    <3>4. \A y \in S : m <= y
      BY <3>1, <3>3
    <3> QED
      BY <3>4
  <2> QED
    BY <2>1, <2>2, <2>3, <2>4
<1> QED
  BY <1>1 DEF Min

-----------------------------------------------------------------------------
(* The requests.                                                           *)

\* What a request asks for.
LEMMA CallType ==
    ASSUME Inv, NEW q \in Req, pc[q] # "idle"
    PROVE  /\ call[q] \in Call /\ call[q] # None /\ Target(q) \in Row
           /\ call[q].op \in {"create", "rename", "touch", "get"}
           /\ call[q].op = "create" => Target(q) = q
           /\ call[q].op # "create" => Target(q) = call[q].row
           /\ call[q].op \in {"create", "rename"} => call[q].name \in Name
<1>1. call[q] \in Call /\ call[q] # None
  BY DEF Inv, TypeOK, RequestTypes, Stages, Stage
<1>2. /\ call[q].op \in {"create", "rename", "touch", "get"}
      /\ call[q].op # "create" => call[q].row \in Row
      /\ call[q].op \in {"create", "rename"} => call[q].name \in Name
  BY <1>1 DEF Call
<1> QED
  BY <1>1, <1>2 DEF Target, Row

\* What the others know is as it was.
OthersSame(q) ==
    \A r \in Req \ {q} :
        /\ pc'[r] = pc[r] /\ call'[r] = call[r] /\ cols'[r] = cols[r]
        /\ got'[r] = got[r] /\ vals'[r] = vals[r] /\ reply'[r] = reply[r]

\* A step of a request that leaves the rows, the schema and the operator alone.
LEMMA OwnStep ==
    ASSUME Inv, NEW q \in Req, OthersSame(q), UNCHANGED <<schema, operator>>,
           RequestTypes', Stage(q)', Payload(q)', Version(q)',
           pc'[q] = "commit" /\ vals'[q] # None =>
               /\ Target(q)' \notin job.batch
               /\ rebuilt # None => Target(q)' \notin rebuilt
               /\ \A r \in Req \ {q} : pc[r] = "commit" /\ vals[r] # None => Target(r) # Target(q)'
    PROVE  Inv'
<1> USE DEF schema, operator
<1>1. TypeOK'
  BY DEF Inv, TypeOK, SchemaTypes, OperatorTypes
<1>2. \A r \in Req \ {q} : /\ Target(r)' = Target(r)
                           /\ Stage(r)' /\ Payload(r)' /\ Version(r)'
  <2> SUFFICES ASSUME NEW r \in Req \ {q}
               PROVE  Target(r)' = Target(r) /\ Stage(r)' /\ Payload(r)' /\ Version(r)'
    OBVIOUS
  <2>1. /\ pc'[r] = pc[r] /\ call'[r] = call[r] /\ cols'[r] = cols[r]
        /\ got'[r] = got[r] /\ vals'[r] = vals[r] /\ reply'[r] = reply[r]
    BY DEF OthersSame
  <2>2. Stage(r) /\ Payload(r) /\ Version(r)
    BY DEF Inv, Stages, Versions
  <2>3. Target(r)' = Target(r)
    BY <2>1 DEF Target
  <2>4. Stage(r)'
    BY <2>1, <2>2, <2>3 DEF Stage
  <2>5. Payload(r)'
    BY <2>1, <2>2 DEF Payload
  <2>6. Version(r)'
    BY <2>1, <2>2, <2>3 DEF Version
  <2> QED
    BY <2>3, <2>4, <2>5, <2>6
<1>3. Stages' /\ Versions'
  BY <1>2 DEF Stages, Versions
<1>4. RowLocks'
  <2>1. \A r \in Req \ {q} : pc'[r] = pc[r] /\ vals'[r] = vals[r]
    BY DEF OthersSame
  <2>2. \A p, r \in {s \in Req : pc'[s] = "commit" /\ vals'[s] # None} :
           Target(p)' = Target(r)' => p = r
    BY <1>2, <2>1 DEF Inv, RowLocks
  <2>3. Awaiting' = Awaiting
    BY DEF Awaiting, Rows
  <2>4. ASSUME NEW r \in job.batch, NEW p \in Req, pc'[p] = "commit", vals'[p] # None
        PROVE  Target(p)' # r
    <3>1. CASE p = q
      BY <2>4, <3>1
    <3>2. CASE p # q
      <4>1. p \in Running /\ pc[p] = "commit" /\ vals[p] # None
        BY <2>1, <2>4, <3>2 DEF Running, Over
      <4>2. ~EditHolds(r)
        BY <2>4 DEF Inv, RowLocks
      <4> QED
        BY <1>2, <3>2, <4>1, <4>2 DEF EditHolds
    <3> QED
      BY <3>1, <3>2
  <2>5. \A r \in job.batch : ~EditHolds(r)'
    BY <2>4 DEF EditHolds, Running
  <2>6. MissingLegacy' = MissingLegacy
    BY DEF MissingLegacy, Rows
  <2>7. ASSUME rebuilt # None, NEW r \in rebuilt, NEW p \in Req, pc'[p] = "commit", vals'[p] # None
        PROVE  Target(p)' # r
    <3>1. CASE p = q
      BY <2>7, <3>1
    <3>2. CASE p # q
      <4>1. p \in Running /\ pc[p] = "commit" /\ vals[p] # None
        BY <2>1, <2>7, <3>2 DEF Running, Over
      <4>2. ~EditHolds(r)
        BY <2>7 DEF Inv, RowLocks
      <4> QED
        BY <1>2, <3>2, <4>1, <4>2 DEF EditHolds
    <3> QED
      BY <3>1, <3>2
  <2>8. rebuilt # None => \A r \in rebuilt : ~EditHolds(r)'
    BY <2>7 DEF EditHolds, Running
  <2> QED
    BY <2>2, <2>3, <2>5, <2>6, <2>8 DEF Inv, RowLocks
<1>5. OneAtATime'
  BY DEF Inv, OneAtATime, Now
<1> QED
  BY <1>1, <1>3, <1>4, <1>5 DEF Inv

\* An answer: of a request that is under way.
LEMMA SendInv ==
    ASSUME Inv, NEW q \in Req, NEW code \in {200, 201, 400, 409, 500},
           NEW n \in Name \cup {Blank, None}, Send(q, code, n),
           pc[q] \notin {"idle", "done", "lost"},
           UNCHANGED <<schema, operator, call, cols, got>>,
           \/ vals' = vals /\ pc[q] \notin {"insert", "update"}
           \/ vals' = [vals EXCEPT ![q] = None] /\ pc[q] \in {"insert", "update"}
    PROVE  Inv'
<1> DEFINE a == [code |-> code, name |-> n]
<1>1. pc' = [pc EXCEPT ![q] = "done"] /\ reply' = [reply EXCEPT ![q] = a]
  BY DEF Send, Goto
<1>2. a \in Reply /\ a # None
  BY NameAssumption DEF Reply, Inv, TypeOK, SchemaTypes
<1> HIDE DEF a
<1>3. RequestTypes'
  BY <1>1, <1>2 DEF Inv, TypeOK, RequestTypes
<1>4. OthersSame(q)
  BY <1>1 DEF OthersSame, Inv, TypeOK, RequestTypes
<1>5. /\ pc'[q] = "done" /\ call'[q] = call[q] /\ reply'[q] = a /\ table' = table
      /\ vals'[q] # None => vals'[q] = vals[q]
      /\ Target(q)' = Target(q)
  BY <1>1 DEF Inv, TypeOK, RequestTypes, Target, schema
<1>6. Stage(q) /\ Payload(q)
  BY DEF Inv, Stages
<1>7. Stage(q)' /\ Payload(q)' /\ Version(q)'
  <2>1. Stage(q)'
    BY <1>2, <1>5, <1>6 DEF Stage
  <2>2. Payload(q)'
    BY <1>5, <1>6 DEF Payload
  <2>3. Version(q)'
    BY <1>5 DEF Version
  <2> QED
    BY <2>1, <2>2, <2>3
<1> QED
  BY <1>3, <1>4, <1>5, <1>7, OwnStep

LEMMA FailInv ==
    ASSUME Inv, NEW q \in Req, NEW code \in {400, 409, 500}, Fail(q, code),
           pc[q] \notin {"idle", "done", "lost"}, UNCHANGED <<schema, operator>>
    PROVE  Inv'
<1>1. Send(q, code, None) /\ UNCHANGED <<schema, operator, call, cols, got>>
  BY DEF Fail
<1>2. code \in {200, 201, 400, 409, 500} /\ None \in Name \cup {Blank, None}
  OBVIOUS
<1>3. \/ vals' = vals /\ pc[q] \notin {"insert", "update"}
      \/ vals' = [vals EXCEPT ![q] = None] /\ pc[q] \in {"insert", "update"}
  <2>1. CASE pc[q] \in {"insert", "update"}
    BY <2>1 DEF Fail
  <2>2. CASE pc[q] \notin {"insert", "update"}
    <3>1. vals \in [Req -> {None} \cup Values]
      BY DEF Inv, TypeOK, RequestTypes
    <3>2. vals' = [vals EXCEPT ![q] = vals[q]]
      BY <2>2 DEF Fail
    <3> QED
      BY <2>2, <3>1, <3>2
  <2> QED
    BY <2>1, <2>2
<1> QED
  BY <1>1, <1>2, <1>3, SendInv

LEMMA ArriveInv == ASSUME Inv, NEW q \in Req, Arrive(q) PROVE Inv'
<1>1. PICK c \in Plan[q] :
        /\ call' = [call EXCEPT ![q] = c]
        /\ IF c.op = "create"
           THEN /\ vals' = [vals EXCEPT ![q] = NamesOf(c.name)]
                /\ Goto(q, "insert")
                /\ UNCHANGED cols
           ELSE /\ table[c.row] # None
                /\ cols' = [cols EXCEPT ![q] = Reads[phase]]
                /\ Goto(q, "load")
                /\ UNCHANGED vals
  BY DEF Arrive
<1>2. pc[q] = "idle" /\ UNCHANGED <<schema, operator, got, reply>>
  BY DEF Arrive
<1>3. c \in Call /\ c # None
  BY PlanAssumption, NameAssumption
<1>4. Stage(q) /\ Payload(q) /\ phase \in Phase
  BY DEF Inv, Stages, TypeOK, SchemaTypes
<1>5. Reads[phase] \in {{"guest"}, {"parts"}} /\ Writes[phase] \subseteq Column
  BY <1>4 DEF Reads, Writes, Column, Phase
<1>6. CASE c.op = "create"
  <2> DEFINE v == NamesOf(c.name)
  <2>1. c.name \in Name
    BY <1>3, <1>6 DEF Call
  <2>2. v \in [Writes[phase] -> Name] /\ v \in Values /\ v # None
    BY <1>5, <2>1, NameAssumption DEF NamesOf, Values
  <2>3. \A k \in DOMAIN v : v[k] = c.name
    BY DEF NamesOf
  <2> HIDE DEF v
  <2>4. /\ pc' = [pc EXCEPT ![q] = "insert"] /\ vals' = [vals EXCEPT ![q] = v]
        /\ UNCHANGED cols
    BY <1>1, <1>6 DEF Goto, v
  <2>5. RequestTypes'
    BY <1>1, <1>2, <1>3, <2>2, <2>4 DEF Inv, TypeOK, RequestTypes
  <2>6. OthersSame(q)
    BY <1>1, <1>2, <2>4 DEF OthersSame, Inv, TypeOK, RequestTypes
  <2>7. /\ pc'[q] = "insert" /\ call'[q] = c /\ vals'[q] = v /\ cols'[q] = cols[q]
        /\ table' = table /\ older' = older /\ reply' = reply
    BY <1>1, <1>2, <2>4 DEF Inv, TypeOK, RequestTypes, schema, operator
  <2>8. Stage(q)'
    BY <1>2, <1>3, <1>4, <1>6, <2>7 DEF Stage
  <2>9. Payload(q)'
    BY <1>6, <2>2, <2>3, <2>7 DEF Payload
  <2>10. Version(q)'
    BY <2>7 DEF Version
  <2> QED
    BY <1>2, <2>5, <2>6, <2>7, <2>8, <2>9, <2>10, OwnStep
<1>7. CASE c.op # "create"
  <2>1. /\ pc' = [pc EXCEPT ![q] = "load"] /\ cols' = [cols EXCEPT ![q] = Reads[phase]]
        /\ UNCHANGED vals /\ table[c.row] # None
    BY <1>1, <1>7 DEF Goto
  <2>2. RequestTypes'
    BY <1>1, <1>2, <1>3, <1>5, <2>1 DEF Inv, TypeOK, RequestTypes, Column
  <2>3. OthersSame(q)
    BY <1>1, <1>2, <2>1 DEF OthersSame, Inv, TypeOK, RequestTypes
  <2>4. /\ pc'[q] = "load" /\ call'[q] = c /\ vals'[q] = None /\ cols'[q] = Reads[phase]
        /\ table' = table /\ older' = older /\ reply' = reply
    BY <1>1, <1>2, <1>4, <2>1 DEF Inv, TypeOK, RequestTypes, schema, operator, Payload, Stage
  <2>5. Target(q)' = c.row
    BY <1>7, <2>4 DEF Target
  <2>6. Stage(q)'
    BY <1>2, <1>3, <1>4, <1>5, <1>7, <2>1, <2>4, <2>5 DEF Stage
  <2>7. Payload(q)' /\ Version(q)'
    BY <2>4 DEF Payload, Version
  <2> QED
    BY <1>2, <2>2, <2>3, <2>4, <2>6, <2>7, OwnStep
<1> QED
  BY <1>6, <1>7

LEMMA SelectInv == ASSUME Inv, NEW q \in Req, Select(q) PROVE Inv'
<1>1. pc[q] \in {"load", "fetch"} /\ UNCHANGED <<schema, operator>>
  BY DEF Select
<1>2. CASE Fail(q, 500)
  BY <1>1, <1>2, FailInv
<1>3. CASE /\ got' = [got EXCEPT ![q] = table[Target(q)]]
           /\ Goto(q, IF pc[q] = "load" /\ call[q].op \in {"rename", "touch"} THEN "edit" ELSE "answer")
           /\ UNCHANGED <<call, cols, vals, reply>>
  <2> DEFINE row == table[Target(q)]
             s == IF pc[q] = "load" /\ call[q].op \in {"rename", "touch"} THEN "edit" ELSE "answer"
  <2>1. Stage(q) /\ Payload(q) /\ Target(q) \in Row
    BY <1>1, CallType DEF Inv, Stages
  <2>2. row \in Record
    BY <1>1, <2>1 DEF Stage, Inv, TypeOK, SchemaTypes
  <2>3. s \in {"edit", "answer"} /\ (s = "edit" => pc[q] = "load" /\ call[q].op \in {"rename", "touch"})
    OBVIOUS
  <2> HIDE DEF s, row
  <2>4. pc' = [pc EXCEPT ![q] = s] /\ got' = [got EXCEPT ![q] = row]
    BY <1>3 DEF Goto, s, row
  <2>5. RequestTypes'
    BY <1>3, <2>2, <2>3, <2>4 DEF Inv, TypeOK, RequestTypes
  <2>6. OthersSame(q)
    BY <1>3, <2>4 DEF OthersSame, Inv, TypeOK, RequestTypes
  <2>7. /\ pc'[q] = s /\ call'[q] = call[q] /\ vals'[q] = vals[q] /\ cols'[q] = cols[q]
        /\ got'[q] = row /\ table' = table /\ older' = older /\ reply' = reply
        /\ Target(q)' = Target(q)
    BY <1>1, <1>3, <2>4 DEF Inv, TypeOK, RequestTypes, schema, operator, Target
  <2>8. row # None
    BY <2>2, NameAssumption
  <2>9. Stage(q)'
    BY <1>1, <2>1, <2>3, <2>7, <2>8 DEF Stage
  <2>10. Payload(q)'
    <3>1. pc[q] = "load" => call[q].op # "create"
      BY <2>1 DEF Stage
    <3>2. s = "answer" /\ call[q].op = "create" => vals[q] # None
      BY <1>1, <2>1, <3>1 DEF Payload
    <3>3. s = "edit" => vals[q] = None
      BY <2>1, <2>3 DEF Payload
    <3>4. vals[q] # None =>
            /\ call[q].op \in {"create", "rename", "touch"}
            /\ call[q].op = "touch" => DOMAIN vals[q] = {}
            /\ call[q].op # "touch" => \A c \in DOMAIN vals[q] : vals[q][c] = call[q].name
      BY <2>1 DEF Payload
    <3> QED
      BY <2>3, <2>7, <3>2, <3>3, <3>4 DEF Payload
  <2>11. Version(q)'
    <3>1. row.version \in Nat
      BY <2>2 DEF Record
    <3> QED
      BY <2>3, <2>7, <3>1 DEF Version, row
  <2> QED
    BY <1>1, <2>3, <2>5, <2>6, <2>7, <2>9, <2>10, <2>11, OwnStep
<1> QED
  BY <1>1, <1>2, <1>3 DEF Select

LEMMA EditInv == ASSUME Inv, NEW q \in Req, Edit(q) PROVE Inv'
<1>1. /\ pc[q] = "edit" /\ UNCHANGED <<schema, operator, call, cols, got, reply>>
      /\ Stage(q) /\ Payload(q) /\ Version(q) /\ phase \in Phase
  BY DEF Edit, Inv, Stages, Versions, TypeOK, SchemaTypes
<1>2. /\ call[q].op \in {"rename", "touch"} /\ vals[q] = None /\ got[q] # None
      /\ call[q].op = "rename" => call[q].name \in Name
  BY <1>1, CallType DEF Stage, Payload
<1>3. CASE call[q].op = "rename" /\ Goto(q, "commit") /\ UNCHANGED vals
  <2>1. pc' = [pc EXCEPT ![q] = "commit"] /\ vals' = vals
    BY <1>3 DEF Goto
  <2>2. RequestTypes' /\ OthersSame(q)
    BY <1>1, <2>1 DEF OthersSame, Inv, TypeOK, RequestTypes
  <2>3. /\ pc'[q] = "commit" /\ vals'[q] = None /\ table' = table /\ older' = older
        /\ Target(q)' = Target(q)
    BY <1>1, <1>2, <2>1 DEF Inv, TypeOK, RequestTypes, schema, operator, Target
  <2>4. Stage(q)' /\ Payload(q)' /\ Version(q)'
    BY <1>1, <1>2, <2>3 DEF Stage, Payload, Version
  <2> QED
    BY <1>1, <2>2, <2>3, <2>4, OwnStep
<1>4. CASE /\ vals' = [vals EXCEPT ![q] = [c \in Changed(q) |-> call[q].name]]
           /\ Goto(q, "update")
  <2> DEFINE v == [c \in Changed(q) |-> call[q].name]
  <2>1. /\ v \in Values /\ v # None /\ (call[q].op = "touch" => DOMAIN v = {})
        /\ \A k \in DOMAIN v : v[k] = call[q].name
    <3>1. Changed(q) \subseteq Column /\ (call[q].op = "touch" => Changed(q) = {})
      BY <1>1 DEF Changed, Writes, Column
    <3>2. v \in [Changed(q) -> Name]
      BY <1>2, <3>1
    <3>3. v \in Values
      BY <3>1, <3>2 DEF Values
    <3> QED
      BY <3>1, <3>3, NameAssumption
  <2> HIDE DEF v
  <2>2. pc' = [pc EXCEPT ![q] = "update"] /\ vals' = [vals EXCEPT ![q] = v]
    BY <1>4 DEF Goto, v
  <2>3. RequestTypes'
    BY <1>1, <2>1, <2>2 DEF Inv, TypeOK, RequestTypes
  <2>4. OthersSame(q)
    BY <1>1, <2>2 DEF OthersSame, Inv, TypeOK, RequestTypes
  <2>5. /\ pc'[q] = "update" /\ vals'[q] = v /\ table' = table /\ older' = older
        /\ Target(q)' = Target(q)
    BY <1>1, <2>2 DEF Inv, TypeOK, RequestTypes, schema, operator, Target
  <2>6. Stage(q)'
    BY <1>1, <1>2, <2>5 DEF Stage
  <2>7. Payload(q)'
    BY <1>1, <1>2, <2>1, <2>5 DEF Payload
  <2>8. Version(q)'
    BY <1>1, <2>5 DEF Version
  <2> QED
    BY <1>1, <2>3, <2>4, <2>5, <2>6, <2>7, <2>8, OwnStep
<1> QED
  BY <1>3, <1>4 DEF Edit

LEMMA InsertInv == ASSUME Inv, NEW q \in Req, Insert(q) PROVE Inv'
<1>1. /\ pc[q] = "insert" /\ UNCHANGED <<schema, operator>>
      /\ Stage(q) /\ Payload(q)
  BY DEF Insert, Inv, Stages
<1>2. CASE Fail(q, 500) \/ Fail(q, 400)
  BY <1>1, <1>2, FailInv
<1>3. CASE Goto(q, "commit") /\ UNCHANGED <<call, cols, got, vals, reply>>
  <2>1. pc' = [pc EXCEPT ![q] = "commit"]
    BY <1>3 DEF Goto
  <2>2. RequestTypes' /\ OthersSame(q)
    BY <1>3, <2>1 DEF OthersSame, Inv, TypeOK, RequestTypes
  <2>3. /\ pc'[q] = "commit" /\ table' = table /\ older' = older
        /\ Target(q)' = Target(q) /\ Target(q) = q /\ table[q] = None /\ call[q].op = "create"
    BY <1>1, <1>3, <2>1 DEF Inv, TypeOK, RequestTypes, schema, operator, Target, Stage
  <2>4. Stage(q)' /\ Payload(q)' /\ Version(q)'
    BY <1>1, <1>3, <2>3 DEF Stage, Payload, Version
  <2>5. q \notin job.batch /\ (rebuilt # None => q \notin rebuilt)
    BY <2>3 DEF Inv, RowLocks, Awaiting, MissingLegacy, Rows
  <2>6. \A r \in Req \ {q} : pc[r] = "commit" => Target(r) # q
    BY <2>3 DEF Inv, Stages, Stage, Target
  <2> QED
    BY <1>1, <2>2, <2>3, <2>4, <2>5, <2>6, OwnStep
<1> QED
  BY <1>2, <1>3 DEF Insert

LEMMA UpdateInv == ASSUME Inv, NEW q \in Req, Update(q) PROVE Inv'
<1>1. /\ pc[q] = "update" /\ UNCHANGED <<schema, operator>>
      /\ Stage(q) /\ Payload(q) /\ Version(q)
      /\ ~EditHolds(Target(q)) /\ ~BatchHolds(Target(q)) /\ ~RebuildHolds(Target(q))
  BY DEF Update, Inv, Stages, Versions
<1>2. CASE Fail(q, 500) \/ Fail(q, 409)
  BY <1>1, <1>2, FailInv
<1>3. CASE /\ table[Target(q)].version = got[q].version
           /\ Goto(q, "commit") /\ UNCHANGED <<call, cols, got, vals, reply>>
  <2>1. pc' = [pc EXCEPT ![q] = "commit"]
    BY <1>3 DEF Goto
  <2>2. RequestTypes' /\ OthersSame(q)
    BY <1>3, <2>1 DEF OthersSame, Inv, TypeOK, RequestTypes
  <2>3. /\ pc'[q] = "commit" /\ table' = table /\ older' = older
        /\ Target(q)' = Target(q)
    BY <1>1, <1>3, <2>1 DEF Inv, TypeOK, RequestTypes, schema, operator, Target
  <2>4. Stage(q)' /\ Payload(q)'
    BY <1>1, <1>3, <2>3 DEF Stage, Payload
  <2>5. Version(q)'
    BY <1>1, <1>3, <2>3 DEF Version
  <2>6. \A r \in Req \ {q} : pc[r] = "commit" /\ vals[r] # None => Target(r) # Target(q)
    BY <1>1 DEF EditHolds, Running, Over
  <2> QED
    BY <1>1, <2>2, <2>3, <2>4, <2>5, <2>6, OwnStep DEF BatchHolds, RebuildHolds
<1> QED
  BY <1>2, <1>3 DEF Update

LEMMA VictimInv == ASSUME Inv, NEW q \in Req, Victim(q) PROVE Inv'
<1>1. pc[q] = "update" /\ Fail(q, 500) /\ UNCHANGED <<schema, operator>>
  BY DEF Victim
<1> QED
  BY <1>1, FailInv

LEMMA ReloadInv == ASSUME Inv, NEW q \in Req, Reload(q) PROVE Inv'
<1>1. /\ pc[q] = "reload" /\ UNCHANGED <<schema, operator, call, got, vals, reply>>
      /\ pc' = [pc EXCEPT ![q] = "fetch"] /\ cols' = [cols EXCEPT ![q] = Reads[phase]]
      /\ Stage(q) /\ Payload(q) /\ phase \in Phase
  BY DEF Reload, Goto, Inv, Stages, TypeOK, SchemaTypes
<1>2. Reads[phase] \in {{"guest"}, {"parts"}}
  BY <1>1 DEF Reads, Phase
<1>3. RequestTypes' /\ OthersSame(q)
  BY <1>1, <1>2 DEF OthersSame, Inv, TypeOK, RequestTypes, Column
<1>4. /\ pc'[q] = "fetch" /\ cols'[q] = Reads[phase] /\ table' = table /\ older' = older
      /\ Target(q)' = Target(q)
  BY <1>1 DEF Inv, TypeOK, RequestTypes, schema, operator, Target
<1>5. Stage(q)' /\ Payload(q)' /\ Version(q)'
  BY <1>1, <1>2, <1>4 DEF Stage, Payload, Version
<1> QED
  BY <1>1, <1>3, <1>4, <1>5, OwnStep

LEMMA AnswerInv == ASSUME Inv, NEW q \in Req, Answer(q) PROVE Inv'
<1>1. /\ pc[q] = "answer" /\ UNCHANGED <<schema, operator>>
      /\ Stage(q) /\ phase \in Phase
  BY DEF Answer, Inv, Stages, TypeOK, SchemaTypes
<1>2. CASE Fail(q, 500)
  BY <1>1, <1>2, FailInv
<1>3. CASE /\ Send(q, IF call[q].op = "create" THEN 201 ELSE 200, Shown(got[q], Reads[phase]))
           /\ UNCHANGED <<call, cols, got, vals>>
  <2>1. got[q] \in Record
    BY <1>1 DEF Stage, Inv, TypeOK, RequestTypes
  <2>2. Shown(got[q], Reads[phase]) \in Name \cup {Blank, None}
    BY <2>1 DEF Shown, Record
  <2> QED
    BY <1>1, <1>3, <2>2, SendInv
<1> QED
  BY <1>2, <1>3 DEF Answer

-----------------------------------------------------------------------------
(* The rows.                                                               *)

\* What a change of the rows leaves to a request: the row it is about is there,
\* a new one is not, and what it is to overwrite it has read or can tell.
Kept(q) ==
    /\ pc[q] = "idle" => table'[q] = None /\ q \notin older'
    /\ pc[q] # "idle" /\ table[Target(q)] # None => table'[Target(q)] # None
    /\ pc[q] \in {"insert", "commit"} /\ call[q].op = "create" => table'[q] = None
    /\ pc[q] \in {"edit", "update"} =>
         \/ table'[Target(q)] = table[Target(q)]
         \/ table'[Target(q)].version > table[Target(q)].version
    /\ pc[q] = "commit" /\ call[q].op # "create" /\ vals[q] # None =>
         table'[Target(q)] = table[Target(q)]

LEMMA KeptIsEnough ==
    ASSUME Inv, NEW q \in Req, Kept(q), SchemaTypes',
           pc'[q] = pc[q], call'[q] = call[q], cols'[q] = cols[q],
           got'[q] = got[q], vals'[q] = vals[q], reply'[q] = reply[q]
    PROVE  Target(q)' = Target(q) /\ Stage(q)' /\ Payload(q)' /\ Version(q)'
<1>1. Stage(q) /\ Payload(q) /\ Version(q)
  BY DEF Inv, Stages, Versions
<1>2. Target(q)' = Target(q)
  BY DEF Target
<1>3. Payload(q)'
  BY <1>1 DEF Payload
<1>4. Stage(q)'
  <2>1. pc[q] \in {"reload", "fetch", "answer"} => table'[Target(q)] # None
    BY <1>1 DEF Kept, Stage
  <2>2. pc[q] # "idle" /\ call[q].op # "create" => table'[Target(q)] # None
    BY <1>1 DEF Kept, Stage
  <2>3. /\ pc[q] = "idle" => table'[q] = None /\ q \notin older'
        /\ pc[q] \in {"insert", "commit"} /\ call[q].op = "create" => table'[q] = None
    BY DEF Kept
  <2> QED
    BY <1>1, <1>2, <2>1, <2>2, <2>3 DEF Stage
<1>5. Version(q)'
  <2>1. CASE pc[q] \in {"edit", "update"}
    <3>1. /\ Target(q) \in Row /\ table[Target(q)] # None /\ table'[Target(q)] # None
          /\ got[q] # None
      BY <1>1, <2>1, CallType DEF Stage, Kept
    <3>2. table[Target(q)] \in Record /\ table'[Target(q)] \in Record /\ got[q] \in Record
      BY <3>1 DEF Inv, TypeOK, SchemaTypes, RequestTypes
    <3>3. /\ table[Target(q)].version \in Nat /\ table'[Target(q)].version \in Nat
          /\ got[q].version \in Nat
      BY <3>2 DEF Record
    <3>4. /\ got[q].version <= table[Target(q)].version
          /\ got[q].version = table[Target(q)].version => got[q] = table[Target(q)]
          /\ \/ table'[Target(q)] = table[Target(q)]
             \/ table'[Target(q)].version > table[Target(q)].version
      BY <1>1, <2>1 DEF Version, Kept
    <3> HIDE DEF Target
    <3>5. /\ got[q].version <= table'[Target(q)].version
          /\ got[q].version = table'[Target(q)].version => got[q] = table'[Target(q)]
      BY <3>3, <3>4
    <3> QED
      BY <1>2, <2>1, <3>5 DEF Version
  <2>2. CASE pc[q] \notin {"edit", "update"}
    BY <1>1, <1>2, <2>2 DEF Version, Kept
  <2> QED
    BY <2>1, <2>2
<1> QED
  BY <1>2, <1>3, <1>4, <1>5

LEMMA OverlayType ==
    ASSUME NEW row \in Record, NEW v \in Values
    PROVE  Overlay(row, v) \in Record /\ Overlay(row, v).version > row.version
<1>1. PICK C \in SUBSET Column : v \in [C -> Name]
  BY DEF Values
<1>2. \A c \in DOMAIN v : v[c] \in Name
  BY <1>1
<1>3. row.version \in Nat /\ row.version + 1 \in Nat /\ row.version + 1 > row.version
  BY DEF Record
<1>4. /\ (IF "guest" \in DOMAIN v THEN v["guest"] ELSE row.guest) \in Name \cup {Blank, None}
      /\ (IF "parts" \in DOMAIN v THEN v["parts"] ELSE row.parts) \in Name \cup {Blank, None}
  BY <1>2 DEF Record
<1> QED
  BY <1>3, <1>4 DEF Overlay, Record

LEMMA CommitInv == ASSUME Inv, NEW q \in Req, Commit(q) PROVE Inv'
<1> DEFINE old == IF call[q].op = "create" THEN NewRow ELSE table[Target(q)]
           new == Overlay(old, vals[q])
<1>1. /\ pc[q] = "commit" /\ Stage(q) /\ Payload(q) /\ Version(q)
      /\ pc' = [pc EXCEPT ![q] = "reload"]
      /\ table' = IF vals[q] = None THEN table ELSE [table EXCEPT ![Target(q)] = new]
      /\ UNCHANGED <<revision, contract, phase, operator, call, cols, got, vals, reply>>
  BY DEF Commit, Goto, Inv, Stages, Versions
<1>2. /\ Target(q) \in Row /\ (call[q].op = "create" => Target(q) = q /\ table[q] = None)
      /\ call[q].op # "create" => table[Target(q)] # None
      /\ call[q].op # "get"
  BY <1>1, CallType DEF Stage
<1>3. RequestTypes' /\ OthersSame(q)
  BY <1>1 DEF OthersSame, Inv, TypeOK, RequestTypes
<1>4. /\ pc'[q] = "reload" /\ Target(q)' = Target(q) /\ older' = older /\ phase \in Phase
      /\ table \in [Row -> {None} \cup Record]
  BY <1>1 DEF Inv, TypeOK, RequestTypes, SchemaTypes, Target, operator
<1>5. CASE vals[q] = None
  <2>1. table' = table
    BY <1>1, <1>5
  <2>2. call[q].op # "create"
    BY <1>1, <1>5 DEF Payload
  <2>3. Stage(q)' /\ Payload(q)' /\ Version(q)'
    BY <1>1, <1>2, <1>4, <1>5, <2>1, <2>2 DEF Stage, Payload, Version
  <2>4. UNCHANGED <<schema, operator>>
    BY <1>1, <2>1 DEF schema, operator
  <2> QED
    BY <1>3, <1>4, <2>3, <2>4, OwnStep
<1>6. CASE vals[q] # None
  <2>1. old \in Record
    <3>1. NewRow \in Record
      BY DEF NewRow, Record
    <3> QED
      BY <1>2, <1>4, <3>1
  <2>2. vals[q] \in Values
    BY <1>6 DEF Inv, TypeOK, RequestTypes
  <2>3. new \in Record /\ new.version > old.version /\ new # None
    <3> HIDE DEF old
    <3> QED
      BY <2>1, <2>2, OverlayType, NameAssumption
  <2>4. call[q].op # "create" => old = table[Target(q)]
    OBVIOUS
  <2> HIDE DEF new, old
  <2>5. table' = [table EXCEPT ![Target(q)] = new]
    BY <1>1, <1>6
  <2>6. SchemaTypes' /\ table'[Target(q)] = new
    BY <1>1, <1>2, <1>4, <2>3, <2>5 DEF Inv, TypeOK, SchemaTypes
  <2>7. OperatorTypes'
    BY <1>1 DEF Inv, TypeOK, OperatorTypes, operator
  <2>8. \A r \in Row : r # Target(q) => table'[r] = table[r]
    BY <1>4, <2>5
  <2>9. ASSUME NEW r \in Req \ {q} PROVE Kept(r)
    <3>1. Stage(r)
      BY DEF Inv, Stages
    <3>2. pc[r] = "idle" => r # Target(q) /\ table'[r] = None /\ r \notin older'
      <4>1. pc[r] = "idle" => table[r] = None /\ r \notin older
        BY <3>1 DEF Stage
      <4>2. r \in Row
        BY DEF Row
      <4> QED
        BY <1>2, <1>4, <2>8, <4>1, <4>2
    <3>3. pc[r] \in {"insert", "commit"} /\ call[r].op = "create" => table'[r] = None
      <4>1. pc[r] \in {"insert", "commit"} /\ call[r].op = "create" => table[r] = None
        BY <3>1 DEF Stage
      <4>2. r \in Row
        BY DEF Row
      <4> QED
        BY <1>2, <2>8, <4>1, <4>2
    <3>4. pc[r] # "idle" /\ table[Target(r)] # None => table'[Target(r)] # None
      BY <2>3, <2>6, <2>8, CallType
    <3>5. pc[r] \in {"edit", "update"} =>
            \/ table'[Target(r)] = table[Target(r)]
            \/ table'[Target(r)].version > table[Target(r)].version
      <4>1. pc[r] \in {"edit", "update"} => Target(r) \in Row /\ table[Target(r)] # None
        BY <3>1, CallType DEF Stage
      <4>2. CASE Target(r) = Target(q)
        BY <1>2, <2>3, <2>4, <2>6, <4>1, <4>2
      <4>3. CASE Target(r) # Target(q)
        BY <2>8, <4>1, <4>3
      <4> QED
        BY <4>2, <4>3
    <3>6. pc[r] = "commit" /\ call[r].op # "create" /\ vals[r] # None =>
            table'[Target(r)] = table[Target(r)]
      <4>1. pc[r] = "commit" /\ vals[r] # None => Target(r) # Target(q) /\ Target(r) \in Row
        BY <1>1, <1>6, CallType DEF Inv, RowLocks
      <4> QED
        BY <2>8, <4>1
    <3> QED
      BY <3>2, <3>3, <3>4, <3>5, <3>6 DEF Kept
  <2>10. ASSUME NEW r \in Req \ {q}
         PROVE  Target(r)' = Target(r) /\ Stage(r)' /\ Payload(r)' /\ Version(r)'
    BY <1>3, <2>6, <2>9, KeptIsEnough DEF OthersSame
  <2>11. Stage(q)' /\ Payload(q)' /\ Version(q)'
    <3>1. UNCHANGED <<call, cols, got, vals, reply>> /\ table'[Target(q)] # None
      BY <1>1, <2>3, <2>6
    <3> QED
      BY <1>1, <1>4, <3>1 DEF Stage, Payload, Version
  <2>12. Stages' /\ Versions'
    BY <2>10, <2>11 DEF Stages, Versions
  <2>13. RowLocks'
    <3>1. \A r \in Req : pc'[r] = "commit" => r # q /\ pc[r] = "commit"
      BY <1>3, <1>4 DEF OthersSame
    <3>2. vals' = vals /\ job' = job
      BY <1>1 DEF operator
    <3>3. \A p, r \in {s \in Req : pc'[s] = "commit" /\ vals'[s] # None} :
             Target(p)' = Target(r)' => p = r
      BY <2>10, <3>1, <3>2 DEF Inv, RowLocks
    <3>4. \A r \in job.batch : r # Target(q) /\ r \in Row /\ table'[r] = table[r]
      <4>1. \A r \in job.batch : ~EditHolds(r) /\ r \in Row
        BY DEF Inv, RowLocks, Awaiting, Rows
      <4>2. EditHolds(Target(q))
        BY <1>1, <1>6 DEF EditHolds, Running, Over
      <4> QED
        BY <2>8, <4>1, <4>2
    <3>5. job'.batch \subseteq Awaiting'
      BY <3>2, <3>4 DEF Inv, RowLocks, Awaiting, Rows
    <3>6. ASSUME NEW r \in job.batch, NEW p \in Req, pc'[p] = "commit", vals'[p] # None
          PROVE  Target(p)' # r
      <4>1. p # q /\ pc[p] = "commit" /\ vals[p] # None /\ Target(p)' = Target(p)
        BY <2>10, <3>1, <3>2, <3>6
      <4>2. ~EditHolds(r)
        BY DEF Inv, RowLocks
      <4> QED
        BY <4>1, <4>2 DEF EditHolds, Running, Over
    <3>7. \A r \in job'.batch : ~EditHolds(r)'
      BY <3>2, <3>6 DEF EditHolds, Running
    <3>8. ASSUME rebuilt # None
          PROVE  rebuilt \subseteq MissingLegacy' /\ \A r \in rebuilt : ~EditHolds(r)'
      <4>1. \A r \in rebuilt : ~EditHolds(r) /\ r \in MissingLegacy
        BY <3>8 DEF Inv, RowLocks
      <4>2. EditHolds(Target(q))
        BY <1>1, <1>6 DEF EditHolds, Running, Over
      <4>3. \A r \in rebuilt : r # Target(q) /\ r \in Row /\ table'[r] = table[r]
        BY <2>8, <4>1, <4>2 DEF MissingLegacy, Rows
      <4>4. rebuilt \subseteq MissingLegacy'
        BY <4>1, <4>3 DEF MissingLegacy, Rows
      <4>5. ASSUME NEW r \in rebuilt, NEW p \in Req, pc'[p] = "commit", vals'[p] # None
            PROVE  Target(p)' # r
        <5>1. p # q /\ pc[p] = "commit" /\ vals[p] # None /\ Target(p)' = Target(p)
          BY <2>10, <3>1, <3>2, <4>5
        <5> QED
          BY <4>1, <5>1 DEF EditHolds, Running, Over
      <4>6. \A r \in rebuilt : ~EditHolds(r)'
        BY <4>5 DEF EditHolds, Running
      <4> QED
        BY <4>4, <4>6
    <3>9. rebuilt' = rebuilt
      BY <1>1 DEF operator
    <3> QED
      BY <3>3, <3>5, <3>7, <3>8, <3>9 DEF RowLocks
  <2>14. OneAtATime'
    BY <1>1 DEF Inv, OneAtATime, Now, operator
  <2> QED
    BY <1>3, <2>6, <2>7, <2>12, <2>13, <2>14 DEF Inv, TypeOK
<1> QED
  BY <1>5, <1>6

-----------------------------------------------------------------------------
(* The operator.                                                           *)

LEMMA NowType ==
    ASSUME Inv, NEW op, Now(op)
    PROVE  /\ step \in 1 .. Len(Script) /\ step + 1 \in 1 .. Len(Script) + 1
           /\ Script[step] \in Operation /\ Script[step].do = op
           /\ op \in {"upgrade", "downgrade"} => Script[step].to \in 1 .. 4
           /\ op \in {"phase", "attempt"} => Script[step].to \in Phase
<1>1. step \in 1 .. Len(Script) + 1 /\ step <= Len(Script) /\ Script[step].do = op
  BY DEF Now, Inv, TypeOK, OperatorTypes
<1>2. Len(Script) \in Nat
  BY ScriptAssumption
<1>3. step \in 1 .. Len(Script) /\ step + 1 \in 1 .. Len(Script) + 1
  BY <1>1, <1>2
<1>4. Script[step] \in Operation
  BY <1>3, ScriptAssumption
<1>5. /\ op \in {"upgrade", "downgrade"} => Script[step].to \in 1 .. 4
      /\ op \in {"phase", "attempt"} => Script[step].to \in Phase
  BY <1>1, <1>4 DEF Operation
<1> QED
  BY <1>1, <1>3, <1>4, <1>5

\* The operator goes from one step to another, and looks who is under way, or not.
Turn == \/ UNCHANGED <<step, older>>
        \/ step' = step /\ older' = Running
        \/ step' = step + 1 /\ step + 1 \in 1 .. Len(Script) + 1 /\ older' = Running
        \/ step' \in 1 .. Len(Script) /\ older' = older

LEMMA TurnType ==
    ASSUME Inv, Turn
    PROVE  step' \in 1 .. Len(Script) + 1 /\ older' \subseteq Req /\ older' \in {older, Running}
<1>1. step \in 1 .. Len(Script) + 1 /\ older \subseteq Req
  BY DEF Inv, TypeOK, OperatorTypes
<1>2. Running \subseteq Req
  BY DEF Running
<1>3. Len(Script) \in Nat
  BY ScriptAssumption
<1> QED
  BY <1>1, <1>2, <1>3 DEF Turn

LEMMA NextStepTurns == ASSUME Inv, NEW op, Now(op), NextStep PROVE Turn
  BY NowType DEF NextStep, Turn

\* The same rows serve every request.
LEMMA SameRows ==
    ASSUME Inv, table' = table, older' \in {older, Running}
    PROVE  \A q \in Req : Kept(q)
<1>1. SUFFICES ASSUME NEW q \in Req PROVE Kept(q)
  OBVIOUS
<1>2. Stage(q)
  BY DEF Inv, Stages
<1>3. pc[q] = "idle" => q \notin older'
  BY <1>2 DEF Stage, Running
<1> QED
  BY <1>2, <1>3 DEF Kept, Stage

\* A step that leaves the requests where they are.
LEMMA OperatorStep ==
    ASSUME Inv, UNCHANGED requests, SchemaTypes', OperatorTypes', \A q \in Req : Kept(q),
           job'.batch \subseteq Awaiting', \A r \in job'.batch : ~EditHolds(r), OneAtATime',
           rebuilt' # None => rebuilt' \subseteq MissingLegacy' /\ \A r \in rebuilt' : ~EditHolds(r)
    PROVE  Inv'
<1> USE DEF requests
<1>1. RequestTypes'
  BY DEF Inv, TypeOK, RequestTypes
<1>2. \A q \in Req : Target(q)' = Target(q) /\ Stage(q)' /\ Payload(q)' /\ Version(q)'
  BY KeptIsEnough
<1>3. Stages' /\ Versions'
  BY <1>2 DEF Stages, Versions
<1>4. RowLocks'
  <2>1. \A p, r \in {s \in Req : pc'[s] = "commit" /\ vals'[s] # None} :
           Target(p)' = Target(r)' => p = r
    BY <1>2 DEF Inv, RowLocks
  <2>2. \A r \in job'.batch : ~EditHolds(r)'
    BY <1>2 DEF EditHolds, Running, Over
  <2>3. rebuilt' # None => \A r \in rebuilt' : ~EditHolds(r)'
    BY <1>2 DEF EditHolds, Running, Over
  <2> QED
    BY <2>1, <2>2, <2>3 DEF RowLocks
<1> QED
  BY <1>1, <1>3, <1>4 DEF Inv, TypeOK

\* ... and the rows as they are, and the backfill; 0003's downgrade may begin or
\* give up.
LEMMA SchemaStep ==
    ASSUME Inv, UNCHANGED <<requests, table, job, restarts>>, Turn,
           revision' \in 1 .. 4, contract' \in [at : 0 .. 5, check : BOOLEAN, notNull : BOOLEAN],
           phase' \in Phase, asked' \in Phase \cup {None}, timeouts' \in 0 .. MaxTimeouts,
           rebuilt' \in {rebuilt, None, MissingLegacy},
           rebuilt' = MissingLegacy => rebuilt = MissingLegacy \/ \A r \in MissingLegacy : ~EditHolds(r),
           OneAtATime'
    PROVE  Inv'
<1>1. SchemaTypes'
  BY DEF Inv, TypeOK, SchemaTypes
<1>2. OperatorTypes'
  <2>1. rebuilt' \in {None} \cup SUBSET Row
    BY DEF Inv, TypeOK, OperatorTypes, MissingLegacy, Rows
  <2> QED
    BY <2>1, TurnType DEF Inv, TypeOK, OperatorTypes
<1>3. \A q \in Req : Kept(q)
  BY SameRows, TurnType
<1>4. job'.batch \subseteq Awaiting' /\ \A r \in job'.batch : ~EditHolds(r)
  BY DEF Inv, RowLocks, Awaiting, Rows
<1>5. rebuilt' # None => rebuilt' \subseteq MissingLegacy' /\ \A r \in rebuilt' : ~EditHolds(r)
  <2>1. MissingLegacy' = MissingLegacy
    BY DEF MissingLegacy, Rows
  <2> QED
    BY <2>1 DEF Inv, RowLocks
<1> QED
  BY <1>1, <1>2, <1>3, <1>4, <1>5, OperatorStep

\* Who is between two steps has no PUT under way.
LEMMA NothingAsked ==
    ASSUME Inv, NEW op, Now(op), op \notin {"phase", "attempt"}
    PROVE  asked = None
  BY DEF Inv, OneAtATime, Now

LEMMA UpgradeInv == ASSUME Inv, Upgrade PROVE Inv'
<1>1. /\ Now("upgrade") /\ ~job.on /\ contract.at = 0 /\ asked = None /\ rebuilt = None
      /\ UNCHANGED <<table, phase, asked, job, rebuilt, restarts, timeouts, requests>>
  BY NothingAsked DEF Upgrade, Ready
<1>2. /\ revision \in 1 .. 4 /\ contract \in [at : 0 .. 5, check : BOOLEAN, notNull : BOOLEAN]
      /\ phase \in Phase /\ timeouts \in 0 .. MaxTimeouts
      /\ job.batch # {} => job.on
  BY DEF Inv, TypeOK, SchemaTypes, OperatorTypes, OneAtATime
<1>3. CASE NextStep /\ UNCHANGED <<revision, contract>>
  <2>1. OneAtATime'
    BY <1>1, <1>2, <1>3 DEF OneAtATime
  <2> QED
    BY <1>1, <1>2, <1>3, <2>1, NextStepTurns, SchemaStep
<1>4. CASE revision = 3 /\ contract' = [contract EXCEPT !.at = 1] /\ UNCHANGED <<revision, step, older>>
  <2>1. OneAtATime'
    BY <1>1, <1>2, <1>4 DEF OneAtATime, Now
  <2>2. contract' \in [at : 0 .. 5, check : BOOLEAN, notNull : BOOLEAN]
    BY <1>2, <1>4
  <2> QED
    BY <1>1, <1>2, <1>4, <2>1, <2>2, SchemaStep DEF Turn
<1>5. CASE revision # 3 /\ Script[step].to > revision /\ NextStep /\ revision' = revision + 1 /\ UNCHANGED contract
  <2>1. revision' \in 1 .. 4
    BY <1>1, <1>2, <1>5, NowType
  <2>2. OneAtATime'
    BY <1>1, <1>2, <1>5 DEF OneAtATime
  <2> QED
    BY <1>1, <1>2, <1>5, <2>1, <2>2, NextStepTurns, SchemaStep
<1>6. ~(Script[step].to <= revision) => Script[step].to > revision
  BY <1>1, <1>2, NowType
<1> QED
  BY <1>3, <1>4, <1>5, <1>6 DEF Upgrade

\* While 0004 runs, nothing else does.
LEMMA OnlyContract ==
    ASSUME Inv, contract.at # 0
    PROVE  asked = None /\ ~job.on /\ job.batch = {} /\ revision = 3 /\ rebuilt = None
  BY DEF Inv, OneAtATime

LEMMA StatementInv ==
    ASSUME Inv, contract.at # 0, AddCheck \/ Validate \/ SetNotNull \/ DropCheck,
           UNCHANGED <<phase, asked, job, rebuilt, restarts, timeouts, requests>>
    PROVE  Inv'
<1>1. asked = None /\ ~job.on /\ job.batch = {} /\ revision = 3 /\ rebuilt = None
  BY OnlyContract
<1>2. /\ contract \in [at : 0 .. 5, check : BOOLEAN, notNull : BOOLEAN] /\ phase \in Phase
      /\ revision \in 1 .. 4 /\ timeouts \in 0 .. MaxTimeouts
      /\ Patient => Now("upgrade")
  BY DEF Inv, TypeOK, SchemaTypes, OperatorTypes, OneAtATime
<1>3. UNCHANGED <<revision, table, step, older>>
  BY DEF AddCheck, Validate, SetNotNull, DropCheck
<1>4. contract' \in [at : 0 .. 5, check : BOOLEAN, notNull : BOOLEAN]
  <2> DEFINE C == [at : 0 .. 5, check : BOOLEAN, notNull : BOOLEAN]
  <2>1. \A n \in {0, 2, 3, 4, 5} : [contract EXCEPT !.at = n] \in C
    BY <1>2
  <2>2. /\ [contract EXCEPT !.at = 2, !.check = TRUE] \in C
        /\ [contract EXCEPT !.at = 5, !.check = FALSE] \in C
    <3>1. ASSUME NEW n \in 0 .. 5, NEW b \in BOOLEAN PROVE [contract EXCEPT !.at = n, !.check = b] \in C
      BY <1>2
    <3>2. 2 \in 0 .. 5 /\ 4 \in 0 .. 5 /\ 5 \in 0 .. 5
      OBVIOUS
    <3> HIDE DEF C
    <3> QED
      BY <3>1, <3>2, Zenon
  <2>3. [contract EXCEPT !.at = 4, !.notNull = TRUE] \in C
    <3>1. ASSUME NEW n \in 0 .. 5, NEW b \in BOOLEAN PROVE [contract EXCEPT !.at = n, !.notNull = b] \in C
      BY <1>2
    <3>2. 2 \in 0 .. 5 /\ 4 \in 0 .. 5 /\ 5 \in 0 .. 5
      OBVIOUS
    <3> HIDE DEF C
    <3> QED
      BY <3>1, <3>2, Zenon
  <2> HIDE DEF C
  <2>5. contract' \in C
    <3>1. CASE AddCheck
      BY <2>1, <2>2, <3>1 DEF AddCheck, Stops
    <3>2. CASE Validate
      BY <2>1, <3>2 DEF Validate, Stops
    <3>3. CASE SetNotNull
      BY <2>3, <3>3 DEF SetNotNull
    <3>4. CASE DropCheck
      BY <2>2, <3>4 DEF DropCheck
    <3> QED
      BY <3>1, <3>2, <3>3, <3>4
  <2> QED
    BY <2>5 DEF C
<1>5. OneAtATime'
  BY <1>1, <1>2, <1>3 DEF OneAtATime, Now
<1> QED
  BY <1>1, <1>2, <1>3, <1>4, <1>5, SchemaStep DEF Turn

\* Who touches the table is neither to overwrite a row, nor to make one.
LEMMA QuietKeeps ==
    ASSUME Inv, Quiet, older' \in {older, Running},
           \A r \in Row : table'[r] = None <=> table[r] = None
    PROVE  \A q \in Req : Kept(q)
<1>1. SUFFICES ASSUME NEW q \in Req PROVE Kept(q)
  OBVIOUS
<1>2. Stage(q) /\ pc[q] \notin {"edit", "update", "commit", "answer"} /\ q \in Row
  BY DEF Inv, Stages, Quiet, Touching, Row
<1>3. pc[q] = "idle" => q \notin older'
  BY <1>2 DEF Stage, Running
<1>4. pc[q] # "idle" => Target(q) \in Row
  BY CallType
<1> QED
  BY <1>2, <1>3, <1>4 DEF Kept, Stage

LEMMA DropNameInv ==
    ASSUME Inv, DropName, UNCHANGED <<phase, asked, job, rebuilt, restarts, timeouts, requests>>
    PROVE  Inv'
<1>1. /\ contract.at = 5 /\ Quiet /\ revision' = 4
      /\ contract' = [contract EXCEPT !.at = 0]
      /\ table' = [r \in Row |-> IF r \in Rows THEN [table[r] EXCEPT !.guest = None] ELSE None]
      /\ IF Now("upgrade") THEN NextStep ELSE UNCHANGED <<step, older>>
  BY DEF DropName, Statement, Stops
<1>2. asked = None /\ ~job.on /\ job.batch = {} /\ rebuilt = None
  BY <1>1, OnlyContract
<1>3. /\ contract \in [at : 0 .. 5, check : BOOLEAN, notNull : BOOLEAN] /\ phase \in Phase
      /\ timeouts \in 0 .. MaxTimeouts /\ table \in [Row -> {None} \cup Record]
  BY DEF Inv, TypeOK, SchemaTypes, OperatorTypes
<1>4. Turn
  BY <1>1, NextStepTurns DEF Turn
<1>5. \A r \in Row : r \in Rows => [table[r] EXCEPT !.guest = None] \in Record
  BY <1>3 DEF Rows, Record
<1>6. SchemaTypes'
  BY <1>1, <1>3, <1>5 DEF SchemaTypes
<1>7. OperatorTypes'
  BY <1>4, TurnType DEF Inv, TypeOK, OperatorTypes
<1>8. \A r \in Row : table'[r] = None <=> table[r] = None
  BY <1>1, <1>5, NameAssumption DEF Rows
<1>9. \A q \in Req : Kept(q)
  BY <1>1, <1>4, <1>8, QuietKeeps, TurnType
<1>10. OneAtATime'
  BY <1>1, <1>2, <1>3 DEF OneAtATime
<1> QED
  BY <1>2, <1>6, <1>7, <1>9, <1>10, OperatorStep

LEMMA ContractInv == ASSUME Inv, Contract PROVE Inv'
<1>1. UNCHANGED <<phase, asked, job, rebuilt, restarts, timeouts, requests>>
  BY DEF Contract
<1>2. CASE DropName
  BY <1>1, <1>2, DropNameInv
<1>3. CASE AddCheck \/ Validate \/ SetNotNull \/ DropCheck
  <2>1. contract.at # 0
    BY <1>3 DEF AddCheck, Validate, SetNotNull, DropCheck, Statement
  <2> QED
    BY <1>1, <1>3, <2>1, StatementInv
<1> QED
  BY <1>2, <1>3 DEF Contract

LEMMA LockTimeoutInv == ASSUME Inv, LockTimeout PROVE Inv'
<1>1. /\ contract.at # 0 /\ timeouts < MaxTimeouts /\ timeouts' = timeouts + 1
      /\ contract' = [contract EXCEPT !.at = 0]
      /\ UNCHANGED <<revision, table, phase, asked, step, older, job, rebuilt, restarts, requests>>
  BY DEF LockTimeout, Stops
<1>2. /\ contract \in [at : 0 .. 5, check : BOOLEAN, notNull : BOOLEAN] /\ phase \in Phase
      /\ revision \in 1 .. 4 /\ timeouts \in 0 .. MaxTimeouts /\ MaxTimeouts \in Nat
  BY BoundAssumption DEF Inv, TypeOK, SchemaTypes, OperatorTypes
<1>3. asked = None /\ ~job.on /\ job.batch = {} /\ rebuilt = None
  BY <1>1, OnlyContract
<1>4. OneAtATime'
  BY <1>1, <1>2, <1>3 DEF OneAtATime
<1>5. timeouts' \in 0 .. MaxTimeouts
  BY <1>1, <1>2
<1> QED
  BY <1>1, <1>2, <1>3, <1>4, <1>5, SchemaStep DEF Turn

LEMMA DowngradedType ==
    ASSUME NEW row \in Record PROVE Downgraded(row) \in Record
<1>1. /\ row.guest \in Name \cup {Blank, None} /\ row.parts \in Name \cup {Blank, None}
      /\ row.version \in Nat /\ row.version + 1 \in Nat
  BY DEF Record
<1>2. Shown(row, {"parts"}) \in Name \cup {Blank}
  BY <1>1 DEF Shown
<1>3. Rewritten(row, Shown(row, {"parts"})) \in Record
  BY <1>1, <1>2 DEF Rewritten, Record
<1>4. [row EXCEPT !.parts = None] \in Record
  BY DEF Record
<1> QED
  BY <1>3, <1>4 DEF Downgraded

LEMMA DowngradeInv == ASSUME Inv, Downgrade PROVE Inv'
<1>1. /\ Now("downgrade") /\ ~job.on /\ contract.at = 0 /\ asked = None /\ rebuilt = None
      /\ UNCHANGED <<phase, asked, job, restarts, timeouts, requests>>
  BY NothingAsked DEF Downgrade, Ready
<1>2. /\ revision \in 1 .. 4 /\ contract \in [at : 0 .. 5, check : BOOLEAN, notNull : BOOLEAN]
      /\ phase \in Phase /\ timeouts \in 0 .. MaxTimeouts /\ table \in [Row -> {None} \cup Record]
      /\ job.batch # {} => job.on
  BY DEF Inv, TypeOK, SchemaTypes, OperatorTypes, OneAtATime
<1>3. NextStep => Turn
  BY <1>1, NextStepTurns
<1>4. CASE NextStep /\ UNCHANGED <<revision, table, contract, rebuilt>>
  <2>1. OneAtATime'
    BY <1>1, <1>2, <1>4 DEF OneAtATime
  <2> QED
    BY <1>1, <1>2, <1>3, <1>4, <2>1, SchemaStep
<1>5. CASE /\ Script[step].to < revision
           /\ Quiet /\ NextStep
           /\ revision' = revision - 1
           /\ contract' = [at |-> 0, check |-> contract.check /\ revision # 2, notNull |-> FALSE]
           /\ table' = [r \in Row |-> IF r \in Rows THEN Downgraded(table[r]) ELSE None]
           /\ UNCHANGED rebuilt
  <2>1. \A r \in Row : r \in Rows => Downgraded(table[r]) \in Record
    BY <1>2, DowngradedType DEF Rows
  <2>2. SchemaTypes'
    <3>1. revision' \in 1 .. 4
      BY <1>1, <1>2, <1>5, NowType
    <3>2. table' \in [Row -> {None} \cup Record]
      BY <1>5, <2>1
    <3>3. contract' \in [at : 0 .. 5, check : BOOLEAN, notNull : BOOLEAN]
      BY <1>2, <1>5
    <3> QED
      BY <1>1, <1>2, <3>1, <3>2, <3>3 DEF SchemaTypes
  <2>3. OperatorTypes'
    BY <1>1, <1>3, <1>5, TurnType DEF Inv, TypeOK, OperatorTypes
  <2>4. \A r \in Row : table'[r] = None <=> table[r] = None
    BY <1>5, <2>1, NameAssumption DEF Rows
  <2>5. \A q \in Req : Kept(q)
    BY <1>3, <1>5, <2>4, QuietKeeps, TurnType
  <2>6. OneAtATime'
    BY <1>1, <1>2, <1>5 DEF OneAtATime
  <2>7. job'.batch = {} /\ rebuilt' = None
    BY <1>1, <1>2, <1>5
  <2> QED
    BY <1>1, <2>2, <2>3, <2>5, <2>6, <2>7, OperatorStep
<1>6. CASE /\ revision = 3
           /\ \A r \in MissingLegacy : ~EditHolds(r)
           /\ rebuilt' = MissingLegacy
           /\ UNCHANGED <<revision, table, contract, step, older>>
  <2>1. OneAtATime'
    BY <1>1, <1>2, <1>6 DEF OneAtATime, Now
  <2> QED
    BY <1>1, <1>2, <1>6, <2>1, SchemaStep DEF Turn
<1>7. ~(Script[step].to >= revision) => Script[step].to < revision
  BY <1>1, <1>2, NowType
<1> QED
  BY <1>4, <1>5, <1>6, <1>7 DEF Downgrade

LEMMA RestoreInv == ASSUME Inv, Restore PROVE Inv'
<1>1. /\ rebuilt # None /\ Quiet /\ rebuilt' = None
      /\ UNCHANGED <<contract, phase, asked, job, restarts, timeouts, requests>>
  BY DEF Restore
<1>2. /\ revision \in 1 .. 4 /\ contract \in [at : 0 .. 5, check : BOOLEAN, notNull : BOOLEAN]
      /\ phase \in Phase /\ timeouts \in 0 .. MaxTimeouts /\ table \in [Row -> {None} \cup Record]
      /\ asked = None /\ contract.at = 0 /\ ~job.on /\ job.batch = {}
      /\ rebuilt \subseteq MissingLegacy
  BY <1>1 DEF Inv, TypeOK, SchemaTypes, OperatorTypes, OneAtATime, RowLocks
<1>3. OneAtATime'
  BY <1>1, <1>2 DEF OneAtATime
<1>4. CASE UNCHANGED <<revision, table, step, older>>
  BY <1>1, <1>2, <1>3, <1>4, SchemaStep, NameAssumption DEF Turn, MissingLegacy, Rows
<1> DEFINE refilled(r) == Rewritten(table[r], Shown(table[r], {"parts"}))
<1>5. CASE /\ revision' = 2
           /\ table' = [r \in Row |-> IF r \in rebuilt THEN refilled(r) ELSE table[r]]
           /\ IF Now("downgrade") THEN NextStep ELSE UNCHANGED <<step, older>>
  <2>1. ASSUME NEW r \in rebuilt PROVE r \in Row /\ table[r] # None /\ refilled(r) \in Record
    <3>1. r \in Row /\ table[r] # None /\ table[r] \in Record
      BY <1>2 DEF MissingLegacy, Rows
    <3>2. /\ table[r].parts \in Name \cup {Blank, None}
          /\ table[r].version \in Nat /\ table[r].version + 1 \in Nat
      BY <3>1 DEF Record
    <3>3. Shown(table[r], {"parts"}) \in Name \cup {Blank, None}
      BY <3>2 DEF Shown
    <3> QED
      BY <3>1, <3>2, <3>3 DEF Rewritten, Record
  <2> HIDE DEF refilled
  <2>2. SchemaTypes'
    BY <1>1, <1>2, <1>5, <2>1 DEF SchemaTypes
  <2>3. Turn
    BY <1>5, NextStepTurns DEF Turn
  <2>4. OperatorTypes'
    BY <1>1, <2>3, TurnType DEF Inv, TypeOK, OperatorTypes
  <2>5. \A r \in Row : table'[r] = None <=> table[r] = None
    BY <1>5, <2>1, NameAssumption
  <2>6. \A q \in Req : Kept(q)
    BY <1>1, <2>3, <2>5, QuietKeeps, TurnType
  <2> QED
    BY <1>1, <1>2, <1>3, <2>2, <2>4, <2>6, OperatorStep
<1> QED
  BY <1>1, <1>4, <1>5 DEF Restore

LEMMA GiveUpInv == ASSUME Inv, GiveUp PROVE Inv'
<1>1. /\ rebuilt # None /\ rebuilt' = None /\ older' = Running
      /\ UNCHANGED <<schema, asked, step, job, restarts, timeouts, requests>>
  BY DEF GiveUp
<1>2. /\ revision \in 1 .. 4 /\ contract \in [at : 0 .. 5, check : BOOLEAN, notNull : BOOLEAN]
      /\ phase \in Phase /\ timeouts \in 0 .. MaxTimeouts
      /\ asked = None /\ contract.at = 0 /\ ~job.on /\ job.batch = {}
  BY <1>1 DEF Inv, TypeOK, SchemaTypes, OperatorTypes, OneAtATime
<1>3. OneAtATime'
  BY <1>1, <1>2 DEF OneAtATime, schema
<1>4. None # MissingLegacy
  BY NameAssumption DEF MissingLegacy, Rows
<1> QED
  BY <1>1, <1>2, <1>3, <1>4, SchemaStep DEF Turn, schema

LEMMA AskInv == ASSUME Inv, Ask PROVE Inv'
<1>1. /\ Now("phase") \/ Now("attempt")
      /\ ~job.on /\ contract.at = 0 /\ rebuilt = None
      /\ asked' = Script[step].to
      /\ UNCHANGED <<schema, step, older, job, rebuilt, restarts, timeouts, requests>>
  BY DEF Ask, Ready
<1>2. /\ revision \in 1 .. 4 /\ contract \in [at : 0 .. 5, check : BOOLEAN, notNull : BOOLEAN]
      /\ phase \in Phase /\ timeouts \in 0 .. MaxTimeouts
      /\ job.batch # {} => job.on
  BY DEF Inv, TypeOK, SchemaTypes, OperatorTypes, OneAtATime
<1>3. asked' \in Phase
  BY <1>1, NowType
<1>4. OneAtATime'
  BY <1>1, <1>2 DEF OneAtATime, Now, schema
<1> QED
  BY <1>1, <1>2, <1>3, <1>4, SchemaStep DEF Turn, schema

LEMMA TurnedDownInv == ASSUME Inv, TurnedDown PROVE Inv'
<1>1. /\ Now("attempt") /\ ~job.on /\ contract.at = 0 /\ asked = None /\ NextStep
      /\ rebuilt = None /\ UNCHANGED <<schema, asked, job, rebuilt, restarts, timeouts, requests>>
  BY DEF TurnedDown, Ready
<1>2. /\ revision \in 1 .. 4 /\ contract \in [at : 0 .. 5, check : BOOLEAN, notNull : BOOLEAN]
      /\ phase \in Phase /\ timeouts \in 0 .. MaxTimeouts
      /\ job.batch # {} => job.on
  BY DEF Inv, TypeOK, SchemaTypes, OperatorTypes, OneAtATime
<1>3. OneAtATime'
  BY <1>1, <1>2 DEF OneAtATime, schema
<1> QED
  BY <1>1, <1>2, <1>3, NextStepTurns, SchemaStep DEF schema

LEMMA SwitchInv == ASSUME Inv, Switch PROVE Inv'
<1>1. /\ asked # None /\ phase' = asked /\ asked' = None /\ NextStep
      /\ UNCHANGED <<revision, table, contract, job, rebuilt, restarts, timeouts, requests>>
  BY DEF Switch
<1>2. /\ revision \in 1 .. 4 /\ contract \in [at : 0 .. 5, check : BOOLEAN, notNull : BOOLEAN]
      /\ asked \in Phase /\ timeouts \in 0 .. MaxTimeouts
      /\ contract.at = 0 /\ ~job.on /\ job.batch = {} /\ rebuilt = None
      /\ Now("phase") \/ Now("attempt")
  BY <1>1 DEF Inv, TypeOK, SchemaTypes, OperatorTypes, OneAtATime
<1>3. OneAtATime'
  BY <1>1, <1>2 DEF OneAtATime
<1>4. Turn
  BY <1>1, <1>2, NextStepTurns
<1> QED
  BY <1>1, <1>2, <1>3, <1>4, SchemaStep

\* A step of the backfill that leaves the rows alone.
LEMMA JobStep ==
    ASSUME Inv, UNCHANGED <<schema, asked, rebuilt, restarts, timeouts, requests>>, Turn,
           job' \in [on : BOOLEAN, after : Row \cup {0}, batch : SUBSET Row, filled : BOOLEAN,
                     pass : 0 .. MaxPasses],
           job'.batch \subseteq Awaiting, \A r \in job'.batch : ~EditHolds(r), OneAtATime'
    PROVE  Inv'
<1>1. SchemaTypes'
  BY DEF Inv, TypeOK, SchemaTypes, schema
<1>2. OperatorTypes'
  BY TurnType DEF Inv, TypeOK, OperatorTypes
<1>3. \A q \in Req : Kept(q)
  BY SameRows, TurnType DEF schema
<1>4. Awaiting' = Awaiting
  BY DEF Awaiting, Rows, schema
<1>5. rebuilt' # None => rebuilt' \subseteq MissingLegacy' /\ \A r \in rebuilt' : ~EditHolds(r)
  BY DEF Inv, RowLocks, MissingLegacy, Rows, schema
<1> QED
  BY <1>1, <1>2, <1>3, <1>4, <1>5, OperatorStep

\* The job as it starts, or goes on.
LEMMA IdleType ==
    /\ Idle \in [on : BOOLEAN, after : Row \cup {0}, batch : SUBSET Row, filled : BOOLEAN,
                 pass : 0 .. MaxPasses]
    /\ ~Idle.on /\ Idle.batch = {}
    /\ \A n \in 0 .. MaxPasses :
         LET j == [Idle EXCEPT !.on = TRUE, !.pass = n]
         IN  /\ j \in [on : BOOLEAN, after : Row \cup {0}, batch : SUBSET Row, filled : BOOLEAN,
                       pass : 0 .. MaxPasses]
             /\ j.on /\ j.batch = {} /\ j.pass = n
<1> DEFINE J == [on : BOOLEAN, after : Row \cup {0}, batch : SUBSET Row, filled : BOOLEAN,
                 pass : 0 .. MaxPasses]
<1>1. 0 \in 0 .. MaxPasses /\ 0 \in Row \cup {0} /\ {} \in SUBSET Row
  BY BoundAssumption
<1>2. Idle \in J
  BY <1>1 DEF Idle
<1>3. ~Idle.on /\ Idle.batch = {}
  BY DEF Idle
<1>4. ASSUME NEW i \in J, NEW b \in BOOLEAN, NEW n \in 0 .. MaxPasses
      PROVE  LET j == [i EXCEPT !.on = b, !.pass = n]
             IN  j \in J /\ j.on = b /\ j.batch = i.batch /\ j.pass = n
  OBVIOUS
<1> HIDE DEF J
<1>5. ASSUME NEW n \in 0 .. MaxPasses
      PROVE  LET j == [Idle EXCEPT !.on = TRUE, !.pass = n]
             IN  j \in J /\ j.on /\ j.batch = {} /\ j.pass = n
  <2>1. TRUE \in BOOLEAN
    OBVIOUS
  <2>2. LET j == [Idle EXCEPT !.on = TRUE, !.pass = n]
        IN  j \in J /\ j.on = TRUE /\ j.batch = Idle.batch /\ j.pass = n
    BY <1>2, <1>4, <2>1, ZenonT(30)
  <2> QED
    BY <1>3, <2>2, Zenon
<1> QED
  BY <1>2, <1>3, <1>5 DEF J

LEMMA StartBackfillInv == ASSUME Inv, StartBackfill PROVE Inv'
<1>1. /\ Now("backfill") /\ ~job.on /\ contract.at = 0 /\ asked = None /\ rebuilt = None
      /\ job' = [Idle EXCEPT !.on = TRUE, !.pass = 1]
      /\ UNCHANGED <<schema, asked, step, older, rebuilt, restarts, timeouts, requests>>
  BY NothingAsked DEF StartBackfill, Ready
<1>2. 1 \in 0 .. MaxPasses
  BY BoundAssumption
<1> DEFINE j == [Idle EXCEPT !.on = TRUE, !.pass = 1]
<1>3. /\ j \in [on : BOOLEAN, after : Row \cup {0}, batch : SUBSET Row, filled : BOOLEAN,
                pass : 0 .. MaxPasses]
      /\ j.on /\ j.batch = {} /\ j.pass = 1
  BY <1>2, IdleType
<1>4. job' = j
  BY <1>1
<1> HIDE DEF j
<1>5. OneAtATime'
  BY <1>1, <1>3, <1>4 DEF OneAtATime, schema
<1> QED
  BY <1>1, <1>3, <1>4, <1>5, JobStep DEF Turn

\* Whoever has the backfill running does nothing else.
LEMMA OnlyJob ==
    ASSUME Inv, job.on
    PROVE  asked = None /\ contract.at = 0 /\ job.pass > 0 /\ rebuilt = None
  BY DEF Inv, OneAtATime

LEMMA TakeBatchInv == ASSUME Inv, TakeBatch PROVE Inv'
<1> DEFINE B == {r \in Candidates : Cardinality({s \in Candidates : s < r}) < BatchSize}
<1>1. /\ job.on /\ job' = [job EXCEPT !.batch = B]
      /\ UNCHANGED <<schema, asked, step, older, rebuilt, restarts, timeouts, requests>>
  BY DEF TakeBatch
<1>2. B \subseteq Awaiting /\ B \subseteq Row /\ \A r \in B : ~EditHolds(r)
  BY DEF Candidates, Awaiting, Rows
<1> HIDE DEF B
<1>3. /\ job' \in [on : BOOLEAN, after : Row \cup {0}, batch : SUBSET Row, filled : BOOLEAN,
                   pass : 0 .. MaxPasses]
      /\ job'.batch = B /\ job'.on /\ job'.pass = job.pass
  BY <1>1, <1>2 DEF Inv, TypeOK, OperatorTypes
<1>4. OneAtATime'
  BY <1>1, <1>3, OnlyJob DEF OneAtATime, schema
<1> QED
  BY <1>1, <1>2, <1>3, <1>4, JobStep DEF Turn

LEMMA EndPassInv == ASSUME Inv, EndPass PROVE Inv'
<1>1. /\ job.on /\ UNCHANGED <<schema, asked, rebuilt, restarts, timeouts, requests>>
      /\ asked = None /\ contract.at = 0 /\ rebuilt = None /\ job.pass > 0 /\ job.pass \in 0 .. MaxPasses
      /\ MaxPasses \in Nat
  BY OnlyJob, BoundAssumption DEF EndPass, Inv, TypeOK, OperatorTypes
<1>2. CASE /\ job' = Idle
           /\ IF Awaiting = {} /\ Mismatched = {} /\ Now("backfill")
              THEN NextStep ELSE UNCHANGED <<step, older>>
  <2>1. Turn
    BY <1>2, NextStepTurns DEF Turn
  <2>2. ~job'.on /\ job'.batch = {}
    BY <1>2, IdleType
  <2>3. OneAtATime'
    BY <1>1, <2>2 DEF OneAtATime, schema
  <2> QED
    BY <1>1, <1>2, <2>1, <2>2, <2>3, IdleType, JobStep
<1>3. CASE /\ job.pass # MaxPasses
           /\ job' = [Idle EXCEPT !.on = TRUE, !.pass = job.pass + 1]
           /\ UNCHANGED <<step, older>>
  <2>1. job.pass + 1 \in 0 .. MaxPasses /\ job.pass + 1 > 0
    BY <1>1, <1>3
  <2> DEFINE j == [Idle EXCEPT !.on = TRUE, !.pass = job.pass + 1]
  <2>2. /\ j \in [on : BOOLEAN, after : Row \cup {0}, batch : SUBSET Row, filled : BOOLEAN,
                  pass : 0 .. MaxPasses]
        /\ j.on /\ j.batch = {} /\ j.pass = job.pass + 1
    BY <2>1, IdleType
  <2>3. job' = j
    BY <1>3
  <2> HIDE DEF j
  <2>4. OneAtATime'
    BY <1>1, <2>1, <2>2, <2>3 DEF OneAtATime, schema
  <2> QED
    BY <1>1, <1>3, <2>2, <2>3, <2>4, JobStep DEF Turn
<1> QED
  BY <1>2, <1>3 DEF EndPass

LEMMA FillInv == ASSUME Inv, Fill PROVE Inv'
<1> DEFINE filled(r) == [table[r] EXCEPT
             !.parts = IF table[r].guest = None THEN Blank ELSE table[r].guest,
             !.version = @ + 1]
<1>1. /\ job.batch # {} /\ job.on /\ job.batch \subseteq Awaiting /\ job.batch \subseteq Row
      /\ \A r \in job.batch : ~EditHolds(r)
      /\ asked = None /\ contract.at = 0 /\ job.pass > 0 /\ rebuilt = None
      /\ table' = [r \in Row |-> IF r \in job.batch THEN filled(r) ELSE table[r]]
      /\ job' = [job EXCEPT !.batch = {}, !.after = Max(job.batch), !.filled = TRUE]
      /\ UNCHANGED <<revision, contract, phase, asked, step, older, rebuilt, restarts, timeouts, requests>>
  BY OnlyJob DEF Fill, Inv, RowLocks, OneAtATime, Awaiting, Rows
<1>2. table \in [Row -> {None} \cup Record] /\ Row \subseteq Nat /\ IsFiniteSet(Row)
  BY RowAssumption DEF Inv, TypeOK, SchemaTypes, Row
<1>3. \A r \in job.batch : table[r] \in Record /\ table[r] # None /\ filled(r) \in Record
        /\ filled(r).version > table[r].version /\ filled(r) # None
  <2>1. SUFFICES ASSUME NEW r \in job.batch
                 PROVE  table[r] \in Record /\ filled(r) \in Record
                        /\ filled(r).version > table[r].version
    BY NameAssumption
  <2>2. table[r] \in Record
    BY <1>1, <1>2 DEF Awaiting, Rows
  <2>3. /\ table[r].version \in Nat /\ table[r].version + 1 > table[r].version
        /\ table[r].version + 1 \in Nat
        /\ (IF table[r].guest = None THEN Blank ELSE table[r].guest) \in Name \cup {Blank, None}
    BY <2>2 DEF Record
  <2> QED
    BY <2>2, <2>3 DEF Record
<1> HIDE DEF filled
<1>4. SchemaTypes'
  BY <1>1, <1>2, <1>3 DEF Inv, TypeOK, SchemaTypes
<1>5. Max(job.batch) \in Row
  BY <1>1, <1>2, MaxIsIn, FS_Subset
<1>6. OperatorTypes'
  BY <1>1, <1>5 DEF Inv, TypeOK, OperatorTypes
<1>7. ASSUME NEW q \in Req PROVE Kept(q)
  <2>1. Stage(q) /\ Version(q) /\ q \in Row
    BY DEF Inv, Stages, Versions, Row
  <2>2. pc[q] = "idle" => table'[q] = None /\ q \notin older'
    BY <1>1, <1>3, <2>1 DEF Stage
  <2>3. pc[q] # "idle" /\ table[Target(q)] # None => table'[Target(q)] # None
    BY <1>1, <1>3, CallType
  <2>4. pc[q] \in {"insert", "commit"} /\ call[q].op = "create" => table'[q] = None
    BY <1>1, <1>3, <2>1 DEF Stage
  <2>5. pc[q] \in {"edit", "update"} =>
          \/ table'[Target(q)] = table[Target(q)]
          \/ table'[Target(q)].version > table[Target(q)].version
    BY <1>1, <1>3, CallType
  <2>6. pc[q] = "commit" /\ call[q].op # "create" /\ vals[q] # None =>
          table'[Target(q)] = table[Target(q)]
    <3>1. pc[q] = "commit" /\ vals[q] # None => Target(q) \notin job.batch
      BY <1>1 DEF EditHolds, Running, Over
    <3> QED
      BY <1>1, <3>1, CallType
  <2> QED
    BY <2>2, <2>3, <2>4, <2>5, <2>6 DEF Kept
<1>8. job'.batch = {} /\ job'.on /\ job'.pass = job.pass
  BY <1>1 DEF Inv, TypeOK, OperatorTypes
<1>9. OneAtATime'
  BY <1>1, <1>8 DEF OneAtATime
<1> QED
  BY <1>1, <1>4, <1>6, <1>7, <1>8, <1>9, OperatorStep

-----------------------------------------------------------------------------
(* The restart.                                                            *)

LEMMA ReconciledType == ASSUME NEW p \in Phase PROVE Reconciled(p) \in Phase
<1> DEFINE fits == {i \in 1 .. 4 : ~Refused(Candidate[i])}
<1>1. \A i \in 1 .. 4 : Candidate[i] \in Phase
  BY DEF Candidate, Phase
<1>2. fits # {} => Min(fits) \in 1 .. 4
  BY MinIsIn
<1> HIDE DEF fits
<1>3. fits # {} => Candidate[Min(fits)] \in Phase
  BY <1>1, <1>2
<1> QED
  BY <1>3 DEF Reconciled, fits

LEMMA RestartInv == ASSUME Inv, Restart PROVE Inv'
<1>1. /\ restarts < MaxRestarts /\ restarts' = restarts + 1
      /\ asked' = None
      /\ step' = IF Phases = {} THEN step ELSE Max(Phases)
      /\ pc' = [q \in Req |-> IF q \in Running THEN "lost" ELSE pc[q]]
      /\ vals' = [q \in Req |-> IF pc[q] \in {"insert", "update", "commit"} THEN None ELSE vals[q]]
      /\ UNCHANGED <<revision, table, contract, older, job, rebuilt, timeouts, call, cols, got, reply>>
      /\ Patient => contract.at = 0 /\ rebuilt = None
  BY DEF Restart
<1>2. SchemaTypes'
  <2>1. PICK p \in Env[step] \cup Unchecked[step] : phase' \in {Reconciled(p), p}
    BY DEF Restart
  <2>2. p \in Phase
    BY BoundAssumption DEF Inv, TypeOK, OperatorTypes
  <2> QED
    BY <1>1, <2>1, <2>2, ReconciledType DEF Inv, TypeOK, SchemaTypes
<1>3. step' \in 1 .. Len(Script) + 1
  <2>1. step \in 1 .. Len(Script) + 1 /\ Len(Script) \in Nat
    BY ScriptAssumption DEF Inv, TypeOK, OperatorTypes
  <2>2. CASE Phases = {}
    BY <1>1, <2>1, <2>2
  <2>3. CASE Phases # {}
    <3>1. Phases \subseteq 1 .. step - 1 /\ Phases \subseteq Nat
      BY <2>1 DEF Phases
    <3>2. IsFiniteSet(1 .. step - 1)
      BY <2>1, FS_Interval
    <3>3. Max(Phases) \in Phases
      BY <2>3, <3>1, <3>2, FS_Subset, MaxIsIn
    <3>4. Max(Phases) \in 1 .. step - 1
      BY <3>1, <3>3
    <3> QED
      BY <1>1, <2>1, <2>3, <3>4
  <2> QED
    BY <2>2, <2>3
<1>4. OperatorTypes'
  BY <1>1, <1>3, BoundAssumption DEF Inv, TypeOK, OperatorTypes
<1>5. RequestTypes'
  BY <1>1 DEF Inv, TypeOK, RequestTypes
<1>6. ASSUME NEW q \in Req PROVE Stage(q)' /\ Payload(q)' /\ Version(q)'
  <2>1. /\ pc'[q] = IF q \in Running THEN "lost" ELSE pc[q]
        /\ vals'[q] = IF pc[q] \in {"insert", "update", "commit"} THEN None ELSE vals[q]
        /\ UNCHANGED <<table, older, call, cols, got, reply>>
        /\ Target(q)' = Target(q)
        /\ Stage(q) /\ Payload(q)
    BY <1>1 DEF Target, Inv, Stages
  <2>2. pc'[q] \in {"idle", "done", "lost"} /\ (pc'[q] # "lost" => pc'[q] = pc[q])
    BY <2>1 DEF Running, Over, Inv, TypeOK, RequestTypes
  <2>3. pc'[q] = "lost" => pc[q] # "idle" /\ pc[q] # "done"
    BY <2>1, <2>2 DEF Running, Over
  <2>4. Stage(q)'
    BY <2>1, <2>2, <2>3 DEF Stage
  <2>5. Payload(q)'
    BY <2>1, <2>2 DEF Payload
  <2>6. Version(q)'
    BY <2>2 DEF Version
  <2> QED
    BY <2>4, <2>5, <2>6
<1>7. \A q \in Req : pc'[q] # "commit"
  BY <1>1 DEF Running, Over
<1>8. RowLocks'
  <2>1. \A r \in job'.batch : ~EditHolds(r)'
    BY <1>7 DEF EditHolds, Running
  <2>2. Awaiting' = Awaiting /\ MissingLegacy' = MissingLegacy
    BY <1>1 DEF Awaiting, MissingLegacy, Rows
  <2>3. rebuilt' # None => \A r \in rebuilt' : ~EditHolds(r)'
    BY <1>7 DEF EditHolds, Running
  <2> QED
    BY <1>1, <1>7, <2>1, <2>2, <2>3 DEF Inv, RowLocks
<1>9. OneAtATime'
  BY <1>1 DEF Inv, OneAtATime
<1> QED
  BY <1>2, <1>4, <1>5, <1>6, <1>8, <1>9 DEF Inv, TypeOK, Stages, Versions

-----------------------------------------------------------------------------
(* Every step.                                                             *)

LEMMA InitInv == ASSUME Init PROVE Inv
<1> DEFINE first(r) == [guest |-> Stored[r], parts |-> None, version |-> 0]
<1>1. \A r \in Seed : first(r) \in Record /\ first(r) # None
  BY NameAssumption DEF Record
<1>2. table = [r \in Row |-> IF r \in Seed THEN first(r) ELSE None]
  BY DEF Init
<1> HIDE DEF first
<1>3. Len(Script) \in Nat
  BY ScriptAssumption
<1>4. SchemaTypes
  BY <1>1, <1>2 DEF Init, SchemaTypes, Phase, Row
<1>5. OperatorTypes
  <2>1. 0 \in 0 .. MaxRestarts /\ 0 \in 0 .. MaxTimeouts /\ 1 \in 1 .. Len(Script) + 1
    BY <1>3, BoundAssumption
  <2> QED
    BY <2>1, IdleType DEF Init, OperatorTypes
<1>6. RequestTypes
  BY DEF Init, RequestTypes
<1>7. ASSUME NEW q \in Req PROVE Stage(q) /\ Payload(q) /\ Version(q)
  <2>1. /\ pc[q] = "idle" /\ call[q] = None /\ vals[q] = None /\ cols[q] = {} /\ reply[q] = None
        /\ older = {} /\ table[q] = None
    BY <1>2, RowAssumption DEF Init, Row
  <2> QED
    BY <2>1 DEF Stage, Payload, Version
<1>8. RowLocks
  BY IdleType DEF Init, RowLocks
<1>9. OneAtATime
  BY IdleType DEF Init, OneAtATime
<1> QED
  BY <1>4, <1>5, <1>6, <1>7, <1>8, <1>9 DEF Inv, TypeOK, Stages, Versions

LEMMA StutterInv == ASSUME Inv, UNCHANGED vars PROVE Inv'
<1>1. UNCHANGED <<requests, table, job, revision, contract, phase, asked, step, older,
                  rebuilt, restarts, timeouts>>
  BY DEF vars, requests
<1>2. OneAtATime'
  BY <1>1 DEF Inv, OneAtATime, Now
<1> QED
  BY <1>1, <1>2, SchemaStep DEF Turn, Inv, TypeOK, SchemaTypes, OperatorTypes

LEMMA StepInv == ASSUME Inv, [Next]_vars PROVE Inv'
<1>1. ASSUME NEW q \in Req, Arrive(q) \/ Step(q) PROVE Inv'
  BY <1>1, ArriveInv, SelectInv, EditInv, InsertInv, UpdateInv, VictimInv, CommitInv, ReloadInv,
     AnswerInv DEF Step
<1>2. CASE Operate
  BY <1>2, UpgradeInv, ContractInv, DowngradeInv, RestoreInv, AskInv, TurnedDownInv, SwitchInv,
     StartBackfillInv, TakeBatchInv, FillInv, EndPassInv DEF Operate
<1>3. CASE LockTimeout \/ GiveUp
  BY <1>3, LockTimeoutInv, GiveUpInv
<1>4. CASE Restart
  BY <1>4, RestartInv
<1>5. CASE UNCHANGED vars
  BY <1>5, StutterInv
<1> QED
  BY <1>1, <1>2, <1>3, <1>4, <1>5 DEF Next

\* Whatever the operator does, careful or not, restarts included: the requests,
\* the row locks and versions, and the operator's steps are as the code keeps them.
THEOREM InvHolds == Spec => []Inv
<1>1. Init => Inv
  BY InitInv
<1>2. Inv /\ [Next]_vars => Inv'
  BY StepInv
<1> QED
  BY <1>1, <1>2, PTL DEF Spec

\* Every variable has its type, the passes of the backfill and the give-ups of
\* 0004 within their bounds.
THEOREM TypesHold == Spec => []TypeOK
<1>1. Inv => TypeOK
  BY DEF Inv
<1> QED
  BY <1>1, InvHolds, PTL

-----------------------------------------------------------------------------
(* A careful operator: the phases.                                         *)

\* What the phases write and read, and what two of them have in common.
LEMMA PhaseFacts ==
    ASSUME NEW p \in Phase
    PROVE  /\ Reads[p] \in {{"guest"}, {"parts"}} /\ Reads[p] \subseteq Writes[p]
           /\ Writes[p] \subseteq Column
           /\ p \in {"dual_write", "read_new"} => Writes[p] = Column
           /\ "guest" \notin Writes[p] => p = "new_only"
           /\ "parts" \notin Writes[p] => p = "legacy"
           /\ p = "new_only" => Writes[p] = {"parts"} /\ Reads[p] = {"parts"}
           /\ p = "legacy" => Writes[p] = {"guest"} /\ Reads[p] = {"guest"}
<1>1. p \in {"legacy", "dual_write", "read_new", "new_only"}
  BY DEF Phase
<1>2. CASE p = "legacy"
  BY <1>2 DEF Reads, Writes, Column, Phase
<1>3. CASE p = "dual_write"
  BY <1>3 DEF Reads, Writes, Column, Phase
<1>4. CASE p = "read_new"
  BY <1>4 DEF Reads, Writes, Column, Phase
<1>5. CASE p = "new_only"
  BY <1>5 DEF Reads, Writes, Column, Phase
<1> QED
  BY <1>1, <1>2, <1>3, <1>4, <1>5

LEMMA NeighbourFacts ==
    ASSUME NEW p \in Phase, NEW s \in Phase, Adjacent(p, s)
    PROVE  /\ Reads[s] \subseteq Writes[p]
           /\ Reads[s] # Reads[p] => /\ p \in {"dual_write", "read_new"}
                                     /\ s \in {"dual_write", "read_new"}
<1>1. /\ Rank["legacy"] = 1 /\ Rank["dual_write"] = 2 /\ Rank["read_new"] = 3
      /\ Rank["new_only"] = 4
  BY DEF Rank, Phase
<1>2. \A n \in -1 .. 1 : n # 2 /\ n # 3 /\ n # -2 /\ n # -3
  OBVIOUS
<1>3. \A r \in Phase : r \in {"legacy", "dual_write", "read_new", "new_only"}
  BY DEF Phase
<1>4. /\ Reads["legacy"] = {"guest"} /\ Reads["dual_write"] = {"guest"}
      /\ Reads["read_new"] = {"parts"} /\ Reads["new_only"] = {"parts"}
      /\ Writes["legacy"] = {"guest"} /\ Writes["dual_write"] = {"guest", "parts"}
      /\ Writes["read_new"] = {"guest", "parts"} /\ Writes["new_only"] = {"parts"}
  BY DEF Reads, Writes, Phase
<1>5. Rank[p] - Rank[s] \in -1 .. 1
  BY DEF Adjacent
<1>6. CASE p = "legacy"
  BY <1>1, <1>2, <1>3, <1>4, <1>5, <1>6
<1>7. CASE p = "dual_write"
  BY <1>1, <1>2, <1>3, <1>4, <1>5, <1>7
<1>8. CASE p = "read_new"
  BY <1>1, <1>2, <1>3, <1>4, <1>5, <1>8
<1>9. CASE p = "new_only"
  BY <1>1, <1>2, <1>3, <1>4, <1>5, <1>9
<1> QED
  BY <1>3, <1>6, <1>7, <1>8, <1>9

-----------------------------------------------------------------------------
(* The invariant of a careful operator, by request.                        *)

Agreed == \A r \in Rows : table[r].guest # None /\ table[r].parts = table[r].guest

\* What it says of schema, phase and rows.
Ground ==
    /\ Serves(revision, phase)
    /\ asked # None => Serves(revision, asked) /\ Adjacent(phase, asked)
    /\ contract.at # 0 => phase = "new_only"
    /\ rebuilt # None => Serves(2, phase)
    /\ NobodyOlder /\ NamesThere
    /\ Crossing => phase \in {"dual_write", "read_new"} /\ Agreed

\* What it says of a request.
Fits(q) ==
    /\ q \in Running =>
         /\ cols[q] \subseteq Present(revision)
         /\ vals[q] # None => DOMAIN vals[q] \subseteq Present(revision)
         /\ pc[q] = "insert" => NotNull(revision) \subseteq DOMAIN vals[q]
         /\ Pending(q) => \A c \in Reads[phase] : Gives(q, c)
         /\ Pending(q) /\ Crossing => \A c \in Column : Gives(q, c)
    /\ q \in Fresh =>
         /\ cols[q] \in {{}, Reads[phase]}
         /\ vals[q] # None => DOMAIN vals[q] \subseteq Writes[phase]
         /\ Pending(q) => \A c \in Writes[phase] : Gives(q, c)
    /\ pc[q] = "answer" => Shown(got[q], cols[q]) # None

LEMMA Apart == ASSUME Careful PROVE Ground /\ \A q \in Req : Fits(q)
<1>1. Ground
  BY DEF Careful, SchemaServes, NamesAgree, Ground, Agreed
<1>2. ASSUME NEW q \in Req PROVE Fits(q)
  <2>1. q \in Running =>
         /\ cols[q] \subseteq Present(revision)
         /\ vals[q] # None => DOMAIN vals[q] \subseteq Present(revision)
         /\ pc[q] = "insert" => NotNull(revision) \subseteq DOMAIN vals[q]
    BY DEF Careful, SchemaServes
  <2>2. q \in Running =>
         /\ Pending(q) => \A c \in Reads[phase] : Gives(q, c)
         /\ Pending(q) /\ Crossing => \A c \in Column : Gives(q, c)
    BY DEF Careful, Composed, NamesAgree
  <2>3. q \in Fresh =>
         /\ cols[q] \in {{}, Reads[phase]}
         /\ vals[q] # None => DOMAIN vals[q] \subseteq Writes[phase]
         /\ Pending(q) => \A c \in Writes[phase] : Gives(q, c)
    BY DEF Careful, Composed
  <2>4. pc[q] = "answer" => Shown(got[q], cols[q]) # None
    BY DEF Careful, NoneNull
  <2> QED
    BY <2>1, <2>2, <2>3, <2>4 DEF Fits
<1> QED
  BY <1>1, <1>2

LEMMA Together == ASSUME Ground', \A q \in Req : Fits(q)' PROVE Careful'
<1>1. \A q \in Req : q \in Running' =>
         /\ cols'[q] \subseteq Present(revision)'
         /\ vals'[q] # None => DOMAIN vals'[q] \subseteq Present(revision)'
         /\ pc'[q] = "insert" => NotNull(revision)' \subseteq DOMAIN vals'[q]
         /\ Pending(q)' => \A c \in Reads'[phase'] : Gives(q, c)'
         /\ Pending(q)' /\ Crossing' => \A c \in Column : Gives(q, c)'
  BY DEF Fits
<1>2. \A q \in Req : q \in Fresh' =>
         /\ cols'[q] \in {{}, Reads'[phase']}
         /\ vals'[q] # None => DOMAIN vals'[q] \subseteq Writes'[phase']
         /\ Pending(q)' => \A c \in Writes'[phase'] : Gives(q, c)'
  BY DEF Fits
<1>3. Running' \subseteq Req /\ Fresh' \subseteq Running'
  BY DEF Running, Fresh
<1>4. SchemaServes'
  BY <1>1, <1>3 DEF Ground, SchemaServes
<1>5. Composed'
  BY <1>1, <1>2, <1>3 DEF Composed
<1>6. NamesAgree'
  BY <1>1, <1>3 DEF Ground, NamesAgree, Agreed
<1>7. NoneNull'
  BY DEF Fits, NoneNull
<1> QED
  BY <1>4, <1>5, <1>6, <1>7 DEF Ground, Careful

\* Nothing about a request changes, and it sees the same phase and schema.
LEMMA StillFits ==
    ASSUME NEW q \in Req, Fits(q), UNCHANGED <<revision, contract, phase, older>>, Crossing' => Crossing,
           pc'[q] = pc[q], call'[q] = call[q], cols'[q] = cols[q],
           got'[q] = got[q], vals'[q] = vals[q], reply'[q] = reply[q]
    PROVE  Fits(q)'
<1>1. /\ q \in Running' <=> q \in Running
      /\ q \in Fresh' <=> q \in Fresh
  BY DEF Running, Fresh, Over
<1>2. Pending(q)' <=> Pending(q)
  BY DEF Pending
<1>3. \A c : Gives(q, c)' <=> Gives(q, c)
  BY DEF Gives
<1>4. Reads' = Reads /\ Writes' = Writes
  BY DEF Reads, Writes
<1>5. Present(revision)' = Present(revision) /\ NotNull(revision)' = NotNull(revision)
  BY DEF Present, NotNull
<1>6. (pc[q] = "answer" => Shown(got[q], cols[q]) # None)'
        <=> (pc[q] = "answer" => Shown(got[q], cols[q]) # None)
  BY DEF Shown
<1> QED
  BY <1>1, <1>2, <1>3, <1>4, <1>5, <1>6 DEF Fits

-----------------------------------------------------------------------------
(* A careful operator: the requests.                                       *)

\* It reads the columns of this phase, or those it read before.
ReadsOn(q) ==
    q \in Running' => \/ cols'[q] \in {{}, Reads[phase]}
                      \/ q \in Running /\ cols'[q] = cols[q]

LEMMA NoNewCrossing ==
    ASSUME NEW q \in Req, OthersSame(q), phase' = phase, asked' = asked, ReadsOn(q)
    PROVE  Crossing' => Crossing
<1>1. SUFFICES ASSUME Crossing' PROVE Crossing
  OBVIOUS
<1>2. Reads' = Reads
  BY DEF Reads
<1>3. CASE asked' # None /\ Reads'[asked'] # Reads'[phase']
  BY <1>2, <1>3 DEF Crossing
<1>4. CASE \E r \in Running' : cols'[r] \notin {{}, Reads'[phase']}
  <2>1. PICK r \in Running' : cols'[r] \notin {{}, Reads[phase]}
    BY <1>2, <1>4
  <2>2. CASE r = q
    BY <2>1, <2>2 DEF ReadsOn, Crossing
  <2>3. CASE r # q
    <3>1. r \in Running /\ cols[r] = cols'[r]
      BY <2>3 DEF OthersSame, Running, Over
    <3> QED
      BY <2>1, <3>1 DEF Crossing
  <2> QED
    BY <2>2, <2>3
<1> QED
  BY <1>1, <1>3, <1>4 DEF Crossing

LEMMA RequestCareful ==
    ASSUME Inv, Careful, NEW q \in Req, OthersSame(q),
           UNCHANGED <<revision, contract, phase, operator>>, pc[q] = "idle" \/ q \in Running,
           ReadsOn(q), Fits(q)', NamesThere', Crossing => Agreed'
    PROVE  Careful'
<1> USE DEF operator
<1>1. Ground /\ \A r \in Req : Fits(r)
  BY Apart
<1>2. Crossing' => Crossing
  BY NoNewCrossing
<1>3. \A r \in Req : Fits(r)'
  <2>1. SUFFICES ASSUME NEW r \in Req, r # q PROVE Fits(r)'
    OBVIOUS
  <2>2. /\ pc'[r] = pc[r] /\ call'[r] = call[r] /\ cols'[r] = cols[r]
        /\ got'[r] = got[r] /\ vals'[r] = vals[r] /\ reply'[r] = reply[r]
    BY <2>1 DEF OthersSame
  <2> QED
    BY <1>1, <1>2, <2>2, StillFits
<1>4. NobodyOlder'
  <2>1. older \cap Running' \subseteq Running
    <3>1. pc[q] = "idle" => q \notin older
      BY DEF Inv, Stages, Stage
    <3>2. \A r \in Req \ {q} : r \in Running' => r \in Running
      BY DEF OthersSame, Running, Over
    <3> QED
      BY <3>1, <3>2 DEF Running
  <2> QED
    BY <1>1, <2>1 DEF Ground, NobodyOlder
<1>5. Ground'
  <2>1. Serves(revision, phase)' /\ (asked # None => Serves(revision, asked) /\ Adjacent(phase, asked))'
    BY <1>1 DEF Ground, Serves, Writes, Reads, Present, NotNull, Adjacent, Rank
  <2>2. contract'.at # 0 => phase' = "new_only"
    BY <1>1 DEF Ground
  <2>3. (rebuilt # None => Serves(2, phase))'
    BY <1>1 DEF Ground, Serves, Writes, Reads, Present, NotNull
  <2>4. Crossing' => phase' \in {"dual_write", "read_new"} /\ Agreed'
    BY <1>1, <1>2 DEF Ground
  <2> QED
    BY <1>4, <2>1, <2>2, <2>3, <2>4 DEF Ground
<1> QED
  BY <1>3, <1>5, Together

\* ... and the rows are as they were.
LEMMA SameNames ==
    ASSUME Careful, table' = table, phase' = phase
    PROVE  NamesThere' /\ (Crossing => Agreed')
  BY Apart DEF Ground, NamesThere, Agreed, Rows, Reads

\* What a request has to know of the phase.
LEMMA Footing ==
    ASSUME Inv, Careful
    PROVE  /\ phase \in Phase
           /\ Reads[phase] \in {{"guest"}, {"parts"}} /\ Reads[phase] \subseteq Writes[phase]
           /\ Writes[phase] \subseteq Present(revision) /\ NotNull(revision) \subseteq Writes[phase]
           /\ Crossing => Writes[phase] = Column
<1>1. phase \in Phase
  BY DEF Inv, TypeOK, SchemaTypes
<1>2. Ground
  BY Apart
<1> QED
  BY <1>1, <1>2, PhaseFacts DEF Ground, Serves

\* The schema and the phases while a request takes a step.
LEMMA SameSchema ==
    ASSUME UNCHANGED <<revision, contract, phase>>
    PROVE  /\ Present(revision)' = Present(revision) /\ NotNull(revision)' = NotNull(revision)
           /\ Reads' = Reads /\ Writes' = Writes
  BY DEF Present, NotNull, Reads, Writes

LEMMA ArriveCareful == ASSUME Inv, Careful, NEW q \in Req, Arrive(q) PROVE Careful'
<1>1. PICK c \in Plan[q] :
        /\ call' = [call EXCEPT ![q] = c]
        /\ IF c.op = "create"
           THEN /\ vals' = [vals EXCEPT ![q] = NamesOf(c.name)]
                /\ Goto(q, "insert")
                /\ UNCHANGED cols
           ELSE /\ table[c.row] # None
                /\ cols' = [cols EXCEPT ![q] = Reads[phase]]
                /\ Goto(q, "load")
                /\ UNCHANGED vals
  BY DEF Arrive
<1>2. /\ pc[q] = "idle" /\ UNCHANGED <<schema, operator, got, reply>>
      /\ UNCHANGED <<revision, contract, phase, table, older>>
  BY DEF Arrive, schema, operator
<1>3. Stage(q) /\ Fits(q)
  BY Apart DEF Inv, Stages
<1>4. cols[q] = {} /\ vals[q] = None /\ reply[q] = None /\ q \notin older
  BY <1>2, <1>3 DEF Stage
<1>5. /\ Present(revision)' = Present(revision) /\ NotNull(revision)' = NotNull(revision)
      /\ Reads' = Reads /\ Writes' = Writes
  BY <1>2, SameSchema
<1>6. OthersSame(q)
  <2>1. CASE c.op = "create"
    BY <1>1, <1>2, <2>1 DEF Goto, OthersSame, Inv, TypeOK, RequestTypes
  <2>2. CASE c.op # "create"
    BY <1>1, <1>2, <2>2 DEF Goto, OthersSame, Inv, TypeOK, RequestTypes
  <2> QED
    BY <2>1, <2>2
<1>7. ASSUME ReadsOn(q), Fits(q)' PROVE Careful'
  BY <1>2, <1>6, <1>7, SameNames, RequestCareful
<1>8. CASE c.op = "create"
  <2> DEFINE v == NamesOf(c.name)
  <2>1. DOMAIN v = Writes[phase]
    BY DEF NamesOf
  <2> HIDE DEF v
  <2>2. /\ pc'[q] = "insert" /\ vals'[q] = v /\ cols'[q] = {} /\ reply'[q] = None
        /\ call'[q].op = "create"
    BY <1>1, <1>2, <1>4, <1>8 DEF Goto, v, Inv, TypeOK, RequestTypes
  <2>3. ReadsOn(q)
    BY <2>2 DEF ReadsOn
  <2>4. Crossing' => Crossing
    BY <1>2, <1>6, <2>3, NoNewCrossing DEF operator
  <2>5. \A d \in Writes[phase] : Gives(q, d)'
    BY <2>1, <2>2 DEF Gives
  <2>6. Fits(q)'
    BY <1>5, <1>2, <2>1, <2>2, <2>4, <2>5, Footing DEF Fits
  <2> QED
    BY <1>7, <2>3, <2>6
<1>9. CASE c.op # "create"
  <2>1. pc'[q] = "load" /\ vals'[q] = None /\ cols'[q] = Reads[phase] /\ reply'[q] = None
    BY <1>1, <1>2, <1>4, <1>9 DEF Goto, Inv, TypeOK, RequestTypes
  <2>2. ReadsOn(q)
    BY <2>1 DEF ReadsOn
  <2>3. ~Pending(q)'
    BY <2>1 DEF Pending
  <2>4. Fits(q)'
    BY <1>5, <1>2, <2>1, <2>3, Footing DEF Fits
  <2> QED
    BY <1>7, <2>2, <2>4
<1> QED
  BY <1>8, <1>9

\* A request that ends.
LEMMA SendCareful ==
    ASSUME Inv, Careful, NEW q \in Req, NEW code, NEW n, Send(q, code, n),
           q \in Running, UNCHANGED <<schema, operator, call, cols, got>>,
           \A r \in Req \ {q} : vals'[r] = vals[r]
    PROVE  Careful'
<1>1. /\ pc' = [pc EXCEPT ![q] = "done"]
      /\ reply' = [reply EXCEPT ![q] = [code |-> code, name |-> n]]
      /\ UNCHANGED <<revision, contract, phase, table>>
  BY DEF Send, Goto, schema
<1>2. pc'[q] = "done"
  BY <1>1 DEF Inv, TypeOK, RequestTypes
<1>3. OthersSame(q)
  BY <1>1 DEF OthersSame, Inv, TypeOK, RequestTypes
<1>4. q \notin Running'
  BY <1>2 DEF Running, Over
<1>5. ReadsOn(q)
  BY <1>4 DEF ReadsOn
<1>6. Fits(q)'
  BY <1>2, <1>4 DEF Fits, Fresh
<1> QED
  BY <1>1, <1>3, <1>5, <1>6, SameNames, RequestCareful

LEMMA FailCareful ==
    ASSUME Inv, Careful, NEW q \in Req, NEW code, Fail(q, code), q \in Running,
           UNCHANGED <<schema, operator>>
    PROVE  Careful'
<1>1. Send(q, code, None) /\ UNCHANGED <<schema, operator, call, cols, got>>
  BY DEF Fail
<1>2. \A r \in Req \ {q} : vals'[r] = vals[r]
  BY DEF Fail, Inv, TypeOK, RequestTypes
<1> QED
  BY <1>1, <1>2, SendCareful

\* A row that the phase, or the one before, can answer.
LEMMA RowShows ==
    ASSUME Inv, Careful, NEW q \in Running, NEW r \in Rows,
           cols[q] \in {{"guest"}, {"parts"}}
    PROVE  Shown(table[r], cols[q]) # None
<1>1. Ground
  BY Apart
<1>2. CASE cols[q] = {"guest"}
  <2>1. table[r].guest # None
    <3>1. CASE cols[q] = Reads[phase]
      <4>1. table[r]["guest"] # None
        BY <1>1, <1>2, <3>1 DEF Ground, NamesThere
      <4> QED
        BY <4>1
    <3>2. CASE cols[q] # Reads[phase]
      <4>1. Crossing
        BY <1>2, <3>2 DEF Crossing
      <4> QED
        BY <1>1, <4>1 DEF Ground, Agreed
    <3> QED
      BY <3>1, <3>2
  <2> QED
    BY <1>2, <2>1 DEF Shown
<1>3. CASE cols[q] = {"parts"}
  BY <1>3, NameAssumption DEF Shown
<1> QED
  BY <1>2, <1>3

LEMMA SelectCareful == ASSUME Inv, Careful, NEW q \in Req, Select(q) PROVE Careful'
<1>1. /\ pc[q] \in {"load", "fetch"} /\ q \in Running /\ Stage(q) /\ Fits(q)
      /\ UNCHANGED <<schema, operator>>
      /\ UNCHANGED <<revision, contract, phase, table, older>>
  BY Apart DEF Select, Running, Over, Inv, Stages, schema, operator
<1>2. cols[q] \subseteq Present(revision)
  BY <1>1 DEF Fits
<1>3. /\ got' = [got EXCEPT ![q] = table[Target(q)]]
      /\ Goto(q, IF pc[q] = "load" /\ call[q].op \in {"rename", "touch"} THEN "edit" ELSE "answer")
      /\ UNCHANGED <<call, cols, vals, reply>>
  BY <1>2 DEF Select
<1> DEFINE s == IF pc[q] = "load" /\ call[q].op \in {"rename", "touch"} THEN "edit" ELSE "answer"
<1>4. s \in {"edit", "answer"} /\ pc' = [pc EXCEPT ![q] = s]
  BY <1>3 DEF Goto
<1> HIDE DEF s
<1>5. /\ pc'[q] \in {"edit", "answer"} /\ got'[q] = table[Target(q)]
      /\ vals'[q] = vals[q] /\ cols'[q] = cols[q] /\ reply'[q] = reply[q]
  BY <1>3, <1>4 DEF Inv, TypeOK, RequestTypes
<1>6. OthersSame(q)
  BY <1>3, <1>4 DEF OthersSame, Inv, TypeOK, RequestTypes
<1>7. q \in Running' /\ ReadsOn(q) /\ ~Pending(q)'
  BY <1>1, <1>5 DEF Running, Over, ReadsOn, Pending
<1>8. Present(revision)' = Present(revision) /\ Reads' = Reads /\ Writes' = Writes
  BY <1>1, SameSchema
<1>9. Shown(got'[q], cols'[q]) # None
  <2>1. Target(q) \in Rows
    BY <1>1, CallType DEF Stage, Rows
  <2>2. cols[q] \in {{"guest"}, {"parts"}}
    BY <1>1 DEF Stage
  <2> QED
    BY <1>1, <1>5, <2>1, <2>2, RowShows
<1>10. Fits(q)'
  <2>1. q \in Fresh' => q \in Fresh
    BY <1>1 DEF Fresh
  <2>2. pc'[q] # "insert"
    BY <1>5
  <2>3. (pc[q] = "answer" => Shown(got[q], cols[q]) # None)'
    BY <1>9 DEF Shown
  <2>4. (q \in Running =>
         /\ cols[q] \subseteq Present(revision)
         /\ vals[q] # None => DOMAIN vals[q] \subseteq Present(revision)
         /\ pc[q] = "insert" => NotNull(revision) \subseteq DOMAIN vals[q]
         /\ Pending(q) => \A c \in Reads[phase] : Gives(q, c)
         /\ Pending(q) /\ Crossing => \A c \in Column : Gives(q, c))'
    BY <1>1, <1>5, <1>7, <1>8, <2>2 DEF Fits
  <2>5. (q \in Fresh =>
         /\ cols[q] \in {{}, Reads[phase]}
         /\ vals[q] # None => DOMAIN vals[q] \subseteq Writes[phase]
         /\ Pending(q) => \A c \in Writes[phase] : Gives(q, c))'
    BY <1>1, <1>5, <1>7, <1>8, <2>1 DEF Fits
  <2> QED
    BY <2>3, <2>4, <2>5 DEF Fits
<1> QED
  BY <1>1, <1>6, <1>7, <1>10, SameNames, RequestCareful

LEMMA ReloadCareful == ASSUME Inv, Careful, NEW q \in Req, Reload(q) PROVE Careful'
<1>1. /\ pc[q] = "reload" /\ q \in Running /\ Fits(q)
      /\ pc' = [pc EXCEPT ![q] = "fetch"] /\ cols' = [cols EXCEPT ![q] = Reads[phase]]
      /\ UNCHANGED <<schema, operator, call, got, vals, reply>>
      /\ UNCHANGED <<revision, contract, phase, table, older>>
      /\ Stage(q)
  BY Apart DEF Reload, Goto, Running, Over, schema, operator, Inv, Stages
<1>2. OthersSame(q) /\ pc'[q] = "fetch" /\ cols'[q] = Reads[phase] /\ reply'[q] = None
  BY <1>1 DEF OthersSame, Inv, TypeOK, RequestTypes, Stage
<1>3. ReadsOn(q) /\ ~Pending(q)' /\ (q \in Fresh' => q \in Fresh)
  BY <1>1, <1>2 DEF ReadsOn, Pending, Fresh
<1>4. Present(revision)' = Present(revision) /\ Reads' = Reads /\ Writes' = Writes
  BY <1>1, SameSchema
<1>5. Fits(q)'
  BY <1>1, <1>2, <1>3, <1>4, Footing DEF Fits
<1> QED
  BY <1>1, <1>2, <1>3, <1>5, SameNames, RequestCareful

LEMMA EditCareful == ASSUME Inv, Careful, NEW q \in Req, Edit(q) PROVE Careful'
<1>1. /\ pc[q] = "edit" /\ q \in Running /\ Fits(q) /\ Stage(q) /\ Payload(q)
      /\ UNCHANGED <<schema, operator, call, cols, got, reply>>
      /\ UNCHANGED <<revision, contract, phase, table, older>>
  BY Apart DEF Edit, Running, Over, schema, operator, Inv, Stages
<1>2. vals[q] = None /\ reply[q] = None /\ call[q].op \in {"rename", "touch"}
  BY <1>1 DEF Stage, Payload
<1>3. /\ Present(revision)' = Present(revision) /\ NotNull(revision)' = NotNull(revision)
      /\ Reads' = Reads /\ Writes' = Writes
  BY <1>1, SameSchema
<1>4. ASSUME OthersSame(q), ReadsOn(q), Fits(q)' PROVE Careful'
  BY <1>1, <1>4, SameNames, RequestCareful
<1>5. CASE Goto(q, "commit") /\ UNCHANGED vals
  <2>1. OthersSame(q) /\ pc'[q] = "commit" /\ vals'[q] = None
    BY <1>1, <1>2, <1>5 DEF OthersSame, Goto, Inv, TypeOK, RequestTypes
  <2>2. ReadsOn(q) /\ ~Pending(q)' /\ (q \in Fresh' => q \in Fresh)
    BY <1>1, <2>1 DEF ReadsOn, Pending, Fresh
  <2>3. Fits(q)'
    BY <1>1, <1>2, <1>3, <2>1, <2>2 DEF Fits
  <2> QED
    BY <1>4, <2>1, <2>2, <2>3
<1>6. CASE /\ vals' = [vals EXCEPT ![q] = [c \in Changed(q) |-> call[q].name]]
           /\ Goto(q, "update")
  <2> DEFINE v == [c \in Changed(q) |-> call[q].name]
  <2>1. DOMAIN v = Changed(q)
    OBVIOUS
  <2>2. Changed(q) \subseteq Writes[phase]
    BY DEF Changed
  <2>3. call[q].op # "touch" => \A c \in Writes[phase] \ Changed(q) : got[q][c] = call[q].name
    BY DEF Changed
  <2> HIDE DEF v
  <2>4. OthersSame(q) /\ pc'[q] = "update" /\ vals'[q] = v
    BY <1>1, <1>6 DEF OthersSame, Goto, Inv, TypeOK, RequestTypes, v
  <2>5. ReadsOn(q) /\ (q \in Fresh' => q \in Fresh)
    BY <1>1, <2>4 DEF ReadsOn, Fresh
  <2>6. Pending(q)' => \A c \in Writes[phase] : Gives(q, c)'
    <3>1. SUFFICES ASSUME Pending(q)', NEW c \in Writes[phase] PROVE Gives(q, c)'
      OBVIOUS
    <3>2. call'[q].op = "rename" /\ call'[q].op # "touch"
      BY <1>1, <1>2, <3>1 DEF Pending
    <3>3. CASE c \in Changed(q)
      BY <2>1, <2>4, <3>3 DEF Gives
    <3>4. CASE c \notin Changed(q)
      BY <1>1, <2>3, <3>2, <3>4 DEF Gives
    <3> QED
      BY <3>3, <3>4
  <2>7. Crossing' => Crossing
    BY <1>1, <2>4, <2>5, NoNewCrossing DEF operator
  <2>8. Fits(q)'
    BY <1>1, <1>2, <1>3, <2>1, <2>2, <2>4, <2>5, <2>6, <2>7, Footing DEF Fits
  <2> QED
    BY <1>4, <2>4, <2>5, <2>8
<1> QED
  BY <1>5, <1>6 DEF Edit

\* A statement is sent, and the transaction goes to its commit.
LEMMA ToCommitCareful ==
    ASSUME Inv, Careful, NEW q \in Req, pc[q] \in {"insert", "update"},
           Goto(q, "commit"), UNCHANGED <<call, cols, got, vals, reply>>, UNCHANGED <<schema, operator>>
    PROVE  Careful'
<1>1. /\ q \in Running /\ Fits(q) /\ Stage(q)
      /\ UNCHANGED <<revision, contract, phase, table, older>>
  BY Apart DEF Running, Over, schema, operator, Inv, Stages
<1>2. OthersSame(q) /\ pc'[q] = "commit" /\ reply[q] = None
  BY <1>1 DEF OthersSame, Goto, Inv, TypeOK, RequestTypes, Stage
<1>3. ReadsOn(q) /\ (q \in Fresh' => q \in Fresh)
  BY <1>1, <1>2 DEF ReadsOn, Fresh
<1>4. (Pending(q)' => Pending(q)) /\ \A c : Gives(q, c)' <=> Gives(q, c)
  BY DEF Pending, Gives
<1>5. Crossing' => Crossing
  BY <1>1, <1>2, <1>3, NoNewCrossing DEF operator
<1>6. Present(revision)' = Present(revision) /\ Reads' = Reads /\ Writes' = Writes
  BY <1>1, SameSchema
<1>7. Fits(q)'
  BY <1>1, <1>2, <1>3, <1>4, <1>5, <1>6 DEF Fits
<1> QED
  BY <1>1, <1>2, <1>3, <1>7, SameNames, RequestCareful

LEMMA InsertCareful == ASSUME Inv, Careful, NEW q \in Req, Insert(q) PROVE Careful'
<1>1. pc[q] = "insert" /\ q \in Running /\ Fits(q) /\ Payload(q)
  BY Apart DEF Insert, Running, Over, Inv, Stages
<1>2. DOMAIN vals[q] \subseteq Present(revision) /\ NotNull(revision) \subseteq DOMAIN vals[q]
  BY <1>1 DEF Fits, Payload
<1>3. Goto(q, "commit") /\ UNCHANGED <<call, cols, got, vals, reply>> /\ UNCHANGED <<schema, operator>>
  BY <1>2 DEF Insert
<1> QED
  BY <1>1, <1>3, ToCommitCareful

LEMMA UpdateCareful == ASSUME Inv, Careful, NEW q \in Req, Update(q) PROVE Careful'
<1>1. /\ pc[q] = "update" /\ q \in Running /\ Fits(q) /\ Payload(q)
      /\ UNCHANGED <<schema, operator>>
  BY Apart DEF Update, Running, Over, Inv, Stages
<1>2. DOMAIN vals[q] \subseteq Present(revision)
  BY <1>1 DEF Fits, Payload
<1>3. CASE Fail(q, 409)
  BY <1>1, <1>3, FailCareful
<1>4. CASE Goto(q, "commit") /\ UNCHANGED <<call, cols, got, vals, reply>>
  BY <1>1, <1>4, ToCommitCareful
<1> QED
  BY <1>2, <1>3, <1>4 DEF Update

LEMMA VictimCareful == ASSUME Inv, Careful, NEW q \in Req, Victim(q) PROVE Careful'
<1>1. q \in Running /\ Fail(q, 500) /\ UNCHANGED <<schema, operator>>
  BY DEF Victim, Running, Over
<1> QED
  BY <1>1, FailCareful

LEMMA AnswerCareful == ASSUME Inv, Careful, NEW q \in Req, Answer(q) PROVE Careful'
<1>1. q \in Running /\ UNCHANGED <<schema, operator>>
  BY DEF Answer, Running, Over
<1>2. CASE Fail(q, 500)
  BY <1>1, <1>2, FailCareful
<1>3. CASE /\ Send(q, IF call[q].op = "create" THEN 201 ELSE 200, Shown(got[q], Reads[phase]))
           /\ UNCHANGED <<call, cols, got, vals>>
  BY <1>1, <1>3, SendCareful
<1> QED
  BY <1>2, <1>3 DEF Answer

LEMMA OverlayNames ==
    ASSUME NEW row \in Record, NEW v, NEW c \in Column
    PROVE  Overlay(row, v)[c] = IF c \in DOMAIN v THEN v[c] ELSE row[c]
<1>1. CASE c = "guest"
  BY <1>1 DEF Overlay
<1>2. CASE c = "parts"
  BY <1>2 DEF Overlay
<1> QED
  BY <1>1, <1>2 DEF Column

LEMMA CommitCareful == ASSUME Inv, Careful, NEW q \in Req, Commit(q) PROVE Careful'
<1> DEFINE old == IF call[q].op = "create" THEN NewRow ELSE table[Target(q)]
           new == Overlay(old, vals[q])
<1>1. /\ pc[q] = "commit" /\ q \in Running /\ Fits(q) /\ Ground
      /\ Stage(q) /\ Payload(q) /\ Version(q)
      /\ pc' = [pc EXCEPT ![q] = "reload"]
      /\ table' = IF vals[q] = None THEN table ELSE [table EXCEPT ![Target(q)] = new]
      /\ UNCHANGED <<revision, contract, phase, operator, call, cols, got, vals, reply>>
      /\ older' = older
  BY Apart DEF Commit, Goto, Inv, Stages, Versions, Running, Over, operator
<1>2. OthersSame(q) /\ pc'[q] = "reload" /\ reply[q] = None
  BY <1>1 DEF OthersSame, Inv, TypeOK, RequestTypes, Stage
<1>3. ReadsOn(q) /\ ~Pending(q)' /\ (q \in Fresh' => q \in Fresh)
  BY <1>1, <1>2 DEF ReadsOn, Pending, Fresh
<1>4. Present(revision)' = Present(revision) /\ Reads' = Reads /\ Writes' = Writes
  BY <1>1, SameSchema
<1>5. Fits(q)'
  BY <1>1, <1>2, <1>3, <1>4 DEF Fits
<1>6. CASE vals[q] = None
  <2>1. table' = table
    BY <1>1, <1>6
  <2> QED
    BY <1>1, <1>2, <1>3, <1>5, <2>1, SameNames, RequestCareful
<1>7. CASE vals[q] # None
  <2>1. /\ Target(q) \in Row /\ (call[q].op = "create" => Target(q) = q)
        /\ call[q].op \in {"create", "rename", "touch"}
        /\ call[q].op \in {"create", "rename"} => call[q].name \in Name
    BY <1>1, <1>7, CallType DEF Payload
  <2>2. call[q].op # "create" => table[Target(q)] \in Record /\ table[Target(q)] # None /\ got[q] = table[Target(q)]
    BY <1>1, <1>7, <2>1 DEF Stage, Version, Inv, TypeOK, SchemaTypes
  <2>3. old \in Record /\ (call[q].op # "create" => old = table[Target(q)])
    BY <2>1, <2>2 DEF NewRow, Record
  <2>4. \A c \in Column : new[c] = IF c \in DOMAIN vals[q] THEN vals[q][c] ELSE old[c]
    <3> HIDE DEF old
    <3> QED
      BY <2>3, OverlayNames
  <2> HIDE DEF new, old
  <2>5. \A r \in Row : table'[r] = IF r = Target(q) THEN new ELSE table[r]
    BY <1>1, <1>7, <2>1 DEF Inv, TypeOK, SchemaTypes
  <2>6. /\ call[q].op = "touch" => DOMAIN vals[q] = {}
        /\ call[q].op # "touch" => \A c \in DOMAIN vals[q] : vals[q][c] = call[q].name
    BY <1>1, <1>7 DEF Payload
  <2>7. ASSUME NEW c \in Column, call[q].op # "touch", Gives(q, c)
        PROVE  new[c] = call[q].name /\ new[c] # None
    <3>1. CASE c \in DOMAIN vals[q]
      BY <2>1, <2>4, <2>6, <2>7, <3>1, NameAssumption
    <3>2. CASE c \notin DOMAIN vals[q]
      <4>1. call[q].op = "rename" /\ got[q][c] = call[q].name
        BY <2>7, <3>2 DEF Gives
      <4>2. old = got[q]
        BY <2>2, <2>3, <4>1
      <4> QED
        BY <2>1, <2>4, <3>2, <4>1, <4>2, NameAssumption
    <3> QED
      BY <3>1, <3>2
  <2>8. call[q].op # "touch" => Pending(q)
    BY <1>1, <1>7 DEF Pending
  <2>9. NamesThere'
    <3>1. SUFFICES ASSUME NEW r \in Row, table'[r] # None, NEW c \in Reads[phase]
                   PROVE  table'[r][c] # None
      BY <1>1, <1>4 DEF NamesThere, Rows
    <3>2. c \in Column
      BY Footing, <3>1 DEF Column
    <3>3. CASE r # Target(q)
      BY <1>1, <2>5, <3>1, <3>3 DEF Ground, NamesThere, Rows
    <3>4. CASE r = Target(q) /\ call[q].op # "touch"
      <4>1. Gives(q, c)
        BY <1>1, <2>8, <3>4 DEF Fits
      <4> QED
        BY <2>5, <2>7, <3>2, <3>4, <4>1
    <3>5. CASE r = Target(q) /\ call[q].op = "touch"
      <4>1. table[r] # None /\ new[c] = table[r][c]
        BY <2>2, <2>3, <2>4, <2>6, <3>2, <3>5
      <4> QED
        BY <1>1, <2>5, <3>5, <4>1 DEF Ground, NamesThere, Rows
    <3> QED
      BY <3>3, <3>4, <3>5
  <2>10. Crossing => Agreed'
    <3>1. SUFFICES ASSUME Crossing, NEW r \in Row, table'[r] # None
                   PROVE  table'[r].guest # None /\ table'[r].parts = table'[r].guest
      BY DEF Agreed, Rows
    <3>2. CASE r # Target(q)
      BY <1>1, <2>5, <3>1, <3>2 DEF Ground, Agreed, Rows
    <3>3. CASE r = Target(q) /\ call[q].op # "touch"
      <4>1. \A c \in Column : Gives(q, c)
        BY <1>1, <2>8, <3>1, <3>3 DEF Fits
      <4>2. "guest" \in Column /\ "parts" \in Column
        BY DEF Column
      <4>3. new["guest"] # None /\ new["guest"] = call[q].name /\ new["parts"] = call[q].name
        BY <2>7, <3>3, <4>1, <4>2
      <4> QED
        BY <2>5, <3>3, <4>3
    <3>4. CASE r = Target(q) /\ call[q].op = "touch"
      <4>1. table[r] # None /\ \A c \in Column : new[c] = table[r][c]
        BY <2>2, <2>3, <2>4, <2>6, <3>4
      <4>2. new["guest"] = table[r]["guest"] /\ new["parts"] = table[r]["parts"]
        BY <4>1 DEF Column
      <4> QED
        BY <1>1, <2>5, <3>1, <3>4, <4>1, <4>2 DEF Ground, Agreed, Rows
    <3> QED
      BY <3>2, <3>3, <3>4
  <2> QED
    BY <1>1, <1>2, <1>3, <1>5, <2>9, <2>10, RequestCareful
<1> QED
  BY <1>6, <1>7

-----------------------------------------------------------------------------
(* A careful operator: the steps of the migration.                         *)

\* What a step of the operator's must leave to a request that does not move.
Lasts(q) ==
    q \in Running =>
      /\ cols[q] \subseteq Present(revision)'
      /\ vals[q] # None => DOMAIN vals[q] \subseteq Present(revision)'
      /\ pc[q] = "insert" => NotNull(revision)' \subseteq DOMAIN vals[q]
      /\ Pending(q) => \A c \in Reads[phase'] : Gives(q, c)
      /\ Pending(q) /\ Crossing' => \A c \in Column : Gives(q, c)
      /\ q \notin older' => phase' = phase /\ q \notin older

LEMMA OperatorCareful ==
    ASSUME Careful, UNCHANGED requests, Ground', \A q \in Req : Lasts(q)
    PROVE  Careful'
<1> USE DEF requests
<1>1. SUFFICES ASSUME NEW q \in Req PROVE Fits(q)'
  BY Together
<1>2. Fits(q) /\ Lasts(q)
  BY Apart
<1>3. /\ q \in Running' <=> q \in Running
      /\ q \in Fresh' <=> q \in Running /\ q \notin older'
  BY DEF Running, Fresh, Over
<1>4. (Pending(q)' <=> Pending(q)) /\ \A c : Gives(q, c)' <=> Gives(q, c)
  BY DEF Pending, Gives
<1>5. Reads' = Reads /\ Writes' = Writes
  BY DEF Reads, Writes
<1>6. (pc[q] = "answer" => Shown(got[q], cols[q]) # None)'
        <=> (pc[q] = "answer" => Shown(got[q], cols[q]) # None)
  BY DEF Shown
<1>7. q \in Fresh' => q \in Fresh /\ phase' = phase
  BY <1>2, <1>3 DEF Lasts, Fresh
<1> QED
  BY <1>2, <1>3, <1>4, <1>5, <1>6, <1>7 DEF Fits, Lasts

\* Where nobody under way has seen another phase, what they have composed is of
\* this one.
LEMMA AllFresh ==
    ASSUME Inv, Careful, NEW q \in Running, older \cap Running = {}
    PROVE  /\ cols[q] \in {{}, Reads[phase]}
           /\ vals[q] # None => DOMAIN vals[q] \subseteq Writes[phase]
           /\ pc[q] = "insert" => DOMAIN vals[q] = Writes[phase]
           /\ Pending(q) => \A c \in Writes[phase] : Gives(q, c)
<1>1. q \in Req /\ q \in Fresh
  BY DEF Running, Fresh
<1>2. Fits(q) /\ Stage(q) /\ Payload(q)
  BY <1>1, Apart DEF Inv, Stages
<1>3. pc[q] = "insert" => call[q].op = "create" /\ vals[q] # None /\ Pending(q)
  BY <1>2 DEF Stage, Payload, Pending
<1>4. /\ cols[q] \in {{}, Reads[phase]}
      /\ vals[q] # None => DOMAIN vals[q] \subseteq Writes[phase]
      /\ Pending(q) => \A c \in Writes[phase] : Gives(q, c)
  BY <1>1, <1>2 DEF Fits
<1>5. pc[q] = "insert" => \A c \in Writes[phase] : c \in DOMAIN vals[q]
  BY <1>3, <1>4 DEF Gives
<1> QED
  BY <1>3, <1>4, <1>5

LEMMA NoCrossing ==
    ASSUME Inv, Careful, older \cap Running = {}, asked = None
    PROVE  ~Crossing
  BY AllFresh DEF Crossing

\* A step that leaves schema and phase alone.
LEMMA PlainCareful ==
    ASSUME Inv, Careful, UNCHANGED <<requests, revision, phase, asked>>,
           contract'.check = contract.check, contract'.notNull = contract.notNull,
           contract'.at # 0 => phase = "new_only" /\ older' \cap Running = {},
           rebuilt' # None => Serves(2, phase) /\ older' \cap Running = {},
           older' \in {older, Running}, asked # None => older' = older,
           NamesThere', Crossing => Agreed'
    PROVE  Careful'
<1>1. Ground /\ \A q \in Req : Fits(q)
  BY Apart
<1>2. /\ Present(revision)' = Present(revision) /\ NotNull(revision)' = NotNull(revision)
      /\ Reads' = Reads /\ Writes' = Writes
  BY DEF Present, NotNull, Reads, Writes
<1>3. Running' = Running /\ (Crossing' <=> Crossing)
  BY <1>2 DEF Running, Over, Crossing, requests
<1>4. NobodyOlder'
  BY <1>1, <1>3 DEF Ground, NobodyOlder
<1>5. Serves(revision, phase)' /\ (asked # None => Serves(revision, asked) /\ Adjacent(phase, asked))'
  BY <1>1, <1>2 DEF Ground, Serves, Writes, Reads, Present, NotNull, Adjacent, Rank
<1>6. (rebuilt # None => Serves(2, phase))'
  BY DEF Serves, Writes, Reads, Present, NotNull
<1>7. Ground'
  BY <1>1, <1>3, <1>4, <1>5, <1>6 DEF Ground
<1>8. \A q \in Req : Lasts(q)
  BY <1>1, <1>2, <1>3 DEF Lasts, Fits, Fresh
<1> QED
  BY <1>7, <1>8, OperatorCareful

\* A step that changes the schema under requests that have seen one phase only.
LEMMA SchemaCareful ==
    ASSUME Inv, Careful, UNCHANGED <<requests, phase, asked>>, asked = None,
           older \cap Running = {}, older' \in {older, Running}, rebuilt' = None,
           Serves(revision, phase)', NamesThere',
           contract'.at # 0 => phase = "new_only" /\ older' \cap Running = {}
    PROVE  Careful'
<1>1. ~Crossing
  BY NoCrossing
<1>2. Reads' = Reads /\ Writes' = Writes
  BY DEF Reads, Writes
<1>3. Running' = Running /\ ~Crossing'
  BY <1>1, <1>2 DEF Running, Over, Crossing, requests
<1>4. Ground'
  BY <1>3 DEF Ground, NobodyOlder
<1>5. Reads[phase] \cup Writes[phase] \subseteq Present(revision)' /\ NotNull(revision)' \subseteq Writes[phase]
  BY <1>2 DEF Serves, Present, NotNull
<1>6. Reads[phase] \subseteq Writes[phase]
  BY Footing
<1>7. ASSUME NEW q \in Req PROVE Lasts(q)
  <2>1. SUFFICES ASSUME q \in Running PROVE Lasts(q)
    BY DEF Lasts
  <2>2. /\ cols[q] \in {{}, Reads[phase]}
        /\ vals[q] # None => DOMAIN vals[q] \subseteq Writes[phase]
        /\ pc[q] = "insert" => DOMAIN vals[q] = Writes[phase]
        /\ Pending(q) => \A c \in Writes[phase] : Gives(q, c)
    BY <2>1, AllFresh
  <2>3. q \notin older
    BY <2>1
  <2> QED
    BY <1>3, <1>5, <1>6, <2>2, <2>3 DEF Lasts
<1> QED
  BY <1>4, <1>7, OperatorCareful

\* Before each of his steps the operator has seen the requests under way end.
LEMMA ReadyMeans ==
    ASSUME Patient, Ready
    PROVE  ~job.on /\ contract.at = 0 /\ rebuilt = None /\ older \cap Running = {}
  BY DEF Ready

LEMMA UpgradeCareful == ASSUME Inv, Careful, Patient, Rules, Upgrade PROVE Careful'
<1>1. /\ Now("upgrade") /\ contract.at = 0 /\ asked = None /\ older \cap Running = {}
      /\ rebuilt' = None
      /\ UNCHANGED <<table, phase, asked, job, restarts, timeouts, requests>>
  BY NothingAsked, ReadyMeans DEF Upgrade
<1>2. /\ revision \in 1 .. 4 /\ contract \in [at : 0 .. 5, check : BOOLEAN, notNull : BOOLEAN]
      /\ phase \in Phase /\ Ground
  BY Apart DEF Inv, TypeOK, SchemaTypes
<1>3. NamesThere' /\ (Crossing => Agreed')
  BY <1>1, SameNames
<1>4. CASE NextStep /\ UNCHANGED <<revision, contract>>
  BY <1>1, <1>3, <1>4, PlainCareful DEF NextStep
<1>5. CASE contract' = [contract EXCEPT !.at = 1] /\ UNCHANGED <<revision, step, older>>
  <2>1. contract'.check = contract.check /\ contract'.notNull = contract.notNull /\ contract'.at # 0
    BY <1>2, <1>5
  <2>2. phase = "new_only"
    BY <2>1 DEF Rules, PhaseFirst
  <2> QED
    BY <1>1, <1>3, <1>5, <2>1, <2>2, PlainCareful
<1>6. CASE revision # 3 /\ Script[step].to > revision /\ NextStep /\ revision' = revision + 1 /\ UNCHANGED contract
  <2>1. revision \in 1 .. 2
    BY <1>1, <1>2, <1>6, NowType
  <2>2. Present(revision) \subseteq Present(revision)' /\ NotNull(revision)' \subseteq NotNull(revision)
    BY <1>6, <2>1 DEF Present, NotNull
  <2>3. Serves(revision, phase)'
    BY <1>1, <1>2, <2>2 DEF Ground, Serves, Writes, Reads, Present, NotNull
  <2> QED
    BY <1>1, <1>2, <1>3, <1>6, <2>3, SchemaCareful DEF NextStep
<1>7. ~(Script[step].to <= revision) => Script[step].to > revision
  BY <1>1, <1>2, NowType
<1> QED
  BY <1>4, <1>5, <1>6, <1>7 DEF Upgrade

\* 0004 runs in new_only, under requests that have seen no other phase.
LEMMA ContractMeans ==
    ASSUME Inv, Careful, contract.at # 0
    PROVE  /\ asked = None /\ revision = 3 /\ phase = "new_only" /\ older \cap Running = {}
           /\ Reads[phase] = {"parts"} /\ Writes[phase] = {"parts"} /\ rebuilt = None
<1>1. asked = None /\ revision = 3 /\ phase \in Phase /\ rebuilt = None
  BY OnlyContract DEF Inv, TypeOK, SchemaTypes
<1>2. Ground
  BY Apart
<1> QED
  BY <1>1, <1>2, PhaseFacts DEF Ground, NobodyOlder

LEMMA StatementCareful ==
    ASSUME Inv, Careful, contract.at # 0, AddCheck \/ Validate \/ SetNotNull \/ DropCheck,
           UNCHANGED <<phase, asked, job, rebuilt, restarts, timeouts, requests>>
    PROVE  Careful'
<1>1. /\ asked = None /\ revision = 3 /\ phase = "new_only" /\ older \cap Running = {}
      /\ Reads[phase] = {"parts"} /\ Writes[phase] = {"parts"} /\ rebuilt' = None
  BY ContractMeans
<1>2. UNCHANGED <<revision, table, step, older>>
  BY DEF AddCheck, Validate, SetNotNull, DropCheck
<1>3. NamesThere'
  BY <1>2, SameNames
<1>4. Present(revision)' = Column /\ NotNull(revision)' \subseteq {"parts"}
  BY <1>1, <1>2 DEF Present, NotNull, Column
<1>5. Serves(revision, phase)'
  BY <1>1, <1>4 DEF Serves, Reads, Writes, Present, NotNull, Column
<1> QED
  BY <1>1, <1>2, <1>3, <1>5, SchemaCareful

LEMMA DropNameCareful ==
    ASSUME Inv, Careful, DropName,
           UNCHANGED <<phase, asked, job, rebuilt, restarts, timeouts, requests>>
    PROVE  Careful'
<1>1. /\ contract.at = 5 /\ Quiet /\ revision' = 4
      /\ contract' = [contract EXCEPT !.at = 0]
      /\ table' = [r \in Row |-> IF r \in Rows THEN [table[r] EXCEPT !.guest = None] ELSE None]
      /\ IF Now("upgrade") THEN NextStep ELSE UNCHANGED <<step, older>>
  BY DEF DropName, Statement, Stops
<1>2. /\ asked = None /\ revision = 3 /\ phase = "new_only" /\ older \cap Running = {}
      /\ Reads[phase] = {"parts"} /\ Writes[phase] = {"parts"} /\ rebuilt' = None
  BY <1>1, ContractMeans
<1>3. /\ contract \in [at : 0 .. 5, check : BOOLEAN, notNull : BOOLEAN]
      /\ table \in [Row -> {None} \cup Record] /\ Ground
  BY Apart DEF Inv, TypeOK, SchemaTypes
<1>4. older' \in {older, Running} /\ contract'.at = 0
  BY <1>1, <1>3 DEF NextStep
<1>5. Serves(revision, phase)'
  <2>1. Present(revision)' = {"parts"} /\ NotNull(revision)' \subseteq {"parts"}
    BY <1>1 DEF Present, NotNull, Column
  <2> QED
    BY <1>2, <2>1 DEF Serves, Reads, Writes, Present, NotNull
<1>6. NamesThere'
  <2>1. SUFFICES ASSUME NEW r \in Row, table'[r] # None PROVE table'[r].parts # None
    BY <1>2 DEF NamesThere, Rows, Reads
  <2>2. r \in Rows /\ table'[r] = [table[r] EXCEPT !.guest = None]
    BY <1>1, <2>1
  <2>3. table[r] \in Record /\ table[r]["parts"] # None
    BY <1>2, <1>3, <2>2 DEF Ground, NamesThere, Rows
  <2> QED
    BY <2>2, <2>3 DEF Record
<1> QED
  BY <1>2, <1>4, <1>5, <1>6, SchemaCareful

LEMMA ContractCareful == ASSUME Inv, Careful, Contract PROVE Careful'
<1>1. UNCHANGED <<phase, asked, job, rebuilt, restarts, timeouts, requests>>
  BY DEF Contract
<1>2. CASE DropName
  BY <1>1, <1>2, DropNameCareful
<1>3. CASE AddCheck \/ Validate \/ SetNotNull \/ DropCheck
  <2>1. contract.at # 0
    BY <1>3 DEF AddCheck, Validate, SetNotNull, DropCheck, Statement
  <2> QED
    BY <1>1, <1>3, <2>1, StatementCareful
<1> QED
  BY <1>2, <1>3 DEF Contract

LEMMA LockTimeoutCareful == ASSUME Inv, Careful, LockTimeout PROVE Careful'
<1>1. /\ contract.at # 0 /\ contract' = [contract EXCEPT !.at = 0]
      /\ UNCHANGED <<revision, table, phase, asked, step, older, job, rebuilt, restarts, requests>>
  BY DEF LockTimeout, Stops
<1>2. contract'.check = contract.check /\ contract'.notNull = contract.notNull /\ contract'.at = 0
  BY <1>1 DEF Inv, TypeOK, SchemaTypes
<1>3. rebuilt' = None
  BY <1>1, OnlyContract
<1> QED
  BY <1>1, <1>2, <1>3, SameNames, PlainCareful

\* A row whose guest_name is rebuilt has every name that it had.
LEMMA RewrittenNames ==
    ASSUME NEW row \in Record, NEW c \in Column, row[c] # None
    PROVE  Rewritten(row, Shown(row, {"parts"}))[c] # None
<1>1. Shown(row, {"parts"}) # None
  BY NameAssumption DEF Shown
<1>2. /\ Rewritten(row, Shown(row, {"parts"})).guest = Shown(row, {"parts"})
      /\ Rewritten(row, Shown(row, {"parts"})).parts = row.parts
  BY DEF Rewritten, Record
<1> HIDE DEF Rewritten, Shown
<1>3. CASE c = "guest"
  BY <1>1, <1>2, <1>3
<1>4. CASE c = "parts"
  BY <1>2, <1>4
<1> QED
  BY <1>3, <1>4 DEF Column

\* What a downgrade leaves of the names a phase reads that the older schema serves.
LEMMA DowngradedNames ==
    ASSUME NEW row \in Record, NEW p \in Phase, revision \in {2, 4},
           Serves(revision - 1, p), \A c \in Reads[p] : row[c] # None
    PROVE  \A c \in Reads[p] : Downgraded(row)[c] # None
<1>1. Reads[p] \subseteq Column
  BY PhaseFacts
<1>2. CASE revision = 4
  BY <1>1, <1>2, RewrittenNames DEF Downgraded
<1>3. CASE revision = 2
  <2>1. "parts" \notin Reads[p]
    BY <1>3 DEF Serves, Present
  <2>2. [row EXCEPT !.parts = None].guest = row.guest
    BY DEF Record
  <2>3. SUFFICES ASSUME NEW c \in Reads[p] PROVE Downgraded(row)[c] # None
    OBVIOUS
  <2>4. c = "guest" /\ row["guest"] # None
    BY <1>1, <2>1, <2>3 DEF Column
  <2> QED
    BY <1>3, <2>2, <2>4 DEF Downgraded
<1> QED
  BY <1>2, <1>3

LEMMA DowngradeCareful == ASSUME Inv, Careful, Patient, Rules, Downgrade PROVE Careful'
<1>1. /\ Now("downgrade") /\ contract.at = 0 /\ asked = None /\ older \cap Running = {}
      /\ rebuilt = None /\ UNCHANGED <<phase, asked, job, restarts, timeouts, requests>>
  BY NothingAsked, ReadyMeans DEF Downgrade
<1>2. /\ revision \in 1 .. 4 /\ contract \in [at : 0 .. 5, check : BOOLEAN, notNull : BOOLEAN]
      /\ phase \in Phase /\ table \in [Row -> {None} \cup Record] /\ Ground
  BY Apart DEF Inv, TypeOK, SchemaTypes
<1>3. CASE NextStep /\ UNCHANGED <<revision, table, contract, rebuilt>>
  BY <1>1, <1>3, SameNames, PlainCareful DEF NextStep
<1>4. CASE /\ Script[step].to < revision /\ revision # 3
           /\ Quiet /\ NextStep
           /\ revision' = revision - 1
           /\ contract' = [at |-> 0, check |-> contract.check /\ revision # 2, notNull |-> FALSE]
           /\ table' = [r \in Row |-> IF r \in Rows THEN Downgraded(table[r]) ELSE None]
           /\ UNCHANGED rebuilt
  <2>1. revision \in {2, 4} /\ revision' < revision
    BY <1>1, <1>2, <1>4, NowType
  <2>2. Serves(revision - 1, phase)
    BY <1>4, <2>1 DEF Rules, PhaseFirst
  <2>3. Serves(revision, phase)'
    <3>1. (contract'.check => contract.check) /\ ~contract'.notNull
      BY <1>4
    <3>2. /\ Present(revision)' = Present(revision - 1)
          /\ NotNull(revision)' \subseteq NotNull(revision - 1)
      BY <1>4, <3>1 DEF Present, NotNull
    <3> QED
      BY <1>1, <2>2, <3>2 DEF Serves, Reads, Writes, Present, NotNull
  <2>4. NamesThere'
    <3>1. SUFFICES ASSUME NEW r \in Row, table'[r] # None, NEW c \in Reads[phase]
                   PROVE  table'[r][c] # None
      BY <1>1 DEF NamesThere, Rows, Reads
    <3>2. r \in Rows /\ table'[r] = Downgraded(table[r])
      BY <1>4, <3>1
    <3>3. table[r] \in Record /\ \A d \in Reads[phase] : table[r][d] # None
      BY <1>2, <3>2 DEF Ground, NamesThere, Rows
    <3> QED
      BY <1>2, <2>1, <2>2, <3>1, <3>2, <3>3, DowngradedNames
  <2>5. contract'.at = 0
    BY <1>4
  <2> QED
    BY <1>1, <1>4, <2>3, <2>4, <2>5, SchemaCareful DEF NextStep
<1>5. CASE rebuilt' = MissingLegacy /\ UNCHANGED <<revision, table, contract, step, older>>
  <2>1. rebuilt' # None => Serves(2, phase)
    BY DEF Rules, PhaseFirst
  <2> QED
    BY <1>1, <1>5, <2>1, SameNames, PlainCareful
<1>6. ~(Script[step].to >= revision) => Script[step].to < revision
  BY <1>1, <1>2, NowType
<1> QED
  BY <1>3, <1>4, <1>5, <1>6 DEF Downgrade

\* What there is while 0003's downgrade runs.
LEMMA RebuiltMeans ==
    ASSUME Inv, Careful, rebuilt # None
    PROVE  /\ asked = None /\ contract.at = 0 /\ revision = 3 /\ rebuilt \subseteq MissingLegacy
           /\ older \cap Running = {} /\ Serves(2, phase)
<1>1. Ground
  BY Apart
<1> QED
  BY <1>1 DEF Inv, OneAtATime, RowLocks, Ground, NobodyOlder

LEMMA RestoreCareful == ASSUME Inv, Careful, Restore PROVE Careful'
<1>1. /\ rebuilt # None /\ rebuilt' = None
      /\ UNCHANGED <<contract, phase, asked, job, restarts, timeouts, requests>>
  BY DEF Restore
<1>2. /\ asked = None /\ contract.at = 0 /\ revision = 3 /\ rebuilt \subseteq MissingLegacy
      /\ older \cap Running = {} /\ Serves(2, phase)
      /\ table \in [Row -> {None} \cup Record] /\ Ground
  BY <1>1, RebuiltMeans, Apart DEF Inv, TypeOK, SchemaTypes
<1>3. CASE UNCHANGED <<revision, table, step, older>>
  BY <1>1, <1>2, <1>3, SameNames, PlainCareful
<1>4. CASE /\ revision' = 2
           /\ table' = [r \in Row |-> IF r \in rebuilt
                                      THEN Rewritten(table[r], Shown(table[r], {"parts"}))
                                      ELSE table[r]]
           /\ IF Now("downgrade") THEN NextStep ELSE UNCHANGED <<step, older>>
  <2>1. Serves(revision, phase)'
    BY <1>1, <1>2, <1>4 DEF Serves, Reads, Writes, Present, NotNull
  <2>2. NamesThere'
    <3>1. SUFFICES ASSUME NEW r \in Row, table'[r] # None, NEW c \in Reads[phase]
                   PROVE  table'[r][c] # None
      BY <1>1 DEF NamesThere, Rows, Reads
    <3>2. c \in Column
      BY <3>1, Footing, PhaseFacts
    <3>3. CASE r \in rebuilt
      <4>1. r \in Rows /\ table'[r] = Rewritten(table[r], Shown(table[r], {"parts"}))
        BY <1>2, <1>4, <3>1, <3>3 DEF MissingLegacy
      <4>2. table[r] \in Record /\ table[r][c] # None
        BY <1>2, <3>1, <4>1 DEF Ground, NamesThere, Rows
      <4> QED
        BY <3>2, <4>1, <4>2, RewrittenNames
    <3>4. CASE r \notin rebuilt
      BY <1>2, <1>4, <3>1, <3>4 DEF Ground, NamesThere, Rows
    <3> QED
      BY <3>3, <3>4
  <2>3. older' \in {older, Running}
    BY <1>4 DEF NextStep
  <2> QED
    BY <1>1, <1>2, <2>1, <2>2, <2>3, SchemaCareful
<1> QED
  BY <1>1, <1>3, <1>4 DEF Restore

LEMMA GiveUpCareful == ASSUME Inv, Careful, GiveUp PROVE Careful'
<1>1. /\ rebuilt # None /\ rebuilt' = None /\ older' = Running
      /\ UNCHANGED <<revision, table, contract, phase, asked, requests>>
  BY DEF GiveUp, schema
<1>2. asked = None /\ contract.at = 0
  BY <1>1, RebuiltMeans
<1> QED
  BY <1>1, <1>2, SameNames, PlainCareful

\* A phase that is not refused and harmless: the schema serves it, the columns it
\* reads have all names, and where it reads others the names agree.
LEMMA Enterable ==
    ASSUME Inv, Careful, NEW p \in Phase, ~Refused(p), Harmless(p)
    PROVE  /\ Serves(revision, p)
           /\ \A r \in Rows : \A c \in Reads[p] : table[r][c] # None
           /\ Reads[p] # Reads[phase] => Agreed
<1>1. Reads[phase] \in {{"guest"}, {"parts"}} /\ Reads[p] \in {{"guest"}, {"parts"}}
  BY Footing, PhaseFacts
<1>2. Serves(revision, p)
  <2>1. Writes[p] \cup Reads[p] \subseteq Present(revision)
    BY DEF Refused
  <2>2. "guest" \in NotNull(revision) => "guest" \in Writes[p]
    BY DEF Refused
  <2>3. NotNull(revision) \subseteq {"guest", "parts"}
    BY DEF NotNull, Column
  <2>4. NotNull(revision) \subseteq Writes[p]
    BY <2>2, <2>3 DEF Harmless
  <2> QED
    BY <2>1, <2>4 DEF Serves
<1>3. \A r \in Rows : \A c \in Reads[p] : table[r][c] # None
  <2>1. CASE Reads[p] = {"guest"}
    <3>1. MissingLegacy = {}
      BY <2>1 DEF Refused
    <3>2. \A r \in Rows : table[r]["guest"] # None
      BY <3>1 DEF MissingLegacy
    <3> QED
      BY <2>1, <3>2
  <2>2. CASE Reads[p] = {"parts"}
    <3>1. Awaiting = {}
      BY <2>2 DEF Refused
    <3>2. \A r \in Rows : table[r]["parts"] # None
      BY <3>1 DEF Awaiting
    <3> QED
      BY <2>2, <3>2
  <2> QED
    BY <1>1, <2>1, <2>2
<1>4. ASSUME Reads[p] # Reads[phase] PROVE Agreed
  <2>1. \A r \in Rows : \A c \in Reads[phase] : table[r][c] # None
    BY Apart DEF Ground, NamesThere
  <2>2. \A r \in Rows : table[r]["guest"] # None /\ table[r]["parts"] # None
    BY <1>1, <1>3, <1>4, <2>1
  <2>3. Mismatched = {}
    BY <1>1, <1>4 DEF Refused, Harmless
  <2> QED
    BY <2>2, <2>3 DEF Agreed, Mismatched
<1> QED
  BY <1>2, <1>3, <1>4

LEMMA AskCareful == ASSUME Inv, Careful, Patient, Rules, Ask PROVE Careful'
<1>1. /\ Now("phase") \/ Now("attempt")
      /\ contract.at = 0 /\ older \cap Running = {} /\ asked = None /\ rebuilt' = None
      /\ ~Refused(Script[step].to) /\ asked' = Script[step].to
      /\ UNCHANGED <<schema, step, older, job, restarts, timeouts, requests>>
      /\ UNCHANGED <<revision, table, contract, phase>>
  BY ReadyMeans DEF Ask, schema
<1>2. PICK p \in Phase : p = Script[step].to
  BY <1>1, NowType
<1>3. asked' = p /\ p # None /\ ~Refused(p)
  BY <1>1, <1>2, NameAssumption
<1>4. Adjacent(phase, p) /\ Harmless(p)
  <2>1. Adjacent(phase, asked') /\ Harmless(asked')
    BY <1>1, <1>3 DEF Rules, EntersInOrder
  <2> QED
    BY <1>3, <2>1
<1>5. Serves(revision, p) /\ (Reads[p] # Reads[phase] => Agreed)
  BY <1>3, <1>4, Enterable
<1>6. phase \in Phase /\ Ground /\ table \in [Row -> {None} \cup Record]
  BY Apart DEF Inv, TypeOK, SchemaTypes
<1>7. Running' = Running /\ Reads' = Reads /\ Writes' = Writes /\ Rows' = Rows
  BY <1>1 DEF Running, Over, Reads, Writes, Rows, requests
<1>8. Crossing' => Reads[p] # Reads[phase]
  <2>1. \A q \in Running : cols[q] \in {{}, Reads[phase]}
    BY <1>1, AllFresh
  <2> QED
    BY <1>1, <1>3, <1>7, <2>1 DEF Crossing, requests
<1>9. ASSUME Reads[p] # Reads[phase]
      PROVE  phase \in {"dual_write", "read_new"} /\ Agreed
  BY <1>4, <1>5, <1>6, <1>9, NeighbourFacts
<1>10. Agreed => Agreed'
  BY <1>1, <1>7 DEF Agreed
<1>11. /\ Present(revision)' = Present(revision) /\ NotNull(revision)' = NotNull(revision)
       /\ NamesThere'
  BY <1>1, SameSchema, SameNames
<1>12. Ground'
  <2>1. Serves(revision, phase)'
    BY <1>1, <1>6, <1>7, <1>11 DEF Ground, Serves
  <2>2. (asked # None => Serves(revision, asked) /\ Adjacent(phase, asked))'
    BY <1>1, <1>3, <1>4, <1>5, <1>7, <1>11 DEF Serves, Adjacent, Rank
  <2>3. contract'.at = 0 /\ NobodyOlder'
    BY <1>1, <1>7 DEF NobodyOlder
  <2>4. Crossing' => phase' \in {"dual_write", "read_new"} /\ Agreed'
    BY <1>1, <1>8, <1>9, <1>10
  <2> QED
    BY <1>1, <1>11, <2>1, <2>2, <2>3, <2>4 DEF Ground
<1>13. ASSUME NEW q \in Req PROVE Lasts(q)
  <2>1. SUFFICES ASSUME q \in Running PROVE Lasts(q)
    BY DEF Lasts
  <2>2. Pending(q) => \A c \in Writes[phase] : Gives(q, c)
    BY <1>1, <2>1, AllFresh
  <2>3. Crossing' => Writes[phase] = Column
    BY <1>6, <1>8, <1>9, PhaseFacts
  <2>4. Fits(q) /\ q \notin older
    BY <1>1, <2>1, Apart
  <2> QED
    BY <1>1, <1>11, <2>1, <2>2, <2>3, <2>4 DEF Lasts, Fits
<1> QED
  BY <1>1, <1>12, <1>13, OperatorCareful

LEMMA TurnedDownCareful == ASSUME Inv, Careful, Patient, TurnedDown PROVE Careful'
<1>1. /\ contract.at = 0 /\ asked = None /\ rebuilt' = None /\ NextStep
      /\ UNCHANGED <<revision, table, contract, phase, asked, job, restarts, timeouts, requests>>
  BY DEF TurnedDown, Ready, schema
<1> QED
  BY <1>1, SameNames, PlainCareful DEF NextStep

LEMMA SwitchCareful == ASSUME Inv, Careful, Switch PROVE Careful'
<1>1. /\ asked # None /\ phase' = asked /\ asked' = None /\ older' = Running
      /\ UNCHANGED <<revision, table, contract, job, rebuilt, restarts, timeouts, requests>>
  BY DEF Switch, NextStep
<1>2. /\ phase \in Phase /\ asked \in Phase /\ contract.at = 0 /\ rebuilt' = None /\ Ground
      /\ older \cap Running = {} /\ Serves(revision, asked) /\ Adjacent(phase, asked)
  BY <1>1, Apart DEF Inv, TypeOK, SchemaTypes, OperatorTypes, OneAtATime, Ground, NobodyOlder
<1>3. /\ Reads[asked] \subseteq Writes[phase]
      /\ Reads[asked] # Reads[phase] => /\ phase \in {"dual_write", "read_new"}
                                        /\ asked \in {"dual_write", "read_new"}
      /\ Writes[phase] \subseteq Column /\ Reads[asked] \in {{"guest"}, {"parts"}}
      /\ phase \in {"dual_write", "read_new"} => Writes[phase] = Column
  BY <1>2, NeighbourFacts, PhaseFacts
<1>4. /\ Reads' = Reads /\ Writes' = Writes /\ Running' = Running /\ Rows' = Rows
      /\ Present(revision)' = Present(revision) /\ NotNull(revision)' = NotNull(revision)
  BY <1>1 DEF Reads, Writes, Running, Over, Rows, Present, NotNull, requests
<1>5. Reads[asked] # Reads[phase] => Agreed
  BY <1>1, <1>2 DEF Ground, Crossing
<1>6. \A q \in Running : cols[q] \in {{}, Reads[phase]}
  BY <1>2, AllFresh
<1>7. Crossing' => Reads[asked] # Reads[phase]
  BY <1>1, <1>4, <1>6 DEF Crossing, requests
<1>8. NamesThere'
  <2>1. SUFFICES ASSUME NEW r \in Rows, NEW c \in Reads[asked] PROVE table[r][c] # None
    BY <1>1, <1>4 DEF NamesThere
  <2>2. CASE Reads[asked] = Reads[phase]
    BY <1>2, <2>1, <2>2 DEF Ground, NamesThere
  <2>3. CASE Reads[asked] # Reads[phase]
    <3>1. table[r]["guest"] # None /\ table[r]["parts"] # None
      BY <1>5, <2>3 DEF Agreed
    <3>2. c = "guest" \/ c = "parts"
      BY <1>3, <2>1
    <3> QED
      BY <3>1, <3>2
  <2> QED
    BY <2>2, <2>3
<1>9. Ground'
  <2>1. Serves(revision, phase)'
    BY <1>1, <1>2, <1>4 DEF Serves
  <2>2. Crossing' => phase' \in {"dual_write", "read_new"} /\ Agreed'
    BY <1>1, <1>3, <1>4, <1>5, <1>7 DEF Agreed
  <2> QED
    BY <1>1, <1>2, <1>8, <2>1, <2>2 DEF Ground, NobodyOlder
<1>10. ASSUME NEW q \in Req PROVE Lasts(q)
  <2>1. SUFFICES ASSUME q \in Running PROVE Lasts(q)
    BY DEF Lasts
  <2>2. Pending(q) => \A c \in Writes[phase] : Gives(q, c)
    BY <1>2, <2>1, AllFresh
  <2>3. Crossing' => Writes[phase] = Column
    BY <1>3, <1>7
  <2>4. Fits(q)
    BY Apart
  <2> QED
    BY <1>1, <1>3, <1>4, <2>1, <2>2, <2>3, <2>4 DEF Lasts, Fits
<1> QED
  BY <1>1, <1>9, <1>10, OperatorCareful

LEMMA BackfillCareful ==
    ASSUME Inv, Careful, Patient, StartBackfill \/ TakeBatch \/ EndPass PROVE Careful'
<1>1. /\ UNCHANGED <<revision, table, contract, phase, asked, requests>>
      /\ contract.at = 0 /\ asked = None /\ rebuilt' = None
  <2>1. CASE StartBackfill
    BY <2>1, NothingAsked DEF StartBackfill, Ready, schema
  <2>2. CASE TakeBatch
    BY <2>2, OnlyJob DEF TakeBatch, schema
  <2>3. CASE EndPass
    BY <2>3, OnlyJob DEF EndPass, schema
  <2> QED
    BY <2>1, <2>2, <2>3
<1>2. older' \in {older, Running}
  BY DEF StartBackfill, TakeBatch, EndPass, NextStep
<1> QED
  BY <1>1, <1>2, SameNames, PlainCareful

LEMMA FillCareful == ASSUME Inv, Careful, Fill PROVE Careful'
<1> DEFINE guest(r) == IF table[r].guest = None THEN Blank ELSE table[r].guest
           filled(r) == [table[r] EXCEPT !.parts = guest(r), !.version = @ + 1]
<1>1. /\ job.batch # {} /\ job.batch \subseteq Awaiting
      /\ contract.at = 0 /\ asked = None /\ rebuilt = None
      /\ table' = [r \in Row |-> IF r \in job.batch THEN filled(r) ELSE table[r]]
      /\ UNCHANGED <<revision, contract, phase, asked, step, older, rebuilt, restarts, timeouts, requests>>
  BY OnlyJob DEF Fill, Inv, RowLocks, OneAtATime
<1>2. table \in [Row -> {None} \cup Record] /\ Ground
  BY Apart DEF Inv, TypeOK, SchemaTypes
<1>3. ASSUME NEW r \in job.batch
      PROVE  /\ filled(r).parts = guest(r) /\ guest(r) # None
             /\ filled(r).guest = table[r].guest /\ table[r] # None
  <2>1. table[r] \in Record /\ table[r] # None
    BY <1>1, <1>2 DEF Awaiting, Rows
  <2>2. guest(r) # None
    BY NameAssumption
  <2> HIDE DEF guest
  <2> QED
    BY <2>1, <2>2 DEF Record
<1> HIDE DEF filled, guest
<1>4. Reads' = Reads
  BY DEF Reads
<1>5. NamesThere'
  <2>1. SUFFICES ASSUME NEW r \in Row, table'[r] # None, NEW c \in Reads[phase]
                 PROVE  table'[r][c] # None
    BY <1>1, <1>4 DEF NamesThere, Rows
  <2>2. CASE r \notin job.batch
    BY <1>1, <1>2, <2>1, <2>2 DEF Ground, NamesThere, Rows
  <2>3. CASE r \in job.batch
    <3>1. table'[r] = filled(r)
      BY <1>1, <2>1, <2>3
    <3>2. r \in Rows /\ table[r][c] # None
      BY <1>2, <1>3, <2>1, <2>3 DEF Ground, NamesThere, Rows
    <3>3. c = "guest" \/ c = "parts"
      BY <2>1, Footing
    <3>4. filled(r)["parts"] # None /\ filled(r)["guest"] = table[r]["guest"]
      BY <1>3, <2>3
    <3> QED
      BY <3>1, <3>2, <3>3, <3>4
  <2> QED
    BY <2>2, <2>3
<1>6. ~Crossing
  <2>1. ASSUME Crossing PROVE FALSE
    <3>1. Agreed
      BY <1>2, <2>1 DEF Ground
    <3>2. PICK r : r \in job.batch
      BY <1>1
    <3>3. r \in Rows /\ table[r].parts = None
      BY <1>1, <3>2 DEF Awaiting
    <3> QED
      BY <3>1, <3>3 DEF Agreed
  <2> QED
    BY <2>1
<1> QED
  BY <1>1, <1>5, <1>6, PlainCareful

\* The phase of a server that comes back.
LEMMA BackSafely ==
    ASSUME Inv, Careful, Rules, Restart
    PROVE  /\ phase' \in Phase /\ Serves(revision, phase')
           /\ \A r \in Rows : \A c \in Reads[phase'] : table[r][c] # None
           /\ Reads[phase'] # Reads[phase] => Agreed
<1>4. PICK p \in Env[step] \cup Unchecked[step] : phase' \in {Reconciled(p), p}
  BY DEF Restart
<1>1. p \in Phase
  BY BoundAssumption DEF Inv, TypeOK, OperatorTypes
<1>2. restarts' # restarts
  BY DEF Restart, Inv, TypeOK, OperatorTypes
<1>3. ~Refused(p) /\ Harmless(p)
  BY <1>2 DEF Rules, KeepsEnv
<1>5. Reconciled(p) = p
  BY <1>3 DEF Reconciled
<1> QED
  BY <1>1, <1>3, <1>4, <1>5, Enterable

LEMMA RestartCareful == ASSUME Inv, Careful, Patient, Rules, Restart PROVE Careful'
<1>1. /\ contract.at = 0 /\ rebuilt' = None /\ restarts' = restarts + 1 /\ asked' = None
      /\ pc' = [q \in Req |-> IF q \in Running THEN "lost" ELSE pc[q]]
      /\ UNCHANGED <<revision, table, contract, older, job, timeouts, call, cols, got, reply>>
  BY DEF Restart
<1>2. /\ Serves(revision, phase')
      /\ \A r \in Rows : \A c \in Reads[phase'] : table[r][c] # None
  BY BackSafely
<1>3. Running' = {}
  BY <1>1 DEF Running, Over
<1>4. ~Crossing'
  BY <1>1, <1>3 DEF Crossing
<1>5. /\ Present(revision)' = Present(revision) /\ NotNull(revision)' = NotNull(revision)
      /\ Reads' = Reads /\ Writes' = Writes /\ Rows' = Rows
  BY <1>1 DEF Present, NotNull, Reads, Writes, Rows
<1>6. Ground /\ \A q \in Req : Fits(q)
  BY Apart
<1>7. NamesThere'
  BY <1>1, <1>2, <1>5 DEF NamesThere
<1>8. Ground'
  <2>1. Serves(revision, phase)'
    BY <1>1, <1>2, <1>5 DEF Serves
  <2> QED
    BY <1>1, <1>4, <1>7, <2>1 DEF Ground, NobodyOlder
<1>9. ASSUME NEW q \in Req PROVE Fits(q)'
  <2>1. q \notin Running' /\ q \notin Fresh'
    BY <1>3 DEF Fresh
  <2>2. pc'[q] # "answer"
    BY <1>1 DEF Running, Over
  <2> QED
    BY <2>1, <2>2 DEF Fits
<1> QED
  BY <1>8, <1>9, Together

LEMMA InitCareful == ASSUME Init PROVE Careful
<1> DEFINE first(r) == [guest |-> Stored[r], parts |-> None, version |-> 0]
<1>1. /\ revision = 1 /\ phase = "legacy" /\ asked = None /\ contract.at = 0 /\ older = {}
      /\ ~contract.check /\ ~contract.notNull
      /\ table = [r \in Row |-> IF r \in Seed THEN first(r) ELSE None]
      /\ rebuilt = None /\ \A q \in Req : pc[q] = "idle"
  BY DEF Init
<1>2. Running = {} /\ ~Crossing
  BY <1>1 DEF Running, Crossing
<1>3. Reads[phase] = {"guest"} /\ Writes[phase] = {"guest"}
  BY <1>1 DEF Reads, Writes, Phase
<1>4. Present(revision) = {"guest"} /\ NotNull(revision) = {"guest"}
  BY <1>1 DEF Present, NotNull, Column
<1>5. NamesThere
  <2>1. SUFFICES ASSUME NEW r \in Rows PROVE table[r].guest # None
    BY <1>3 DEF NamesThere
  <2>2. r \in Seed /\ table[r] = first(r)
    BY <1>1 DEF Rows
  <2>3. Stored[r] # None
    BY <2>2, NameAssumption
  <2> QED
    BY <2>2, <2>3
<1>6. SchemaServes
  BY <1>1, <1>2, <1>3, <1>4 DEF SchemaServes, Serves
<1>7. NobodyOlder /\ Composed /\ NamesAgree
  BY <1>1, <1>2 DEF NobodyOlder, Composed, NamesAgree, Fresh
<1>8. NoneNull
  BY <1>1 DEF NoneNull
<1> QED
  BY <1>5, <1>6, <1>7, <1>8 DEF Careful

LEMMA StutterCareful == ASSUME Inv, Careful, UNCHANGED vars PROVE Careful'
<1>1. UNCHANGED <<requests, table, revision, contract, phase, asked, older, rebuilt>>
  BY DEF vars, requests
<1>2. /\ contract.at # 0 => phase = "new_only" /\ older \cap Running = {}
      /\ rebuilt # None => Serves(2, phase) /\ older \cap Running = {}
  BY Apart DEF Ground, NobodyOlder
<1> QED
  BY <1>1, <1>2, SameNames, PlainCareful

LEMMA StepCareful == ASSUME Inv, Careful, Patient, [Next /\ Rules]_vars PROVE Careful'
<1>1. ASSUME NEW q \in Req, Arrive(q) \/ Step(q) PROVE Careful'
  BY <1>1, ArriveCareful, SelectCareful, EditCareful, InsertCareful, UpdateCareful,
     VictimCareful, CommitCareful, ReloadCareful, AnswerCareful DEF Step
<1>2. CASE Operate /\ Rules
  BY <1>2, UpgradeCareful, ContractCareful, DowngradeCareful, RestoreCareful, AskCareful,
     TurnedDownCareful, SwitchCareful, BackfillCareful, FillCareful DEF Operate
<1>3. CASE LockTimeout \/ GiveUp
  BY <1>3, LockTimeoutCareful, GiveUpCareful
<1>4. CASE Restart /\ Rules
  BY <1>4, RestartCareful
<1>5. CASE UNCHANGED vars
  BY <1>5, StutterCareful
<1> QED
  BY <1>1, <1>2, <1>3, <1>4, <1>5 DEF Next

\* The invariant of a migration, forwards or back, by an operator who keeps the
\* rules of the runbook.
THEOREM CarefulHolds == CarefulSpec => []Inductive
<1>1. Init => Inductive
  BY InitInv, InitCareful DEF Inductive
<1>2. Inductive /\ Patient /\ [Next /\ Rules]_vars => Inductive'
  <2>1. [Next /\ Rules]_vars => [Next]_vars
    OBVIOUS
  <2> QED
    BY <2>1, StepInv, StepCareful DEF Inductive
<1>3. CASE Patient
  <2>1. Inductive /\ [Next /\ Rules]_vars => Inductive'
    BY <1>2, <1>3
  <2> QED
    BY <1>1, <2>1, PTL DEF CarefulSpec
<1>4. CASE ~Patient
  BY <1>4 DEF CarefulSpec
<1> QED
  BY <1>3, <1>4

\* What a step of a request answers with an error.
LEMMA FailsSo ==
    ASSUME Inductive, NEW q \in Req, Arrive(q) \/ Step(q)
    PROVE  /\ OthersSame(q)
           /\ reply'[q] # reply[q] /\ reply'[q].code \in {400, 500} =>
                \/ pc[q] = "answer" /\ cols[q] # Reads[phase]
                \/ pc[q] = "update" /\ RebuildHolds(Target(q))
<1> DEFINE So == reply'[q] # reply[q] /\ reply'[q].code \in {400, 500} =>
                   \/ pc[q] = "answer" /\ cols[q] # Reads[phase]
                   \/ pc[q] = "update" /\ RebuildHolds(Target(q))
<1>1. Inv /\ Careful /\ Stage(q) /\ Payload(q) /\ Fits(q) /\ RequestTypes
  BY Apart DEF Inductive, Inv, TypeOK, Stages
<1>2. ASSUME NEW code, Fail(q, code) PROVE OthersSame(q) /\ reply'[q].code = code
  BY <1>1, <1>2 DEF Fail, Send, Goto, OthersSame, RequestTypes
<1>3. ASSUME NEW code, NEW n, Send(q, code, n), UNCHANGED <<call, cols, got, vals>>
      PROVE  OthersSame(q) /\ reply'[q].code = code
  BY <1>1, <1>3 DEF Send, Goto, OthersSame, RequestTypes
<1>4. CASE Arrive(q)
  <2>1. OthersSame(q) /\ reply' = reply
    BY <1>1, <1>4 DEF Arrive, Goto, OthersSame, RequestTypes
  <2> QED
    BY <2>1
<1>5. CASE Select(q)
  <2>1. cols[q] \subseteq Present(revision)
    BY <1>1, <1>5 DEF Select, Fits, Running, Over
  <2>2. OthersSame(q) /\ reply' = reply
    BY <1>1, <1>5, <2>1 DEF Select, Goto, OthersSame, RequestTypes
  <2> QED
    BY <2>2
<1>6. CASE Edit(q) \/ Commit(q) \/ Reload(q)
  <2>1. OthersSame(q) /\ reply' = reply
    BY <1>1, <1>6 DEF Edit, Commit, Reload, Goto, OthersSame, RequestTypes
  <2> QED
    BY <2>1
<1>7. CASE Insert(q)
  <2>1. DOMAIN vals[q] \subseteq Present(revision) /\ NotNull(revision) \subseteq DOMAIN vals[q]
    BY <1>1, <1>7 DEF Insert, Fits, Payload, Running, Over
  <2>2. OthersSame(q) /\ reply' = reply
    BY <1>1, <1>7, <2>1 DEF Insert, Goto, OthersSame, RequestTypes
  <2> QED
    BY <2>2
<1>8. CASE Update(q)
  <2>1. DOMAIN vals[q] \subseteq Present(revision)
    BY <1>1, <1>8 DEF Update, Fits, Payload, Running, Over
  <2>2. CASE Fail(q, 409)
    <3>1. OthersSame(q) /\ reply'[q].code = 409
      BY <1>2, <2>2
    <3> QED
      BY <3>1
  <2>3. CASE Goto(q, "commit") /\ UNCHANGED <<call, cols, got, vals, reply>>
    <3>1. OthersSame(q) /\ reply' = reply
      BY <1>1, <2>3 DEF Goto, OthersSame, RequestTypes
    <3> QED
      BY <3>1
  <2> QED
    BY <1>8, <2>1, <2>2, <2>3 DEF Update
<1>9. CASE Victim(q)
  <2>1. OthersSame(q)
    BY <1>2, <1>9 DEF Victim
  <2> QED
    BY <1>9, <2>1 DEF Victim
<1>10. CASE Answer(q)
  <2>1. CASE Reads[phase] \subseteq cols[q] /\ Shown(got[q], Reads[phase]) # None
    <3> DEFINE code == IF call[q].op = "create" THEN 201 ELSE 200
    <3>1. code \notin {400, 500}
      OBVIOUS
    <3> HIDE DEF code
    <3>2. Send(q, code, Shown(got[q], Reads[phase])) /\ UNCHANGED <<call, cols, got, vals>>
      BY <1>10, <2>1 DEF Answer, code
    <3>3. OthersSame(q) /\ reply'[q].code = code
      BY <1>3, <3>2
    <3> QED
      BY <3>1, <3>3
  <2>2. CASE ~(Reads[phase] \subseteq cols[q] /\ Shown(got[q], Reads[phase]) # None)
    <3>1. pc[q] = "answer" /\ Fail(q, 500)
      BY <1>10, <2>2 DEF Answer
    <3>2. cols[q] # Reads[phase]
      BY <1>1, <2>2, <3>1 DEF Fits
    <3> QED
      BY <1>2, <3>1, <3>2
  <2> QED
    BY <2>1, <2>2
<1> QED
  BY <1>4, <1>5, <1>6, <1>7, <1>8, <1>9, <1>10 DEF Step

\* With such an operator a request is answered 400 or 500 in two cases only.  The
\* reads are switched between its SELECT and its answer; or it is an edit of a row
\* that the downgrade of 0003 has rewritten, which waits for the table this edit
\* has read.  No statement meets a column that is not there or a NULL that is not
\* allowed, and no name is NULL, whether or not the check at start-up succeeds.
THEOREM FailuresAreSwitches == CarefulSpec => FailsOnlyAcrossTheSwitch
<1> DEFINE So(q) == reply'[q] # reply[q] /\ reply'[q].code \in {400, 500} =>
                      \/ pc[q] = "answer" /\ cols[q] # Reads[phase]
                      \/ pc[q] = "update" /\ RebuildHolds(Target(q))
<1>1. ASSUME Inductive, [Next /\ Rules]_vars, NEW q \in Req PROVE So(q)
  <2>1. CASE \E r \in Req : Arrive(r) \/ Step(r)
    <3>1. PICK r \in Req : Arrive(r) \/ Step(r)
      BY <2>1
    <3>2. CASE r = q
      BY <1>1, <3>1, <3>2, FailsSo
    <3>3. CASE r # q
      <4>1. OthersSame(r)
        BY <1>1, <3>1, FailsSo
      <4> QED
        BY <3>3, <4>1 DEF OthersSame
    <3> QED
      BY <3>2, <3>3
  <2>2. CASE Operate
    BY <2>2 DEF Operate, Upgrade, Contract, Downgrade, Restore, Ask, TurnedDown, Switch,
       StartBackfill, TakeBatch, Fill, EndPass, requests
  <2>3. CASE LockTimeout \/ GiveUp \/ Restart \/ UNCHANGED vars
    BY <2>3 DEF LockTimeout, GiveUp, Restart, vars, requests
  <2> QED
    BY <1>1, <2>1, <2>2, <2>3 DEF Next
<1>2. Inductive /\ [Next /\ Rules]_vars => [\A q \in Req : So(q)]_vars
  BY <1>1
<1>3. CarefulSpec => [][Next /\ Rules]_vars
  BY PTL DEF CarefulSpec
<1> QED
  BY <1>2, <1>3, CarefulHolds, PTL DEF FailsOnlyAcrossTheSwitch

-----------------------------------------------------------------------------
(* What clients see.                                                       *)

\* A step that no client can see.
LEMMA Unseen ==
    ASSUME \A r \in Row : Visible(r)' = Visible(r), \A q \in Req : Seen(q)' = Seen(q),
           Written' = Written, call' = call
    PROVE  UNCHANGED Register!vars
  BY DEF Register!vars

\* The name of a row, as the phase reads it.
LEMMA VisibleIs ==
    ASSUME Inv, Careful, NEW r \in Rows
    PROVE  /\ Visible(r) # None
           /\ \A c \in Reads[phase] : Visible(r) = table[r][c]
           /\ Visible(r) = Shown(table[r], Reads[phase])
<1>1. Ground /\ Reads[phase] \in {{"guest"}, {"parts"}}
  BY Apart, Footing
<1>2. \A c \in Reads[phase] : table[r][c] # None
  BY <1>1 DEF Ground, NamesThere
<1>3. CASE Reads[phase] = {"guest"}
  <2>1. table[r]["guest"] # None
    BY <1>2, <1>3
  <2> QED
    BY <1>3, <2>1 DEF Visible, Shown, Rows
<1>4. CASE Reads[phase] = {"parts"}
  <2>1. table[r]["parts"] # None
    BY <1>2, <1>4
  <2> QED
    BY <1>4, <2>1 DEF Visible, Shown, Rows
<1> QED
  BY <1>1, <1>3, <1>4

\* ... which the columns of a SELECT give as well, before the switch and after it.
LEMMA ShownIsVisible ==
    ASSUME Inv, Careful, NEW q \in Running, NEW r \in Rows,
           cols[q] \in {{"guest"}, {"parts"}}
    PROVE  Shown(table[r], cols[q]) = Visible(r)
<1>1. CASE cols[q] = Reads[phase]
  BY <1>1, VisibleIs
<1>2. CASE cols[q] # Reads[phase]
  <2>1. Crossing
    BY <1>2 DEF Crossing
  <2>2. table[r].guest # None /\ table[r].parts = table[r].guest
    BY <2>1, Apart DEF Ground, Agreed
  <2> QED
    BY <2>2, Footing DEF Visible, Shown, Rows
<1> QED
  BY <1>1, <1>2

\* Where rows and phase stay, the names do.
LEMMA VisibleStays ==
    ASSUME table' = table, phase' = phase
    PROVE  \A r \in Row : Visible(r)' = Visible(r)
  BY DEF Visible, Shown, Reads

\* No one sees more of a request that does not move.
LEMMA OthersSee ==
    ASSUME NEW q \in Req, OthersSame(q)
    PROVE  \A r \in Req \ {q} : Seen(r)' = Seen(r) /\ (r \in Written' <=> r \in Written)
<1>1. SUFFICES ASSUME NEW r \in Req \ {q}
               PROVE  Seen(r)' = Seen(r) /\ (r \in Written' <=> r \in Written)
  OBVIOUS
<1>2. /\ pc'[r] = pc[r] /\ call'[r] = call[r] /\ cols'[r] = cols[r]
      /\ got'[r] = got[r] /\ vals'[r] = vals[r] /\ reply'[r] = reply[r]
  BY DEF OthersSame
<1> QED
  BY <1>2 DEF Seen, Shown, Written

LEMMA OwnUnseen ==
    ASSUME NEW q \in Req, OthersSame(q), call' = call,
           \A r \in Row : Visible(r)' = Visible(r),
           Seen(q)' = Seen(q), q \in Written' <=> q \in Written
    PROVE  UNCHANGED Register!vars
<1>1. \A r \in Req : Seen(r)' = Seen(r)
  BY OthersSee
<1>2. Written' = Written
  <2>1. \A r \in Req : r \in Written' <=> r \in Written
    BY OthersSee
  <2>2. Written \subseteq Req /\ Written' \subseteq Req
    BY DEF Written
  <2> QED
    BY <2>1, <2>2
<1> QED
  BY <1>1, <1>2, Unseen

LEMMA ArriveSeen == ASSUME Inv, NEW q \in Req, Arrive(q) PROVE Register!Begin(q)
<1>1. PICK c \in Plan[q] :
        /\ call' = [call EXCEPT ![q] = c]
        /\ IF c.op = "create"
           THEN /\ vals' = [vals EXCEPT ![q] = NamesOf(c.name)]
                /\ Goto(q, "insert")
                /\ UNCHANGED cols
           ELSE /\ table[c.row] # None
                /\ cols' = [cols EXCEPT ![q] = Reads[phase]]
                /\ Goto(q, "load")
                /\ UNCHANGED vals
  BY DEF Arrive
<1>2. /\ pc[q] = "idle" /\ UNCHANGED <<got, reply, table, phase>> /\ Stage(q)
  BY DEF Arrive, schema, Inv, Stages
<1>3. c \in Call /\ call[q] = None /\ reply[q] = None
  BY <1>2, PlanAssumption DEF Stage
<1>4. OthersSame(q) /\ pc'[q] \in {"insert", "load"} /\ reply'[q] = None
  <2>1. CASE c.op = "create"
    BY <1>1, <1>2, <1>3, <2>1 DEF Goto, OthersSame, Inv, TypeOK, RequestTypes
  <2>2. CASE c.op # "create"
    BY <1>1, <1>2, <1>3, <2>2 DEF Goto, OthersSame, Inv, TypeOK, RequestTypes
  <2> QED
    BY <2>1, <2>2
<1>5. \A r \in Req : Seen(r)' = Seen(r)
  BY <1>2, <1>3, <1>4, OthersSee DEF Seen
<1>6. Written' = Written
  <2>1. q \notin Written /\ q \notin Written'
    BY <1>2, <1>4 DEF Written
  <2>2. Written \subseteq Req /\ Written' \subseteq Req
    BY DEF Written
  <2> QED
    BY <1>4, <2>1, <2>2, OthersSee
<1>7. \A r \in Row : Visible(r)' = Visible(r)
  BY <1>2, VisibleStays
<1> QED
  BY <1>1, <1>3, <1>5, <1>6, <1>7 DEF Register!Begin

\* An error is nothing a client sees, and an answer that fails is forgotten.
LEMMA FailSeen ==
    ASSUME Inv, NEW q \in Req, NEW code \in {400, 409, 500}, Fail(q, code),
           pc[q] \in {"load", "fetch", "answer", "insert", "update"},
           UNCHANGED <<schema, operator>>
    PROVE  UNCHANGED Register!vars \/ Register!Forget(q)
<1> DEFINE a == [code |-> code, name |-> None]
<1>1. /\ pc' = [pc EXCEPT ![q] = "done"] /\ reply' = [reply EXCEPT ![q] = a]
      /\ vals' = [vals EXCEPT ![q] = IF pc[q] \in {"insert", "update"} THEN None ELSE vals[q]]
      /\ UNCHANGED <<call, cols, got, table, phase>>
  BY DEF Fail, Send, Goto, schema
<1>2. a \in Reply /\ a # None /\ a.name = None
  BY NameAssumption DEF Reply, Inv, TypeOK, SchemaTypes
<1> HIDE DEF a
<1>3. /\ OthersSame(q) /\ pc'[q] = "done" /\ call'[q] = call[q] /\ reply'[q] = a
      /\ vals'[q] = IF pc[q] \in {"insert", "update"} THEN None ELSE vals[q]
  BY <1>1 DEF OthersSame, Inv, TypeOK, RequestTypes
<1>4. \A r \in Row : Visible(r)' = Visible(r)
  BY <1>1, VisibleStays
<1>5. Stage(q) /\ Payload(q)
  BY DEF Inv, Stages
<1>6. Seen(q)' = None
  BY <1>2, <1>3 DEF Seen
<1>7. q \in Written' <=> q \in Written
  BY <1>3, <1>5 DEF Written, Payload
<1>8. CASE pc[q] # "answer"
  <2>1. Seen(q) = None
    BY <1>5, <1>8 DEF Seen, Stage
  <2> QED
    BY <1>1, <1>3, <1>4, <1>6, <1>7, <2>1, OwnUnseen
<1>9. CASE pc[q] = "answer"
  <2>1. Written' = Written
    <3>1. Written \subseteq Req /\ Written' \subseteq Req
      BY DEF Written
    <3> QED
      BY <1>3, <1>7, <3>1, OthersSee
  <2>2. \A r \in Req : Seen(r)' = IF r = q THEN None ELSE Seen(r)
    BY <1>3, <1>6, OthersSee
  <2>3. [r \in Row |-> Visible(r)]' = [r \in Row |-> Visible(r)]
    BY <1>4
  <2> DEFINE f == [r \in Req |-> Seen(r)]
  <2>4. f' = [f EXCEPT ![q] = None]
    <3>1. f' = [r \in Req |-> IF r = q THEN None ELSE Seen(r)]
      BY <2>2
    <3>2. f = [r \in Req |-> f[r]] /\ \A r \in Req : f[r] = Seen(r)
      OBVIOUS
    <3> HIDE DEF f
    <3> QED
      BY <3>1, <3>2
  <2> QED
    BY <1>1, <2>1, <2>3, <2>4 DEF Register!Forget
<1> QED
  BY <1>8, <1>9

LEMMA SelectSeen ==
    ASSUME Inv, Careful, NEW q \in Req, Select(q)
    PROVE  UNCHANGED Register!vars \/ Register!See(q)
<1>1. /\ pc[q] \in {"load", "fetch"} /\ q \in Running /\ Stage(q) /\ Payload(q) /\ Fits(q)
      /\ UNCHANGED <<schema, operator>> /\ UNCHANGED <<table, phase>>
  BY Apart DEF Select, Running, Over, Inv, Stages, schema
<1>2. cols[q] \subseteq Present(revision)
  BY <1>1 DEF Fits
<1> DEFINE s == IF pc[q] = "load" /\ call[q].op \in {"rename", "touch"} THEN "edit" ELSE "answer"
<1>3. /\ got' = [got EXCEPT ![q] = table[Target(q)]]
      /\ pc' = [pc EXCEPT ![q] = s]
      /\ UNCHANGED <<call, cols, vals, reply>>
      /\ s \in {"edit", "answer"} /\ (s = "edit" => pc[q] = "load")
  BY <1>2 DEF Select, Goto
<1> HIDE DEF s
<1>4. /\ OthersSame(q) /\ pc'[q] = s /\ got'[q] = table[Target(q)]
      /\ cols'[q] = cols[q] /\ vals'[q] = vals[q] /\ reply[q] = None /\ reply'[q] = None
      /\ call[q] # None
  BY <1>1, <1>3 DEF OthersSame, Inv, TypeOK, RequestTypes, Stage
<1>5. \A r \in Row : Visible(r)' = Visible(r)
  BY <1>1, VisibleStays
<1>6. Seen(q) = None
  BY <1>1, <1>4 DEF Seen
<1>7. q \in Written' <=> q \in Written
  BY <1>1, <1>3, <1>4 DEF Written, Payload
<1>8. CASE s = "edit"
  <2>1. Seen(q)' = None
    BY <1>4, <1>8 DEF Seen
  <2> QED
    BY <1>3, <1>4, <1>5, <1>6, <1>7, <2>1, OwnUnseen
<1>9. CASE s = "answer"
  <2>1. Target(q) \in Rows /\ cols[q] \in {{"guest"}, {"parts"}}
    BY <1>1, CallType DEF Stage, Rows
  <2>2. Seen(q)' = Shown(table[Target(q)], cols[q])
    BY <1>4, <1>9 DEF Seen, Shown
  <2>3. Seen(q)' = Visible(Target(q)) /\ Visible(Target(q)) # None
    BY <1>1, <2>1, <2>2, ShownIsVisible, VisibleIs
  <2>4. Target(q) = Register!About(q) /\ Target(q) \in Row
    BY <2>1 DEF Target, Register!About, Rows
  <2>5. call[q].op = "create" => q \in Written
    BY <1>1 DEF Written, Payload, Stage
  <2>6. Written' = Written
    <3>1. Written \subseteq Req /\ Written' \subseteq Req
      BY DEF Written
    <3> QED
      BY <1>4, <1>7, <3>1, OthersSee
  <2>7. \A r \in Req : Seen(r)' = IF r = q THEN Visible(Target(q)) ELSE Seen(r)
    BY <1>4, <2>3, OthersSee
  <2> HIDE DEF Target
  <2> QED
    BY <1>3, <1>4, <1>5, <1>6, <2>3, <2>4, <2>5, <2>6, <2>7 DEF Register!See
<1> QED
  BY <1>3, <1>8, <1>9

\* A request on its way: its edit, its statement, or its next SELECT.
LEMMA OnItsWay ==
    ASSUME Inv, NEW q \in Req, UNCHANGED <<schema, operator, call, got, reply>>,
           \/ pc[q] \in {"edit", "insert", "update"} /\ pc'[q] \in {"update", "commit"}
           \/ pc[q] = "reload" /\ pc'[q] = "fetch" /\ vals' = vals,
           OthersSame(q)
    PROVE  UNCHANGED Register!vars
<1>1. reply[q] = None /\ UNCHANGED <<table, phase>>
  BY DEF Inv, Stages, Stage, schema
<1>2. Seen(q) = None /\ Seen(q)' = None
  BY <1>1 DEF Seen
<1>3. q \in Written' <=> q \in Written
  BY DEF Written
<1> QED
  BY <1>1, <1>2, <1>3, OwnUnseen, VisibleStays

LEMMA AnswerSeen ==
    ASSUME Inv, Careful, NEW q \in Req, Answer(q)
    PROVE  UNCHANGED Register!vars \/ Register!Forget(q)
<1>1. /\ pc[q] = "answer" /\ Stage(q) /\ UNCHANGED <<schema, operator>>
      /\ UNCHANGED <<table, phase>>
  BY DEF Answer, Inv, Stages, schema
<1>2. CASE Fail(q, 500)
  BY <1>1, <1>2, FailSeen
<1>3. CASE /\ Reads[phase] \subseteq cols[q]
           /\ Send(q, IF call[q].op = "create" THEN 201 ELSE 200, Shown(got[q], Reads[phase]))
           /\ UNCHANGED <<call, cols, got, vals>>
  <2> DEFINE code == IF call[q].op = "create" THEN 201 ELSE 200
             n == Shown(got[q], Reads[phase])
             a == [code |-> code, name |-> n]
  <2>1. cols[q] = Reads[phase]
    BY <1>1, <1>3, Footing DEF Stage
  <2>2. n \in Name \cup {Blank, None}
    <3>1. got[q] \in Record
      BY <1>1 DEF Stage, Inv, TypeOK, RequestTypes
    <3> QED
      BY <3>1 DEF Shown, Record
  <2>3. code \in {200, 201, 400, 409, 500}
    OBVIOUS
  <2>4. n = Seen(q)
    BY <1>1, <2>1 DEF Seen
  <2> HIDE DEF code, n
  <2>5. a \in Reply /\ a # None /\ a.name = n
    BY <2>2, <2>3, NameAssumption DEF Reply, Inv, TypeOK, SchemaTypes
  <2> HIDE DEF a
  <2>6. pc' = [pc EXCEPT ![q] = "done"] /\ reply' = [reply EXCEPT ![q] = a]
    BY <1>3 DEF Send, Goto, code, n, a
  <2>7. OthersSame(q) /\ pc'[q] = "done" /\ reply'[q] = a /\ call'[q] = call[q] /\ vals'[q] = vals[q]
    BY <1>3, <2>6 DEF OthersSame, Inv, TypeOK, RequestTypes
  <2>8. Seen(q)' = Seen(q)
    BY <2>4, <2>5, <2>7 DEF Seen
  <2>9. q \in Written' <=> q \in Written
    BY <1>1, <2>7 DEF Written
  <2> QED
    BY <1>1, <1>3, <2>7, <2>8, <2>9, OwnUnseen, VisibleStays
<1> QED
  BY <1>2, <1>3 DEF Answer

LEMMA CommitSeen ==
    ASSUME Inv, Careful, NEW q \in Req, Commit(q)
    PROVE  UNCHANGED Register!vars \/ Register!Set(q)
<1> DEFINE old == IF call[q].op = "create" THEN NewRow ELSE table[Target(q)]
           new == Overlay(old, vals[q])
<1>1. /\ pc[q] = "commit" /\ q \in Running /\ Fits(q) /\ Ground
      /\ Stage(q) /\ Payload(q) /\ Version(q)
      /\ pc' = [pc EXCEPT ![q] = "reload"]
      /\ table' = IF vals[q] = None THEN table ELSE [table EXCEPT ![Target(q)] = new]
      /\ UNCHANGED <<revision, contract, phase, operator, call, cols, got, vals, reply>>
  BY Apart DEF Commit, Goto, Inv, Stages, Versions, Running, Over
<1>2. /\ OthersSame(q) /\ pc'[q] = "reload" /\ reply[q] = None /\ vals'[q] = vals[q]
      /\ call'[q] = call[q] /\ call[q] # None
  BY <1>1 DEF OthersSame, Inv, TypeOK, RequestTypes, Stage
<1>3. Seen(q) = None /\ Seen(q)' = None
  BY <1>1, <1>2 DEF Seen
<1>4. Reads' = Reads /\ Reads[phase] \in {{"guest"}, {"parts"}}
  BY Footing DEF Reads
<1>t. PICK t \in Row : t = Target(q)
  BY <1>1, CallType
<1>5. t \in Row /\ table \in [Row -> {None} \cup Record]
  BY <1>t DEF Inv, TypeOK, SchemaTypes
<1>6. CASE vals[q] = None
  <2>1. table' = table
    BY <1>1, <1>6
  <2>2. q \notin Written /\ q \notin Written'
    BY <1>2, <1>6 DEF Written
  <2> QED
    BY <1>1, <1>2, <1>3, <2>1, <2>2, OwnUnseen, VisibleStays
<1>7. CASE vals[q] # None
  <2>1. /\ call[q].op \in {"create", "rename", "touch"}
        /\ call[q].op = "create" => t = q
        /\ call[q].op = "touch" => DOMAIN vals[q] = {}
        /\ call[q].op # "touch" => \A c \in DOMAIN vals[q] : vals[q][c] = call[q].name
        /\ call[q].op # "touch" => Pending(q) /\ call[q].name \in Name
    BY <1>1, <1>7, <1>t, CallType DEF Payload, Pending, Target
  <2>2. call[q].op # "create" => t \in Rows /\ table[t] \in Record /\ got[q] = table[t] /\ old = table[t]
    BY <1>1, <1>t, <1>5, <1>7, <2>1 DEF Stage, Version, Rows
  <2>3. old \in Record
    BY <2>1, <2>2 DEF NewRow, Record
  <2>4. /\ \A c \in Column : new[c] = IF c \in DOMAIN vals[q] THEN vals[q][c] ELSE old[c]
        /\ new # None
    <3>1. vals[q] \in Values
      BY <1>7 DEF Inv, TypeOK, RequestTypes
    <3> HIDE DEF old
    <3> QED
      BY <2>3, <3>1, OverlayNames, OverlayType, NameAssumption
  <2> HIDE DEF new, old
  <2>5. \A r \in Row : table'[r] = IF r = t THEN new ELSE table[r]
    BY <1>1, <1>t, <1>5, <1>7
  <2>6. \A r \in Row : r # t => Visible(r)' = Visible(r)
    BY <1>1, <1>4, <2>5 DEF Visible, Shown
  <2>7. CASE call[q].op = "touch"
    <3>1. new["guest"] = table[t]["guest"] /\ new["parts"] = table[t]["parts"]
      BY <2>1, <2>2, <2>4, <2>7 DEF Column
    <3>2. table'[t].guest = table[t].guest /\ table'[t].parts = table[t].parts
          /\ table'[t] # None /\ table[t] # None
      BY <1>5, <2>2, <2>4, <2>5, <2>7, <3>1 DEF Rows
    <3>3. Visible(t)' = Visible(t)
      BY <1>1, <1>4, <3>2 DEF Visible, Shown
    <3>4. q \notin Written /\ q \notin Written'
      BY <1>1, <2>7 DEF Written
    <3> QED
      BY <1>1, <1>2, <1>3, <2>6, <3>3, <3>4, OwnUnseen
  <2>8. CASE call[q].op # "touch"
    <3>1. ASSUME NEW c \in Reads[phase] PROVE new[c] = call[q].name
      <4>1. Gives(q, c) /\ c \in Column
        BY <1>1, <1>4, <2>1, <2>8 DEF Fits, Column
      <4>2. CASE c \in DOMAIN vals[q]
        BY <2>1, <2>4, <2>8, <4>1, <4>2
      <4>3. CASE c \notin DOMAIN vals[q]
        BY <2>2, <2>4, <4>1, <4>3 DEF Gives
      <4> QED
        BY <4>2, <4>3
    <3>2. call[q].name # None
      BY <2>1, <2>8, NameAssumption
    <3>3. Visible(t)' = call[q].name
      <4>1. table'[t] = new
        BY <1>5, <2>5
      <4>2. CASE Reads[phase] = {"guest"}
        <5>1. new["guest"] = call[q].name
          BY <3>1, <4>2
        <5> QED
          BY <1>1, <1>4, <2>4, <4>1, <4>2, <5>1 DEF Visible, Shown
      <4>3. CASE Reads[phase] = {"parts"}
        <5>1. new["parts"] = call[q].name
          BY <3>1, <4>3
        <5> QED
          BY <1>1, <1>4, <2>4, <3>2, <4>1, <4>3, <5>1 DEF Visible, Shown
      <4> QED
        BY <1>4, <4>2, <4>3
    <3>4. t = Register!About(q)
      BY <1>t DEF Register!About, Target
    <3>5. q \notin Written /\ Written' = Written \cup {q}
      <4>1. q \notin Written /\ q \in Written'
        BY <1>1, <1>2, <1>7, <2>8 DEF Written
      <4>2. Written \subseteq Req /\ Written' \subseteq Req
        BY DEF Written
      <4> QED
        BY <1>2, <4>1, <4>2, OthersSee
    <3>6. \A r \in Req : Seen(r)' = Seen(r)
      BY <1>2, <1>3, OthersSee
    <3>7. call[q].op \in {"create", "rename"}
      BY <2>1, <2>8
    <3> QED
      BY <1>1, <1>2, <1>3, <1>5, <2>6, <3>3, <3>4, <3>5, <3>6, <3>7 DEF Register!Set
  <2> QED
    BY <2>7, <2>8
<1> QED
  BY <1>6, <1>7

\* The steps of the migration: no name changes, and no request.
LEMMA OperatorUnseen ==
    ASSUME UNCHANGED requests, \A r \in Row : Visible(r)' = Visible(r)
    PROVE  UNCHANGED Register!vars
<1> USE DEF requests
<1>1. \A q \in Req : Seen(q)' = Seen(q)
  BY DEF Seen, Shown
<1>2. Written' = Written
  BY DEF Written
<1> QED
  BY <1>1, <1>2, Unseen

\* A row that keeps the columns the phase reads, or that was there in one name.
LEMMA ColumnsStay ==
    ASSUME Inv, Careful, UNCHANGED <<requests, phase>>,
           \A r \in Row : table'[r] = None <=> table[r] = None,
           \A r \in Rows : \A c \in Reads[phase] : table'[r][c] = table[r][c]
    PROVE  UNCHANGED Register!vars
<1>1. Reads' = Reads /\ Reads[phase] \in {{"guest"}, {"parts"}}
  BY Footing DEF Reads
<1>2. ASSUME NEW r \in Row PROVE Visible(r)' = Visible(r)
  <2>1. CASE table[r] = None
    BY <2>1 DEF Visible
  <2>2. CASE table[r] # None /\ Reads[phase] = {"guest"}
    <3>1. table'[r]["guest"] = table[r]["guest"]
      BY <2>2 DEF Rows
    <3> QED
      BY <1>1, <2>2, <3>1 DEF Visible, Shown
  <2>3. CASE table[r] # None /\ Reads[phase] = {"parts"}
    <3>1. table'[r]["parts"] = table[r]["parts"]
      BY <2>3 DEF Rows
    <3> QED
      BY <1>1, <2>3, <3>1 DEF Visible, Shown
  <2> QED
    BY <1>1, <2>1, <2>2, <2>3
<1> QED
  BY <1>2, OperatorUnseen

LEMMA FillUnseen == ASSUME Inv, Careful, Fill PROVE UNCHANGED Register!vars
<1> DEFINE guest(r) == IF table[r].guest = None THEN Blank ELSE table[r].guest
           filled(r) == [table[r] EXCEPT !.parts = guest(r), !.version = @ + 1]
<1>1. /\ job.batch \subseteq Awaiting
      /\ table' = [r \in Row |-> IF r \in job.batch THEN filled(r) ELSE table[r]]
      /\ UNCHANGED <<requests, phase>>
  BY DEF Fill, Inv, RowLocks
<1>2. table \in [Row -> {None} \cup Record] /\ Ground
  BY Apart DEF Inv, TypeOK, SchemaTypes
<1>3. ASSUME NEW r \in job.batch
      PROVE  filled(r) # None /\ filled(r).guest = table[r].guest /\ r \in Rows /\ table[r].parts = None
  <2>1. table[r] \in Record /\ r \in Rows /\ table[r].parts = None
    BY <1>1, <1>2 DEF Awaiting, Rows
  <2>2. guest(r) \in Name \cup {Blank, None}
    BY <2>1 DEF Record
  <2> HIDE DEF guest
  <2>3. filled(r) \in Record /\ filled(r).guest = table[r].guest
    <3>1. table[r].version \in Nat /\ table[r].version + 1 \in Nat
      BY <2>1 DEF Record
    <3> QED
      BY <2>1, <2>2, <3>1 DEF Record
  <2> QED
    BY <2>1, <2>3, NameAssumption
<1> HIDE DEF filled, guest
<1>4. \A r \in Row : table'[r] = None <=> table[r] = None
  BY <1>1, <1>3 DEF Rows
<1>5. ASSUME NEW r \in Rows, NEW c \in Reads[phase] PROVE table'[r][c] = table[r][c]
  <2>1. CASE r \notin job.batch
    BY <1>1, <2>1 DEF Rows
  <2>2. CASE r \in job.batch
    <3>1. table[r][c] # None
      BY <1>2 DEF Ground, NamesThere
    <3>2. c = "guest"
      <4>1. table[r]["parts"] = None
        BY <1>3, <2>2
      <4> QED
        BY <3>1, <4>1, Footing
    <3> QED
      BY <1>1, <1>3, <2>2, <3>2 DEF Rows
  <2> QED
    BY <2>1, <2>2
<1> QED
  BY <1>1, <1>4, <1>5, ColumnsStay

LEMMA DropNameUnseen ==
    ASSUME Inv, Careful, DropName, UNCHANGED <<phase, requests>>
    PROVE  UNCHANGED Register!vars
<1>1. /\ contract.at # 0
      /\ table' = [r \in Row |-> IF r \in Rows THEN [table[r] EXCEPT !.guest = None] ELSE None]
  BY DEF DropName, Statement
<1>2. Reads[phase] = {"parts"} /\ table \in [Row -> {None} \cup Record]
  BY <1>1, ContractMeans DEF Inv, TypeOK, SchemaTypes
<1>3. ASSUME NEW r \in Rows
      PROVE  [table[r] EXCEPT !.guest = None] # None /\ [table[r] EXCEPT !.guest = None].parts = table[r].parts
  <2>1. table[r] \in Record
    BY <1>2 DEF Rows
  <2>2. [table[r] EXCEPT !.guest = None] \in Record
    BY <2>1 DEF Record
  <2> QED
    BY <2>1, <2>2, NameAssumption DEF Record
<1>4. \A r \in Row : table'[r] = None <=> table[r] = None
  BY <1>1, <1>3 DEF Rows
<1>5. \A r \in Rows : \A c \in Reads[phase] : table'[r][c] = table[r][c]
  <2>1. ASSUME NEW r \in Rows PROVE table'[r]["parts"] = table[r]["parts"]
    BY <1>1, <1>3 DEF Rows
  <2> QED
    BY <1>2, <2>1
<1> QED
  BY <1>4, <1>5, ColumnsStay

LEMMA DowngradeUnseen ==
    ASSUME Inv, Careful, Rules, Downgrade PROVE UNCHANGED Register!vars
<1>1. Now("downgrade") /\ UNCHANGED <<phase, requests>>
  BY DEF Downgrade
<1>2. /\ revision \in 1 .. 4 /\ phase \in Phase /\ table \in [Row -> {None} \cup Record] /\ Ground
  BY Apart DEF Inv, TypeOK, SchemaTypes
<1>3. CASE UNCHANGED table
  BY <1>1, <1>3, VisibleStays, OperatorUnseen
<1>4. CASE /\ Script[step].to < revision /\ revision # 3
           /\ revision' = revision - 1
           /\ table' = [r \in Row |-> IF r \in Rows THEN Downgraded(table[r]) ELSE None]
  <2>1. revision \in {2, 4} /\ revision' < revision
    BY <1>1, <1>2, <1>4, NowType
  <2>2. Serves(revision - 1, phase) /\ Serves(revision, phase)
    BY <1>2, <1>4, <2>1 DEF Rules, PhaseFirst, Ground
  <2>3. \A r \in Row : table'[r] = None <=> table[r] = None
    BY <1>2, <1>4, DowngradedType, NameAssumption DEF Rows
  <2>4. ASSUME NEW r \in Rows, NEW c \in Reads[phase] PROVE Downgraded(table[r])[c] = table[r][c]
    <3>1. table[r] \in Record /\ table[r][c] # None
      BY <1>2 DEF Ground, NamesThere, Rows
    <3>2. c \in Present(revision) /\ c \in Present(revision - 1) /\ c \in {"guest", "parts"}
      BY <2>2, Footing DEF Serves
    <3>3. CASE c = "guest"
      <4>1. revision # 4
        BY <3>2, <3>3 DEF Present
      <4>2. table[r].guest # None
        BY <3>1, <3>3
      <4>3. [table[r] EXCEPT !.parts = None].guest = table[r].guest
        BY <3>1 DEF Record
      <4> QED
        BY <3>3, <4>1, <4>2, <4>3 DEF Downgraded
    <3>4. CASE c = "parts"
      <4>1. revision = 4
        BY <2>1, <3>2, <3>4 DEF Present
      <4>2. Rewritten(table[r], Shown(table[r], {"parts"})).parts = table[r].parts
        BY <3>1 DEF Rewritten, Record
      <4> QED
        BY <3>4, <4>1, <4>2 DEF Downgraded
    <3> QED
      BY <3>2, <3>3, <3>4
  <2>5. \A r \in Rows : \A c \in Reads[phase] : table'[r][c] = table[r][c]
    BY <1>4, <2>4 DEF Rows
  <2> QED
    BY <1>1, <2>3, <2>5, ColumnsStay
<1>5. ~(Script[step].to >= revision) => Script[step].to < revision
  BY <1>1, <1>2, NowType
<1> QED
  BY <1>3, <1>4, <1>5 DEF Downgrade

\* A row that waits for its guest_name is one that the phase does not read it of.
LEMMA RestoreUnseen == ASSUME Inv, Careful, Restore PROVE UNCHANGED Register!vars
<1>1. rebuilt # None /\ UNCHANGED <<phase, requests>>
  BY DEF Restore
<1>2. /\ rebuilt \subseteq MissingLegacy /\ Ground
      /\ table \in [Row -> {None} \cup Record]
  BY <1>1, RebuiltMeans, Apart DEF Inv, TypeOK, SchemaTypes
<1>3. CASE UNCHANGED table
  BY <1>1, <1>3, VisibleStays, OperatorUnseen
<1> DEFINE refilled(r) == Rewritten(table[r], Shown(table[r], {"parts"}))
<1>4. CASE table' = [r \in Row |-> IF r \in rebuilt THEN refilled(r) ELSE table[r]]
  <2>1. ASSUME NEW r \in rebuilt
        PROVE  /\ r \in Rows /\ table[r]["guest"] = None
               /\ refilled(r) # None /\ refilled(r)["parts"] = table[r]["parts"]
    <3>1. r \in Rows /\ table[r] \in Record /\ table[r]["guest"] = None
      BY <1>2 DEF MissingLegacy, Rows
    <3>2. refilled(r) \in Record /\ refilled(r)["parts"] = table[r]["parts"]
      <4>1. /\ table[r].version \in Nat /\ table[r].version + 1 \in Nat
            /\ Shown(table[r], {"parts"}) \in Name \cup {Blank}
        BY <3>1 DEF Record, Shown
      <4> QED
        BY <3>1, <4>1 DEF Rewritten, Record
    <3> QED
      BY <3>1, <3>2, NameAssumption
  <2> HIDE DEF refilled
  <2>2. \A r \in Row : table'[r] = None <=> table[r] = None
    BY <1>4, <2>1 DEF Rows
  <2>3. ASSUME NEW r \in Rows, NEW c \in Reads[phase] PROVE table'[r][c] = table[r][c]
    <3>1. CASE r \notin rebuilt
      BY <1>4, <3>1 DEF Rows
    <3>2. CASE r \in rebuilt
      <4>1. table[r][c] # None
        BY <1>2 DEF Ground, NamesThere
      <4>2. c = "parts"
        BY <2>1, <3>2, <4>1, Footing
      <4> QED
        BY <1>4, <2>1, <3>2, <4>2 DEF Rows
    <3> QED
      BY <3>1, <3>2
  <2> QED
    BY <1>1, <2>2, <2>3, ColumnsStay
<1> QED
  BY <1>3, <1>4 DEF Restore

\* A phase that reads other columns, whose names agree, shows the same names.
LEMMA SwitchShows ==
    ASSUME table' = table, NEW p \in Phase, phase' = p, phase \in Phase,
           Reads[p] # Reads[phase] => Agreed
    PROVE  \A r \in Row : Visible(r)' = Visible(r)
<1>1. /\ Reads' = Reads /\ Reads[p] \in {{"guest"}, {"parts"}}
      /\ Reads[phase] \in {{"guest"}, {"parts"}}
  BY PhaseFacts DEF Reads
<1>2. CASE Reads[p] = Reads[phase]
  BY <1>1, <1>2 DEF Visible, Shown
<1>3. ASSUME Reads[p] # Reads[phase], NEW r \in Row PROVE Visible(r)' = Visible(r)
  <2>1. CASE table[r] = None
    BY <2>1 DEF Visible
  <2>2. CASE table[r] # None
    <3>1. table[r].guest # None /\ table[r].parts = table[r].guest
      BY <1>3, <2>2 DEF Agreed, Rows
    <3> QED
      BY <1>1, <2>2, <3>1 DEF Visible, Shown
  <2> QED
    BY <2>1, <2>2
<1> QED
  BY <1>2, <1>3

LEMMA SwitchUnseen == ASSUME Inv, Careful, Switch PROVE UNCHANGED Register!vars
<1>1. asked # None /\ phase' = asked /\ UNCHANGED <<table, requests>>
  BY DEF Switch
<1>2. Ground /\ asked \in Phase /\ phase \in Phase
  BY <1>1, Apart DEF Inv, TypeOK, SchemaTypes, OperatorTypes
<1>3. Reads[asked] # Reads[phase] => Agreed
  BY <1>1, <1>2 DEF Ground, Crossing
<1> QED
  BY <1>1, <1>2, <1>3, SwitchShows, OperatorUnseen

LEMMA OperateUnseen ==
    ASSUME Inv, Careful, Rules, Operate \/ LockTimeout \/ GiveUp
    PROVE  UNCHANGED Register!vars
<1>1. ASSUME UNCHANGED <<table, phase, requests>> PROVE UNCHANGED Register!vars
  BY <1>1, VisibleStays, OperatorUnseen
<1>2. CASE \/ Upgrade \/ Ask \/ TurnedDown \/ StartBackfill \/ TakeBatch \/ EndPass
           \/ LockTimeout \/ GiveUp
  BY <1>1, <1>2
     DEF Upgrade, Ask, TurnedDown, StartBackfill, TakeBatch, EndPass, LockTimeout, GiveUp, schema
<1>3. CASE Contract
  <2>1. UNCHANGED <<phase, requests>>
    BY <1>3 DEF Contract
  <2>2. CASE DropName
    BY <2>1, <2>2, DropNameUnseen
  <2>3. CASE AddCheck \/ Validate \/ SetNotNull \/ DropCheck
    BY <1>1, <2>1, <2>3 DEF AddCheck, Validate, SetNotNull, DropCheck
  <2> QED
    BY <1>3, <2>2, <2>3 DEF Contract
<1> QED
  BY <1>2, <1>3, DowngradeUnseen, RestoreUnseen, SwitchUnseen, FillUnseen DEF Operate

LEMMA RestartSeen == ASSUME Inv, Careful, Rules, Restart PROVE Register!Restart
<1>1. /\ restarts' = restarts + 1
      /\ pc' = [q \in Req |-> IF q \in Running THEN "lost" ELSE pc[q]]
      /\ vals' = [q \in Req |-> IF pc[q] \in {"insert", "update", "commit"} THEN None ELSE vals[q]]
      /\ UNCHANGED <<table, call, cols, got, reply>>
  BY DEF Restart
<1>2. PICK p \in Phase : p = phase' /\ (Reads[p] # Reads[phase] => Agreed)
  BY BackSafely
<1>3. \A r \in Row : Visible(r)' = Visible(r)
  BY <1>1, <1>2, SwitchShows DEF Inv, TypeOK, SchemaTypes
<1>4. ASSUME NEW q \in Req
      PROVE  /\ Seen(q)' = IF q \in Running THEN None ELSE Seen(q)
             /\ q \in Written' <=> q \in Written
  <2>1. /\ pc'[q] = IF q \in Running THEN "lost" ELSE pc[q]
        /\ vals'[q] = IF pc[q] \in {"insert", "update", "commit"} THEN None ELSE vals[q]
        /\ UNCHANGED <<call, cols, got, reply>>
        /\ Stage(q) /\ Payload(q)
    BY <1>1 DEF Inv, Stages
  <2>2. q \in Running => reply[q] = None
    BY <2>1 DEF Stage, Running, Over
  <2>3. Seen(q)' = IF q \in Running THEN None ELSE Seen(q)
    BY <2>1, <2>2 DEF Seen, Running, Over
  <2>4. pc[q] \in {"idle", "load", "edit", "update", "insert", "commit", "reload", "fetch",
                   "answer", "done", "lost"}
    BY DEF Inv, TypeOK, RequestTypes
  <2>5. q \in Written' <=> q \in Written
    BY <2>1, <2>4 DEF Written, Payload, Stage, Running, Over
  <2> QED
    BY <2>3, <2>5
<1>5. Written' = Written
  <2>1. Written \subseteq Req /\ Written' \subseteq Req
    BY DEF Written
  <2> QED
    BY <1>4, <2>1
<1>6. Running \in SUBSET Req
  BY DEF Running
<1> DEFINE S == Running
<1>7. \A q \in Req : Seen(q)' = IF q \in S THEN None ELSE Seen(q)
  BY <1>4
<1> HIDE DEF S
<1>8. [q \in Req |-> Seen(q)]' = [q \in Req |-> IF q \in S THEN None ELSE [r \in Req |-> Seen(r)][q]]
  BY <1>7
<1> QED
  BY <1>1, <1>3, <1>5, <1>6, <1>8 DEF Register!Restart, S

LEMMA InitSeen == ASSUME Init PROVE Register!Init
<1> DEFINE first(r) == [guest |-> Stored[r], parts |-> None, version |-> 0]
           Booked == UNION {{c.name} : c \in {d \in Call : d.op = "create"}}
<1>1. /\ phase = "legacy" /\ call = [q \in Req |-> None]
      /\ table = [r \in Row |-> IF r \in Seed THEN first(r) ELSE None]
      /\ \A q \in Req : pc[q] = "idle" /\ reply[q] = None /\ vals[q] = None
  BY DEF Init
<1>2. Reads[phase] = {"guest"}
  BY <1>1 DEF Reads, Phase
<1>3. ASSUME NEW n \in Name PROVE n \in Booked
  <2>1. [op |-> "create", name |-> n] \in Call /\ [op |-> "create", name |-> n].op = "create"
    BY DEF Call
  <2> QED
    BY <2>1
<1>4. ASSUME NEW r \in Row PROVE Visible(r) \in {None} \cup Booked
  <2>1. CASE r \in Seed
    <3>1. Stored[r] \in Booked
      BY <1>3, <2>1, NameAssumption
    <3>2. Visible(r) = None \/ Visible(r) = Stored[r]
      BY <1>1, <1>2, <2>1 DEF Visible, Shown
    <3> QED
      BY <3>1, <3>2
  <2>2. CASE r \notin Seed
    BY <1>1, <2>2 DEF Visible
  <2> QED
    BY <2>1, <2>2
<1> HIDE DEF Booked
<1>5. [r \in Row |-> Visible(r)] \in [Row -> {None} \cup Booked]
  BY <1>4
<1>6. Written = {}
  BY <1>1 DEF Written
<1>7. [q \in Req |-> Seen(q)] = [q \in Req |-> None]
  BY <1>1 DEF Seen
<1> QED
  BY <1>1, <1>5, <1>6, <1>7 DEF Register!Init, Booked

LEMMA StepSeen ==
    ASSUME Inv, Careful, [Next /\ Rules]_vars PROVE [Register!Next]_Register!vars
<1>1. ASSUME NEW q \in Req, Arrive(q) PROVE Register!Next
  BY <1>1, ArriveSeen DEF Register!Next
<1>2. ASSUME NEW q \in Req, Select(q) \/ Commit(q) \/ Answer(q)
      PROVE  Register!Next \/ UNCHANGED Register!vars
  BY <1>2, SelectSeen, CommitSeen, AnswerSeen DEF Register!Next
<1>3. ASSUME NEW q \in Req, Edit(q) \/ Insert(q) \/ Update(q) \/ Victim(q) \/ Reload(q)
      PROVE  Register!Next \/ UNCHANGED Register!vars
  <2>1. UNCHANGED <<schema, operator>>
    BY <1>3 DEF Edit, Insert, Update, Victim, Reload
  <2>2. /\ pc[q] \in {"edit", "insert", "update", "reload"}
        /\ pc \in [Req -> {"idle", "load", "edit", "update", "insert", "commit", "reload",
                          "fetch", "answer", "done", "lost"}]
        /\ vals \in [Req -> {None} \cup Values]
    BY <1>3 DEF Edit, Insert, Update, Victim, Reload, Inv, TypeOK, RequestTypes
  <2>3. ASSUME NEW code \in {400, 409, 500}, Fail(q, code), pc[q] \in {"insert", "update"}
        PROVE  Register!Next \/ UNCHANGED Register!vars
    BY <2>1, <2>3, FailSeen DEF Register!Next
  <2>4. CASE /\ OthersSame(q) /\ UNCHANGED <<call, got, reply>>
             /\ \/ pc[q] \in {"edit", "insert", "update"} /\ pc'[q] \in {"update", "commit"}
                \/ pc[q] = "reload" /\ pc'[q] = "fetch" /\ vals' = vals
    BY <2>1, <2>4, OnItsWay
  <2>5. CASE Edit(q)
    BY <2>2, <2>4, <2>5 DEF Edit, Goto, OthersSame
  <2>6. CASE Insert(q)
    BY <2>2, <2>3, <2>4, <2>6 DEF Insert, Goto, OthersSame
  <2>7. CASE Update(q)
    BY <2>2, <2>3, <2>4, <2>7 DEF Update, Goto, OthersSame
  <2>8. CASE Reload(q)
    BY <2>2, <2>4, <2>8 DEF Reload, Goto, OthersSame
  <2>9. CASE Victim(q)
    BY <2>3, <2>9 DEF Victim
  <2> QED
    BY <1>3, <2>5, <2>6, <2>7, <2>8, <2>9
<1>4. ASSUME Rules, Operate \/ LockTimeout \/ GiveUp PROVE UNCHANGED Register!vars
  BY <1>4, OperateUnseen
<1>5. ASSUME Rules, Restart PROVE Register!Next
  BY <1>5, RestartSeen DEF Register!Next
<1>6. CASE UNCHANGED vars
  <2>1. UNCHANGED <<table, phase, requests>>
    BY <1>6 DEF vars, requests
  <2> QED
    BY <2>1, VisibleStays, OperatorUnseen
<1>7. CASE Next /\ Rules
  BY <1>1, <1>2, <1>3, <1>4, <1>5, <1>7 DEF Next, Step
<1> QED
  BY <1>6, <1>7

-----------------------------------------------------------------------------

\* While a careful operator takes the schema from 0001 to 0004 or back and
\* through the phases, and the server restarts with an .env that is kept up to
\* date, whether its check of the schema gets an answer or not, and while the
\* downgrade of 0003 ends edits in errors, the API is a register of names
\* (docs/API_CONTRACT.md: "clients cannot tell the migration happened"): a name
\* changes when a booking or an edit commits it (app/services/reservations.py),
\* and at no step of app/migration.py, of Alembic or of the backfill, and an
\* answer carries a name that its reservation had while the request ran.
THEOREM ClientsCannotTellHolds == CarefulSpec => ClientsCannotTell
<1>1. Init => Register!Init
  BY InitSeen
<1>2. Inductive /\ [Next /\ Rules]_vars => [Register!Next]_Register!vars
  BY StepSeen DEF Inductive
<1>3. CarefulSpec => Init /\ [][Next /\ Rules]_vars
  BY PTL DEF CarefulSpec
<1> QED
  BY <1>1, <1>2, <1>3, CarefulHolds, PTL DEF ClientsCannotTell, Register!Spec

\* In a register, only Set changes names.
LEMMA OnlySetChanges ==
    ASSUME [Register!Next]_Register!vars, NEW r \in Row, Visible(r)' # Visible(r)
    PROVE  \E q \in Written' \ Written : Target(q)' = r /\ Visible(r)' = call[q].name
<1> DEFINE old == [s \in Row |-> Visible(s)]
           new == [s \in Row |-> Visible(s)']
<1>1. old[r] = Visible(r) /\ new[r] = Visible(r)' /\ old[r] # new[r]
  OBVIOUS
<1>2. old' = new
  OBVIOUS
<1> HIDE DEF old, new
<1>3. PICK q \in Req : Register!Set(q)
  BY <1>1, <1>2
     DEF Register!Next, Register!vars, Register!Begin, Register!See, Register!Forget, Register!Restart, old
<1>4. /\ q \in Written' \ Written
      /\ new = [old EXCEPT ![Target(q)] = call[q].name]
      /\ Target(q)' = Target(q)
  BY <1>2, <1>3 DEF Register!Set, Register!About, Target, old
<1>5. r = Target(q) /\ new[r] = call[q].name
  BY <1>1, <1>4 DEF old
<1> QED
  BY <1>1, <1>4, <1>5

\* And so a reservation shows another name only at the COMMIT of a request for
\* this reservation, and then the one this request asked for.
THEOREM OnlyClientsHold == CarefulSpec => OnlyClientsChangeNames
<1>1. Inductive /\ [Next /\ Rules]_vars
      => [\A r \in Row : Visible(r)' # Visible(r) =>
            \E q \in Written' \ Written : Target(q)' = r /\ Visible(r)' = call[q].name]_vars
  BY StepSeen, OnlySetChanges DEF Inductive
<1>2. CarefulSpec => [][Next /\ Rules]_vars
  BY PTL DEF CarefulSpec
<1> QED
  BY <1>1, <1>2, CarefulHolds, PTL DEF OnlyClientsChangeNames
=============================================================================
