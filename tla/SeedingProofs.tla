--------------------------- MODULE SeedingProofs ---------------------------
(***************************************************************************)
(* Theorems about Seeding: whatever the sizes, wherever the script dies    *)
(* and however often it is run.                                            *)
(***************************************************************************)
EXTENDS Seeding, FiniteSetTheorems, TLAPS

\* The names of the collections are three, and no other statement is one.
LEMMA CollectionNames ==
    /\ Collections = {"products", "reviews", "telemetry"}
    /\ \A c \in Collections : \E i \in 1 .. 3 : Collection[i] = c
<1>1. Collections = {Collection[i] : i \in 1 .. 3}
  BY DEF Collections, Collection, Range
<1>2. Collection[1] = "products" /\ Collection[2] = "reviews" /\ Collection[3] = "telemetry"
  BY DEF Collection
<1> QED
  BY <1>1, <1>2

\* The ids that a sequence gives are as many as were asked for.
LEMMA Ids ==
    ASSUME NEW s \in Nat, NEW n \in Size
    PROVE  Cardinality(s .. s + n - 1) = n
<1>1. s \in Int /\ s + n - 1 \in Int /\ s <= s + n - 1
  BY DEF Size
<1>2. Cardinality(s .. s + n - 1) = (s + n - 1) - s + 1
  BY <1>1, FS_Interval
<1> QED
  BY <1>2 DEF Size

\* Nothing is drawn and nothing ordered in an empty database.
LEMMA EmptyDb == Fitting(Empty) /\ References(Empty)
<1>1. Record(Empty) /\ Drawn(Empty) /\ Ordered(Empty)
  BY DEF Record, Drawn, Ordered, Empty
<1>2. References(Empty)
  BY DEF References, Empty
<1> QED
  BY <1>1, <1>2 DEF Fitting

\* The initial state satisfies the invariant.
LEMMA InitInv == Init => Inv
<1> SUFFICES ASSUME Init PROVE Inv
  OBVIOUS
<1> USE CollectionNames DEF Init
<1>1. TypeOK
  <2>1. References(pg) /\ References(rows)
    BY EmptyDb
  <2>2. runs \in 0 .. MaxRuns
    BY SizeAssumption DEF Size
  <2> QED
    <3>1. sequence \in Size
      BY DEF Size
    <3> QED
      BY <2>1, <2>2, <3>1 DEF TypeOK
<1>2. Inserted
  BY EmptyDb DEF Inserted
<1>3. Documents /\ NoDocumentTwice
  BY DEF Documents, Bare, NoDocumentTwice
<1>4. Mended /\ AllOrNothing /\ ResetMendsEverything
  BY DEF Mended, AllOrNothing, ResetMendsEverything
<1> QED
  BY <1>1, <1>2, <1>3, <1>4 DEF Inv

-----------------------------------------------------------------------------
(* Runs, and how they end.                                                 *)

\* A step that leaves the documents and does not end their writing.
LEMMA NoDocuments ==
    ASSUME Inv, UNCHANGED mongo, pc' \notin {"reviews", "telemetry", "check"}
    PROVE  Documents' /\ NoDocumentTwice'
  BY DEF Inv, Documents, NoDocumentTwice, OidOf

LEMMA RunInv == ASSUME Inv, Run PROVE Inv'
<1> USE CollectionNames DEF Run, At
<1>1. TypeOK'
  BY SizeAssumption DEF Inv, TypeOK, Size, References
<1>2. Inserted'
  BY DEF Inv, Inserted, Fitting, Record, Drawn, Ordered, Keys
<1>3. Documents' /\ NoDocumentTwice'
  BY NoDocuments
<1>4. Mended'
  BY DEF Inv, Mended
<1>5. AllOrNothing' /\ ResetMendsEverything'
  BY DEF Inv, AllOrNothing, ResetMendsEverything
<1> QED
  BY <1>1, <1>2, <1>3, <1>4, <1>5 DEF Inv

LEMMA VerifyInv == ASSUME Inv, Verify PROVE Inv'
<1> USE CollectionNames DEF Verify, At
<1>1. TypeOK'
  BY SizeAssumption DEF Inv, TypeOK, Size, References
<1>2. Inserted'
  BY DEF Inv, Inserted, Fitting, Record, Drawn, Ordered, Keys
<1>3. Documents' /\ NoDocumentTwice'
  BY NoDocuments
<1>4. Mended'
  BY DEF Inv, Mended
<1>5. AllOrNothing' /\ ResetMendsEverything'
  BY DEF Inv, AllOrNothing, ResetMendsEverything
<1> QED
  BY <1>1, <1>2, <1>3, <1>4, <1>5 DEF Inv

LEMMA TruncateInv == ASSUME Inv, Truncate PROVE Inv'
<1> USE CollectionNames DEF Truncate, At, Then
<1>1. TypeOK'
  <2>1. References(Empty)'
    BY DEF References, Empty
  <2> QED
    BY <2>1 DEF Inv, TypeOK, References, Size
<1>2. Inserted'
  <2>1. Fitting(Empty)'
    BY EmptyDb DEF Fitting, Record, Drawn, Ordered, Keys
  <2> QED
    BY <2>1 DEF Inv, Inserted, Fitting, Record, Drawn, Ordered, Keys
<1>3. Documents' /\ NoDocumentTwice'
  BY NoDocuments
<1>4. Mended'
  BY DEF Inv, Mended
<1>5. AllOrNothing' /\ ResetMendsEverything'
  BY DEF Inv, Mended, AllOrNothing, ResetMendsEverything
<1> QED
  BY <1>1, <1>2, <1>3, <1>4, <1>5 DEF Inv

LEMMA CountInv == ASSUME Inv, Count PROVE Inv'
<1> USE CollectionNames DEF Count, At, Then, Exit
<1>1. TypeOK'
  BY DEF Inv, TypeOK, References
<1>2. Inserted'
  <2>1. pc' = "users" => pg = Empty
    BY SizeAssumption DEF Inv, TypeOK, References, Mended, AllOrNothing, Size
  <2> QED
    BY <2>1 DEF Inv, Inserted, Fitting, Record, Drawn, Ordered, Keys
<1>3. Documents' /\ NoDocumentTwice'
  BY NoDocuments
<1>4. Mended'
  BY DEF Inv, Mended
<1>5. AllOrNothing' /\ ResetMendsEverything'
  BY DEF Inv, Mended, AllOrNothing, ResetMendsEverything
<1> QED
  BY <1>1, <1>2, <1>3, <1>4, <1>5 DEF Inv

LEMMA CheckInv == ASSUME Inv, Check PROVE Inv'
<1> USE CollectionNames DEF Check, At, Exit
<1>1. TypeOK'
  BY DEF Inv, TypeOK, References
<1>2. Inserted'
  BY DEF Inv, Inserted, Fitting, Record, Drawn, Ordered, Keys
<1>3. Documents' /\ NoDocumentTwice'
  BY NoDocuments
<1>4. Mended'
  BY DEF Inv, Mended
<1>5. AllOrNothing'
  BY DEF Inv, AllOrNothing
<1>6. ResetMendsEverything'
  <2>1. SUFFICES ASSUME reset PROVE ResetMendsEverything'
    BY DEF ResetMendsEverything
  <2> QED
    BY <2>1 DEF Inv, ResetMendsEverything, AllOrNothing
<1> QED
  BY <1>1, <1>2, <1>3, <1>4, <1>5, <1>6 DEF Inv

-----------------------------------------------------------------------------
(* The transaction on PostgreSQL.                                          *)

\* The statements of the transaction: nothing is committed, no run ends, and the
\* documents stay.
LEMMA InTransaction ==
    ASSUME Inv, UNCHANGED <<pg, mongo, reset, exit>>, pc # "idle", pc # "truncate", pc # "delete",
           pc' \in {"restaurants", "tables", "reservations", "orders"}
    PROVE  /\ Documents' /\ NoDocumentTwice' /\ AllOrNothing' /\ ResetMendsEverything'
           /\ reset => \A c \in Collections : \A d \in mongo[c] :
                          d.restaurant \in (1 .. NRestaurants) \cup {None}
  BY NoDocuments, CollectionNames DEF Inv, Mended, AllOrNothing, ResetMendsEverything

LEMMA UsersInv == ASSUME Inv, Users PROVE Inv'
<1> USE CollectionNames DEF Users, At, Then
<1>1. TypeOK'
  BY DEF Inv, TypeOK, References, Inserted, Fitting, Record
<1>2. Inserted'
  BY DEF Inv, Inserted, Fitting, Record, Drawn, Ordered, Keys, Empty
<1>3. Mended'
  BY InTransaction DEF Inv, Mended
<1> QED
  BY <1>1, <1>2, <1>3, InTransaction DEF Inv

LEMMA RestaurantsInv == ASSUME Inv, Restaurants PROVE Inv'
<1> USE CollectionNames DEF Restaurants, At, Then
<1>1. /\ sequence \in Nat /\ sequence >= 1
      /\ NRestaurants \in Nat /\ NRestaurants >= 1 /\ sequence' = sequence + NRestaurants
  <2>1. sequence \in Size /\ NRestaurants \in Size
    BY SizeAssumption DEF Inv, TypeOK
  <2> QED
    BY <2>1 DEF Size
<1>2. TypeOK'
  <2>1. rows' = [users |-> NUsers, restaurants |-> sequence .. sequence + NRestaurants - 1,
                 tables |-> {}, reservations |-> <<>>, orders |-> <<>>]
    <3>1. /\ rows.users = NUsers /\ rows.restaurants = {} /\ rows.tables = {}
          /\ rows.reservations = <<>> /\ rows.orders = <<>>
      BY DEF Inv, Inserted
    <3> QED
      BY <3>1 DEF Inv, Inserted, Fitting, Record
  <2>2. References(rows)'
    <3> HIDE DEF Restaurants, Then, At
    <3>1. sequence .. sequence + NRestaurants - 1 \subseteq 1 .. sequence' - 1
      BY <1>1
    <3>2. DOMAIN <<>> = {}
      OBVIOUS
    <3> QED
      BY <2>1, <3>1, <3>2 DEF References
  <2>3. References(pg)'
    <3>1. 1 .. sequence - 1 \subseteq 1 .. sequence' - 1
      BY <1>1
    <3> QED
      BY <3>1 DEF Inv, TypeOK, References
  <2>4. sequence' \in Size
    BY <1>1 DEF Size
  <2> QED
    BY <2>2, <2>3, <2>4 DEF Inv, TypeOK
<1>3. Inserted'
  <2>1. /\ rows.users = NUsers /\ rows.tables = {} /\ rows.reservations = <<>>
        /\ rows.orders = <<>> /\ Record(rows) /\ Fitting(pg) /\ pg = Empty
    BY DEF Inv, Inserted, Fitting
  <2>2. rows' = [users |-> NUsers, restaurants |-> sequence .. sequence + NRestaurants - 1,
                 tables |-> {}, reservations |-> <<>>, orders |-> <<>>]
    BY <2>1 DEF Record
  <2>3. Cardinality(sequence .. sequence + NRestaurants - 1) = NRestaurants
    BY <1>1, Ids DEF Size
  <2>4. Fitting(rows)'
    <3>1. DOMAIN <<>> = {}
      OBVIOUS
    <3>2. Record(rows)'
      BY <2>2 DEF Record
    <3>3. DOMAIN rows'.reservations = {} /\ DOMAIN rows'.orders = {}
      BY <2>2, <3>1
    <3>4. Drawn(rows)'
      BY <3>3 DEF Drawn
    <3>5. Ordered(rows)'
      BY <3>3 DEF Ordered
    <3> QED
      BY <3>2, <3>4, <3>5 DEF Fitting
  <2>5. Fitting(pg)' /\ pg' = Empty /\ pc' = "tables"
    BY <2>1
  <2> QED
    BY <2>2, <2>3, <2>4, <2>5 DEF Inserted
<1>4. Mended'
  BY InTransaction, SizeAssumption DEF Inv, Mended, Inserted, Fitting, Record, Size
<1> QED
  BY <1>2, <1>3, <1>4, InTransaction DEF Inv

LEMMA TablesInv == ASSUME Inv, Tables PROVE Inv'
<1> USE CollectionNames DEF Tables, At, Then
<1>1. TypeOK'
  BY DEF Inv, TypeOK, References, Inserted, Fitting, Record
<1>2. Inserted'
  BY DEF Inv, Inserted, Fitting, Record, Drawn, Ordered, Keys
<1>3. Mended'
  BY InTransaction DEF Inv, Mended, Inserted, Fitting, Record
<1> QED
  BY <1>1, <1>2, <1>3, InTransaction DEF Inv

\* What is drawn: keys of the tables there are, each once.
LEMMA DrawnOnce ==
    ASSUME NEW T, NEW f \in Draws(T)
    PROVE  \A i, j \in DOMAIN f : f[i] \in Keys(T) /\ (f[i] = f[j] => i = j)
<1>1. PICK k \in 0 .. NReservations : f \in Injection(1 .. k, Keys(T))
  BY DEF Draws
<1> QED
  BY <1>1 DEF Injection, IsInjective

LEMMA ReservationsInv == ASSUME Inv, Reservations PROVE Inv'
<1> USE CollectionNames DEF Reservations, At, Then
<1>1. PICK f \in Draws(rows.tables) : rows' = [rows EXCEPT !.reservations = f]
  OBVIOUS
<1>2. rows' = [users |-> rows.users, restaurants |-> rows.restaurants, tables |-> rows.tables,
               reservations |-> f, orders |-> rows.orders]
  BY <1>1 DEF Inv, Inserted, Fitting, Record
<1>3. \A i, j \in DOMAIN f : f[i] \in Keys(rows.tables) /\ (f[i] = f[j] => i = j)
  BY <1>1, DrawnOnce
<1>4. TypeOK'
  BY <1>2, <1>3 DEF Inv, TypeOK, References, Keys
<1>5. Inserted'
  BY <1>2, <1>3 DEF Inv, Inserted, Fitting, Record, Drawn, Ordered, Keys
<1>6. Mended'
  BY <1>2, InTransaction DEF Inv, Mended
<1> QED
  BY <1>4, <1>5, <1>6, InTransaction DEF Inv

LEMMA OrdersInv == ASSUME Inv, Orders PROVE Inv'
<1> USE CollectionNames DEF Orders, At, Then
<1>1. PICK f \in [1 .. NOrders -> [restaurant : rows.restaurants, items : Items]] :
         rows' = [rows EXCEPT !.orders = f]
  OBVIOUS
<1>2. rows' = [users |-> rows.users, restaurants |-> rows.restaurants, tables |-> rows.tables,
               reservations |-> rows.reservations, orders |-> f]
  BY <1>1 DEF Inv, Inserted, Fitting, Record
<1>3. TypeOK'
  BY <1>1, <1>2 DEF Inv, TypeOK, References
<1>4. pg' # Empty
  BY <1>2, SizeAssumption DEF Inv, Inserted, Empty, Size
<1>5. Inserted'
  <2>1. ASSUME NEW i \in 1 .. NOrders, NEW j \in DOMAIN f[i].items
        PROVE  f[i].items[j] \in 0 .. NProducts - 1
    <3>1. f[i] \in [restaurant : rows.restaurants, items : Items]
      BY <1>1
    <3>2. PICK k \in 1 .. ItemsPer : f[i].items \in [1 .. k -> 0 .. NProducts - 1]
      BY <3>1 DEF Items
    <3> QED
      BY <3>2
  <2>2. rows'.orders = f /\ DOMAIN f = 1 .. NOrders /\ pg' = rows'
    BY <1>1, <1>2
  <2>3. Ordered(rows')
    BY <2>1, <2>2 DEF Ordered
  <2>4. Record(rows') /\ (Drawn(rows))'
    BY <1>2 DEF Inv, Inserted, Fitting, Record, Drawn, Keys
  <2>5. Fitting(pg)' /\ Fitting(rows)'
    <3>1. (Ordered(rows))' /\ (Record(rows))'
      BY <2>3, <2>4 DEF Ordered, Record
    <3> QED
      BY <2>2, <2>4, <3>1 DEF Fitting, Record, Drawn, Ordered, Keys
  <2> QED
    BY <1>4, <2>2, <2>5 DEF Inserted
<1>6. Documents' /\ NoDocumentTwice'
  BY NoDocuments
<1>7. Mended'
  BY <1>2 DEF Inv, Mended
<1>8. AllOrNothing'
  BY <1>2 DEF Inv, Inserted, AllOrNothing
<1>9. ResetMendsEverything'
  BY DEF Inv, Mended, ResetMendsEverything
<1> QED
  BY <1>3, <1>5, <1>6, <1>7, <1>8, <1>9 DEF Inv

-----------------------------------------------------------------------------
(* The documents of MongoDB.                                               *)

\* A step that leaves PostgreSQL.
LEMMA SamePg ==
    ASSUME Inv, UNCHANGED <<pg, rows, sequence>>
    PROVE  /\ References(pg)' /\ References(rows)' /\ Fitting(pg)' /\ Fitting(rows)'
           /\ AllOrNothing'
  BY DEF Inv, TypeOK, References, Inserted, Fitting, Record, Drawn, Ordered, Keys, AllOrNothing

LEMMA DeleteInv == ASSUME Inv, Delete PROVE Inv'
<1> USE CollectionNames DEF Delete, At, Then
<1>1. /\ mongo' = [c \in Collections |-> mongo'[c]]
      /\ \A c \in Collections : mongo'[c] \in {mongo[c], {}}
  BY DEF Inv, Documents
<1>2. pc' = "count" => \A c \in Collections : mongo'[c] = {}
  OBVIOUS
<1>3. pc' \in {"delete", "count"}
  OBVIOUS
<1>4. TypeOK'
  BY <1>3, SamePg DEF Inv, TypeOK
<1>5. Inserted'
  BY <1>3, SamePg DEF Inv, Inserted
<1>6. Documents' /\ NoDocumentTwice'
  BY <1>1, <1>3 DEF Inv, Documents, NoDocumentTwice, OidOf
<1>7. Mended'
  BY <1>2, <1>3 DEF Inv, Mended
<1>8. ResetMendsEverything'
  BY DEF Inv, Mended, ResetMendsEverything
<1> QED
  BY <1>4, <1>5, <1>6, <1>7, <1>8, SamePg DEF Inv

\* The documents of a collection: one for each number, with the _id and a
\* restaurant that goes with it.
LEMMA DocsAre ==
    ASSUME NEW c \in Collections, NEW D \in Docs(c)
    PROVE  /\ \A d \in D : d.id = OidOf(d.n) /\ d.restaurant \in (1 .. NRestaurants) \cup {None}
           /\ \A d, e \in D : d.n = e.n => d = e
           /\ c = "products" => \A n \in 0 .. NProducts - 1 : \E d \in D : d.n = n
<1> DEFINE size == CASE c = "products" -> NProducts [] c = "reviews" -> NReviews
                     [] OTHER -> NTelemetry
           doc(n, r) == [id |-> OidOf(n), n |-> n, restaurant |-> r]
<1>1. size \in Size /\ (c = "products" => size = NProducts)
  BY SizeAssumption
<1>2. ASSUME NEW n \in 0 .. size - 1
      PROVE  (n % NRestaurants) + 1 \in 1 .. NRestaurants
  <2>1. n \in Nat /\ NRestaurants \in Nat /\ NRestaurants > 0
    BY <1>1, SizeAssumption DEF Size
  <2> HIDE DEF size
  <2> QED
    BY <2>1
<1>3. CASE c = "telemetry"
  <2>1. PICK f \in [0 .. size - 1 -> (1 .. NRestaurants) \cup {None}] :
           D = {doc(n, f[n]) : n \in 0 .. size - 1}
    BY <1>3 DEF Docs
  <2> QED
    BY <1>3, <2>1 DEF OidOf
<1>4. CASE c # "telemetry"
  <2> DEFINE own(n) == (n % NRestaurants) + 1
  <2>1. D = {doc(n, own(n)) : n \in 0 .. size - 1}
    BY <1>4 DEF Docs
  <2>2. \A n \in 0 .. size - 1 : own(n) \in 1 .. NRestaurants
    BY <1>2
  <2> HIDE DEF own, size
  <2>3. \A d \in D : d.n \in 0 .. size - 1 /\ d = doc(d.n, own(d.n))
    BY <2>1
  <2>4. ASSUME NEW n \in 0 .. size - 1 PROVE \E d \in D : d.n = n
    <3>1. doc(n, own(n)) \in D /\ doc(n, own(n)).n = n
      BY <2>1
    <3> QED
      BY <3>1
  <2> QED
    BY <1>1, <2>2, <2>3, <2>4 DEF OidOf
<1> QED
  BY <1>3, <1>4

\* Some documents of a collection are upserted, or some of it are deleted: no
\* document is there twice, and a reset stays one.
LEMMA Written ==
    ASSUME Inv, NEW c \in Collections, NEW S,
           mongo' = [mongo EXCEPT ![c] = S],
           \/ S \subseteq mongo[c]
           \/ \E D \in Docs(c) : \E T \in SUBSET D : S = Upserted(mongo[c], T)
    PROVE  /\ mongo' = [x \in Collections |-> mongo'[x]]
           /\ mongo'[c] = S /\ \A x \in Collections \ {c} : mongo'[x] = mongo[x]
           /\ \A x \in Collections : \A d \in mongo'[x] : d.id = OidOf(d.n)
           /\ NoDocumentTwice'
           /\ (reset /\ pc \notin {"idle", "truncate", "delete"}) =>
                \A x \in Collections : \A d \in mongo'[x] :
                   d.restaurant \in (1 .. NRestaurants) \cup {None}
<1>1. /\ mongo' = [x \in Collections |-> mongo'[x]]
      /\ mongo'[c] = S
      /\ \A x \in Collections \ {c} : mongo'[x] = mongo[x]
  BY DEF Inv, Documents
<1>2. CASE S \subseteq mongo[c]
  <2>1. \A x \in Collections : mongo'[x] \subseteq mongo[x]
    BY <1>1, <1>2
  <2>2. NoDocumentTwice'
    BY <2>1 DEF Inv, NoDocumentTwice
  <2> QED
    BY <1>1, <2>1, <2>2 DEF Inv, Documents, Mended
<1>3. ASSUME NEW D \in Docs(c), NEW T \in SUBSET D, S = Upserted(mongo[c], T)
      PROVE  /\ \A d \in S : d.id = OidOf(d.n)
             /\ \A d, e \in S : d.n = e.n => d = e
             /\ \A d \in S : d \in mongo[c] \/ d.restaurant \in (1 .. NRestaurants) \cup {None}
  <2>1. \A d \in S : d \in mongo[c] \/ d \in T
    BY <1>3 DEF Upserted
  <2>2. \A d \in T : d.id = OidOf(d.n) /\ d.restaurant \in (1 .. NRestaurants) \cup {None}
    BY DocsAre
  <2>3. \A d \in mongo[c] : d.id = OidOf(d.n)
    BY DEF Inv, Documents
  <2>4. \A d, e \in T : d.n = e.n => d = e
    BY DocsAre
  <2>5. \A d, e \in mongo[c] : d.n = e.n => d = e
    BY DEF Inv, NoDocumentTwice
  <2>6. \A d \in S : d \notin T => d \in mongo[c] /\ \A e \in T : e.id # d.id
    BY <1>3 DEF Upserted
  <2>7. ASSUME NEW d \in S, NEW e \in S, d.n = e.n PROVE d = e
    <3>1. d \in T <=> e \in T
      BY <2>1, <2>2, <2>3, <2>6, <2>7
    <3> QED
      BY <2>1, <2>4, <2>5, <2>7, <3>1
  <2> QED
    BY <2>1, <2>2, <2>3, <2>7
<1>4. CASE \E D \in Docs(c) : \E T \in SUBSET D : S = Upserted(mongo[c], T)
  <2>1. /\ \A d \in S : d.id = OidOf(d.n)
        /\ \A d, e \in S : d.n = e.n => d = e
        /\ \A d \in S : d \in mongo[c] \/ d.restaurant \in (1 .. NRestaurants) \cup {None}
    BY <1>3, <1>4
  <2>2. NoDocumentTwice'
    BY <1>1, <2>1 DEF Inv, NoDocumentTwice
  <2> QED
    BY <1>1, <2>1, <2>2 DEF Inv, Documents, Mended
<1> QED
  BY <1>2, <1>4

LEMMA FillInv ==
    ASSUME Inv, NEW c \in Collections, NEW next,
           <<c, next>> \in {<<"products", "reviews">>, <<"reviews", "telemetry">>,
                            <<"telemetry", "check">>},
           Fill(c, next)
    PROVE  Inv'
<1> USE CollectionNames DEF Fill, At, Then
<1>1. PICK D \in Docs(c) : mongo' = [mongo EXCEPT ![c] = Upserted(@, D)]
  OBVIOUS
<1> DEFINE S == Upserted(mongo[c], D)
<1>2. mongo' = [mongo EXCEPT ![c] = S] /\ \E E \in Docs(c) : \E T \in SUBSET E : S = Upserted(mongo[c], T)
  BY <1>1
<1> HIDE DEF S
<1>3. /\ mongo' = [x \in Collections |-> mongo'[x]]
      /\ mongo'[c] = S
      /\ \A x \in Collections \ {c} : mongo'[x] = mongo[x]
      /\ \A x \in Collections : \A d \in mongo'[x] : d.id = OidOf(d.n)
      /\ NoDocumentTwice'
      /\ reset => \A x \in Collections : \A d \in mongo'[x] :
                    d.restaurant \in (1 .. NRestaurants) \cup {None}
  BY <1>2, Written
<1>4. TypeOK'
  BY SamePg DEF Inv, TypeOK
<1>5. Inserted'
  BY SamePg DEF Inv, Inserted
<1>6. Documents'
  <2>1. \A n \in 0 .. NProducts - 1 : \E d \in mongo'["products"] : d.n = n
    <3>1. CASE c = "products"
      BY <1>3, <3>1, DocsAre DEF S, Upserted
    <3>2. CASE c # "products"
      BY <1>3, <3>2 DEF Inv, Documents
    <3> QED
      BY <3>1, <3>2
  <2> QED
    BY <1>3, <2>1 DEF Documents, OidOf
<1>7. Mended'
  BY <1>3 DEF Inv, Mended
<1>8. ResetMendsEverything'
  <2>1. SUFFICES ASSUME reset, next = "check" PROVE ResetMendsEverything'
    BY DEF Inv, Mended, ResetMendsEverything
  <2>2. pg # Empty /\ pg.restaurants = 1 .. NRestaurants
    BY <2>1 DEF Inv, Inserted, Mended
  <2>3. \A x \in Collections : \A d \in mongo'[x] : d.restaurant \in pg.restaurants \cup {None}
    BY <1>3, <2>1, <2>2
  <2>4. \A i \in DOMAIN pg.orders : \A j \in DOMAIN pg.orders[i].items :
          \E d \in mongo'["products"] : d.n = pg.orders[i].items[j]
    BY <1>6, <2>1 DEF Inv, Inserted, Fitting, Ordered, Documents
  <2> QED
    BY <2>2, <2>3, <2>4, SamePg DEF ResetMendsEverything
<1> QED
  BY <1>3, <1>4, <1>5, <1>6, <1>7, <1>8, SamePg DEF Inv

LEMMA DieInv == ASSUME Inv, Die PROVE Inv'
<1> USE CollectionNames DEF Die, At
<1>1. TypeOK'
  BY DEF Inv, TypeOK, References
<1>2. Inserted'
  BY DEF Inv, Inserted, Fitting, Record, Drawn, Ordered, Keys
<1> DEFINE Halves == /\ mongo' = [x \in Collections |-> mongo'[x]]
                     /\ \A x \in Collections : \A d \in mongo'[x] : d.id = OidOf(d.n)
                     /\ NoDocumentTwice'
<1>3. Halves
  <2>1. CASE mongo' = mongo
    BY <2>1 DEF Inv, Documents, NoDocumentTwice
  <2>2. ASSUME NEW c \in Collections, NEW D \in Docs(c), NEW T \in SUBSET D,
               mongo' = [mongo EXCEPT ![c] = Upserted(@, T)]
        PROVE  Halves
    BY <2>2, Written
  <2>3. ASSUME NEW c \in Collections, NEW S \in SUBSET mongo[c],
               mongo' = [mongo EXCEPT ![c] = S]
        PROVE  Halves
    BY <2>3, Written
  <2>4. mongo' \in Halfway
    OBVIOUS
  <2>5. CASE pc \in Collections
    <3>1. PICK S \in UNION {SUBSET D : D \in Docs(pc)} : mongo' = [mongo EXCEPT ![pc] = Upserted(@, S)]
      BY <2>4, <2>5 DEF Halfway
    <3>2. PICK D \in Docs(pc) : S \in SUBSET D
      BY <3>1
    <3> QED
      BY <2>2, <2>5, <3>1, <3>2
  <2>6. CASE pc = "delete"
    <3> DEFINE full == {i \in 1 .. 3 : mongo[Collection[i]] # {}}
               m == Min(full)
    <3>1. CASE full = {}
      BY <2>1, <2>4, <2>6, <3>1 DEF Halfway
    <3>2. CASE full # {}
      <4>1. m \in 1 .. 3
        BY <3>2 DEF Min
      <4>2. Collection[m] \in Collections
        BY <4>1 DEF Collection
      <4>3. PICK S \in SUBSET mongo[Collection[m]] : mongo' = [mongo EXCEPT ![Collection[m]] = S]
        BY <2>4, <2>6, <3>2 DEF Halfway
      <4> QED
        BY <2>3, <4>2, <4>3
    <3> QED
      BY <3>1, <3>2
  <2> QED
    BY <2>1, <2>4, <2>5, <2>6 DEF Halfway
<1>4. Documents'
  BY <1>3 DEF Documents, OidOf
<1>5. Mended'
  BY DEF Inv, Mended
<1>6. AllOrNothing' /\ ResetMendsEverything'
  BY DEF Inv, AllOrNothing, ResetMendsEverything
<1> QED
  BY <1>1, <1>2, <1>3, <1>4, <1>5, <1>6 DEF Inv

-----------------------------------------------------------------------------
(* The theorems.                                                           *)

\* Every step preserves the invariant.
LEMMA NextInv == Inv /\ [Next]_vars => Inv'
<1> SUFFICES ASSUME Inv, [Next]_vars PROVE Inv'
  OBVIOUS
<1>1. CASE Run
  BY <1>1, RunInv
<1>2. CASE Verify
  BY <1>2, VerifyInv
<1>3. CASE Truncate \/ Delete \/ Count
  BY <1>3, TruncateInv, DeleteInv, CountInv
<1>4. CASE Users \/ Restaurants \/ Tables \/ Reservations \/ Orders
  BY <1>4, UsersInv, RestaurantsInv, TablesInv, ReservationsInv, OrdersInv
<1>5. CASE SeedMongo
  BY <1>5, FillInv, CollectionNames DEF SeedMongo
<1>6. CASE Check \/ Die
  BY <1>6, CheckInv, DieInv
<1>7. CASE UNCHANGED vars
  BY <1>7 DEF vars, Inv, TypeOK, References, Inserted, Fitting, Record, Drawn, Ordered, Keys,
              Documents, OidOf, Mended, AllOrNothing, NoDocumentTwice, ResetMendsEverything
<1> QED
  BY <1>1, <1>2, <1>3, <1>4, <1>5, <1>6, <1>7 DEF Next, Step

\* The inductive invariant holds: what each statement of the script may rely on,
\* however often the script has died (scripts/seed.py).
THEOREM InvHolds == Spec => []Inv
<1> QED
  BY InitInv, NextInv, PTL DEF Spec

\* Wherever the script dies, PostgreSQL is empty or holds all of its rows: they
\* are one transaction (seed_postgres, session.commit).
THEOREM AllOrNothingHolds == Spec => []AllOrNothing
<1>1. Inv => AllOrNothing
  BY DEF Inv
<1> QED
  BY <1>1, InvHolds, PTL

\* However often the script has run, no document is there twice (stable_oid and
\* the upserts of seed_mongo).
THEOREM NoDocumentTwiceHolds == Spec => []NoDocumentTwice
<1>1. Inv => NoDocumentTwice
  BY DEF Inv
<1> QED
  BY <1>1, InvHolds, PTL

\* A run with --reset that comes to its check, and so one that ends well, mends
\* what earlier runs have left, broken writes of collections included
\* (reset_postgres with RESTART IDENTITY, reset_mongo).
THEOREM ResetMends == Spec => []ResetMendsEverything
<1>1. Inv => ResetMendsEverything
  BY DEF Inv
<1> QED
  BY <1>1, InvHolds, PTL

\* The windows of two slots of one table do not overlap unless they are one.
LEMMA WindowsApart ==
    ASSUME NEW s, NEW t, s.day \in Int, t.day \in Int, s.slot \in 0 .. 5, t.slot \in 0 .. 5,
           Window(s)[1] < Window(t)[2], Window(t)[1] < Window(s)[2]
    PROVE  s.day = t.day /\ s.slot = t.slot
<1> DEFINE a == StartsAt[s.slot]
           b == StartsAt[t.slot]
<1>1. \A n \in 0 .. 5 : StartsAt[n] \in {1020, 1110, 1200, 1290, 720, 810}
  BY DEF StartsAt
<1>2. a = b => s.slot = t.slot
  BY DEF StartsAt
<1>3. a \in {1020, 1110, 1200, 1290, 720, 810} /\ b \in {1020, 1110, 1200, 1290, 720, 810}
  BY <1>1
<1>4. /\ s.day * 1440 + a < t.day * 1440 + b + 90
      /\ t.day * 1440 + b < s.day * 1440 + a + 90
  BY DEF Window
<1> HIDE DEF a, b
<1>5. s.day = t.day /\ a = b
  BY <1>3, <1>4
<1> QED
  BY <1>2, <1>5

\* No two seeded reservations are at one table at one time, so the exclusion
\* constraint never turns the transaction away (the slots of seed_postgres).
THEOREM SeedsNoDoubleBookingHolds == Spec => []SeedsNoDoubleBooking
<1>1. Inv => SeedsNoDoubleBooking
  <2>1. SUFFICES ASSUME Inv, NEW i \in DOMAIN rows.reservations, NEW j \in DOMAIN rows.reservations,
                        i # j, rows.reservations[i].table = rows.reservations[j].table,
                        Window(rows.reservations[i])[1] < Window(rows.reservations[j])[2],
                        Window(rows.reservations[j])[1] < Window(rows.reservations[i])[2]
                 PROVE  FALSE
    BY DEF SeedsNoDoubleBooking
  <2> DEFINE s == rows.reservations[i]
             t == rows.reservations[j]
  <2>2. s \in Keys(rows.tables) /\ t \in Keys(rows.tables) /\ s # t
    BY <2>1 DEF Inv, Inserted, Fitting, Drawn
  <2>3. s.day \in Int /\ t.day \in Int /\ s.slot \in 0 .. 5 /\ t.slot \in 0 .. 5
    BY <2>2, SlotAssumption DEF Keys
  <2> HIDE DEF s, t
  <2>4. s.day = t.day /\ s.slot = t.slot
    BY <2>1, <2>3, WindowsApart DEF s, t
  <2> QED
    BY <2>1, <2>2, <2>4 DEF Keys, s, t
<1> QED
  BY <1>1, InvHolds, PTL
=============================================================================
