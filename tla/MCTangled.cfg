\* Bookings and reactivations that wait for each other: the ledger is
\* implemented, and everything ends.
CONSTANTS
    q1 = q1  q2 = q2  q3 = q3  q4 = q4  s1 = s1  s2 = s2
    t1 = t1  t2 = t2  u1 = u1  u2 = u2  u3 = u3  r1 = r1  r2 = r2
    None = None  Star = Star
    Req = {q1, q2, q3}
    Seed = {s1, s2}
    Table = {t1}
    TableId = {t1, t2}
    Restaurant = {r1, r2}
    User = {u1, u2, u3}
    Staff = {u2}
    Party = {1, 2}
    Killable = {q1, q2}
    MaxTags = 1
    Window <- MCWindow
    Info <- MCInfo
    Stored <- TangledStored
    Plan <- TangledPlan
SPECIFICATION FairSpec
INVARIANTS
    Inductive
    LosersLoseToABooking
    ServerErrorsNeedAPatch
PROPERTIES
    ImplementsLedger
    EveryRequestEnds
