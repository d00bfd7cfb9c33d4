\* The booking page and the account page of one customer, beside other clients.
CONSTANTS
    None = None
    t1 = t1  t2 = t2  u1 = u1  u2 = u2
    Req = {1, 2, 3, 4}
    Seed = {0}
    Table = {t1, t2}
    User = {u1, u2}
    Me = u1
    Party = {2, 4}
    MaxErrors = 1
    Window <- MCWindow
    Default <- MCDefault
    Foreign <- MCForeign
    Given = {"confirmed", "cancelled"}
    Info <- MCInfo
    Stored <- MCStored
SPECIFICATION FairSpec
INVARIANTS
    Inv
    OffersAreBookable
PROPERTIES
    CancelsWhatWasSeen
    PagesComeBack
CHECK_DEADLOCK FALSE
