\* The script dies anywhere and is run again, with --reset or without.
CONSTANTS
    None = None
    NUsers = 2
    NRestaurants = 2
    TablesPer = 1
    NReservations = 2
    NOrders = 1
    ItemsPer = 2
    NProducts = 2
    NReviews = 1
    NTelemetry = 1
    Days <- MCDays
    Slots = {0, 1, 2, 3, 4, 5}
    MinPg = 8
    MinMongo = 4
    MaxRuns = 3
SPECIFICATION Spec
INVARIANTS
    AllOrNothing
    SeedsNoDoubleBooking
    NoDocumentTwice
    ResetMendsEverything
    Inv
CHECK_DEADLOCK FALSE
