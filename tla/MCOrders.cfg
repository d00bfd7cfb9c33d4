\* Customers place orders, and staff change the status of orders.
CONSTANTS
    None = None
    o1 = o1  p1 = p1  m1 = m1  m2 = m2  m3 = m3
    ada = ada  ben = ben  cook = cook  curry = curry  tea = tea
    Seed = {o1}
    Placer = {p1}
    Mover = {m1, m2, m3}
    User = {ada, ben, cook}
    Staff = {cook}
    Restaurant = {1, 2}
    Product = {curry, tea}
    Owner <- MCOwner
    Menus <- MCMenus
    Stored <- MCStored
    Plan <- MCPlan
    MaxTotal = 6
    Fragile = {p1, m1}
SPECIFICATION FairSpec
INVARIANTS
    ChangesFormAPath
    AnswersMatchOrders
    Inv
PROPERTIES
    OnlyTransitions
    EveryOrderRequestEnds
CHECK_DEADLOCK FALSE
