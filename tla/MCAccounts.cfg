\* Sign-ups, log-ins, edits and administrators share two connections.
CONSTANTS
    None = None  Keep = Keep
    ada = ada  ben = ben  root = root  q1 = q1  q2 = q2  q3 = q3
    Seed = {ada, ben, root}
    Req = {q1, q2, q3}
    Conn = {1, 2}
    a = a  upperA = upperA  b = b  c = c  r = r  old = old  new = new
    Email = {a, upperA, b, c, r}
    Phone = {old, new}
    Address <- MCAddress
    Stored <- MCStored
    Plan <- MCPlan
SPECIFICATION FairSpec
INVARIANTS
    OneAccountPerAddress
    NoneKeptWhileHashing
    AnswersMatchAccounts
    TakenBySomebodyElse
    FieldsHaveWriters
    OnlyAdminsHoldAndWait
    Inductive
PROPERTY
    EveryCallEnds
CHECK_DEADLOCK FALSE
