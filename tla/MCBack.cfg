\* A rename in new_only, and the way back to dual_write.
CONSTANTS
    None = None  Blank = Blank
    ada = ada  mary = mary  alan = alan
    Name = {ada, mary, alan}
    Seed = {1}
    Req = {4}
    Stored <- MCStored
    Plan <- Mixed
    Script <- Back
    Patient = TRUE
    Env <- Nothing
    Unchecked <- Nothing
    BatchSize = 1
    MaxPasses = 5
    MaxRestarts = 0
    MaxTimeouts = 0
SPECIFICATION Spec
PROPERTY
    OnlyClientsChangeNames
CHECK_DEADLOCK FALSE
